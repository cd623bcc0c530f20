-------------------------------- MODULE MCPages --------------------------------
(***************************************************************************)
(* A selector that stands for two symbols, five references to them of      *)
(* which two share an ordering key across the symbols, and pages of two.   *)
(***************************************************************************)
EXTENDS Pages

MCRows == 1..5

MCKey == [r \in MCRows |-> IF r = 5 THEN 3 ELSE r]

MCTargets == {"f", "g"}

MCTarget == [r \in MCRows |-> IF r \in {1, 3, 4} THEN "f" ELSE "g"]
===============================================================================
