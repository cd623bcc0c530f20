---------------------------- MODULE MCWriteQueue ----------------------------
(***************************************************************************)
(* Two repositories; two root jobs race for the first writer of one of     *)
(* them, and the callback of one of those follows up in its own repository *)
(* and in the other, whose writer may not exist yet.                       *)
(***************************************************************************)
EXTENDS WriteQueue, TLC

CONSTANTS r1, r2, index, edit, ready, remote

MCRepoOf == (index :> r1) @@ (edit :> r1) @@ (ready :> r1) @@ (remote :> r2)

MCParent == (index :> NoJob) @@ (edit :> NoJob) @@ (ready :> index)
                @@ (remote :> index)
=============================================================================
