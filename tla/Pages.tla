--------------------------------- MODULE Pages ---------------------------------
(***************************************************************************)
(* A client reads a long answer page by page (tools/pagination.py, as      *)
(* find_references and the other flat-list tools use it) while jobs write  *)
(* the index.                                                              *)
(*                                                                         *)
(* Each call reads the generation, and then the rows: one SELECT for each  *)
(* symbol its selector stands for, on connections with no transaction      *)
(* around them, so that jobs may commit between any two of these reads.    *)
(* It keeps the rows past the cursor in the order of their keys, returns   *)
(* the first Limit, and, if there are more, a cursor with the generation   *)
(* and the key of the last one.  A cursor of another generation is an      *)
(* error.  Index jobs count the generation; merge jobs, and the removal of *)
(* the symbols of a deleted file, change rows without counting it.         *)
(***************************************************************************)
EXTENDS Naturals, FiniteSets

CONSTANTS
    Rows,        \* all rows the answer may ever have
    Key,         \* [Rows -> Nat]: the ordering key; two rows may have the same
    Target,      \* [Rows -> Targets]: the symbol a row is selected by
    Targets,     \* the symbols the selector stands for
    Limit,       \* the size of a page
    MaxWrites    \* bound: commits

ASSUME KeyAssumption == Key \in [Rows -> Nat] /\ Target \in [Rows -> Targets]
ASSUME LimitAssumption == Limit \in Nat \ {0}
ASSUME RowsAssumption == IsFiniteSet(Rows)
ASSUME BoundAssumption == MaxWrites \in Nat

VARIABLES
    rows,        \* the rows of the answer that are in the index
    generation,  \* the index generation
    writes,
    stage,       \* of the session: ready, reading, done or stale
    pinned,      \* the generation the running call read
    cursor,      \* generation and key of the cursor, or NoCursor
    waiting,     \* symbols whose rows the running call has still to select
    matches,     \* the rows it selected
    delivered,   \* the rows of all pages so far
    page,        \* the rows of the last page
    stayed,      \* history: rows that were there since the session began
    before,      \* history: generations at which the earlier calls selected rows
    during       \* history: generations at which the running call did

session == <<stage, pinned, cursor, waiting, matches, delivered, page, before, during>>
vars == <<rows, generation, writes, stayed, session>>

NoCursor == [generation |-> 0, key |-> 0, given |-> FALSE]
Cursor(g, k) == [generation |-> g, key |-> k, given |-> TRUE]

Init ==
    /\ rows \in SUBSET Rows /\ generation = 0 /\ writes = 0
    /\ stage = "ready" /\ pinned = 0 /\ cursor = NoCursor
    /\ waiting = {} /\ matches = {} /\ delivered = {} /\ page = {}
    /\ stayed = rows /\ before = {} /\ during = {}

-----------------------------------------------------------------------------
(* The index *)

Commit(to, counted) ==
    /\ writes < MaxWrites
    /\ rows' = to /\ stayed' = stayed \cap to
    /\ generation' = IF counted THEN generation + 1 ELSE generation
    /\ writes' = writes + 1
    /\ UNCHANGED session

IndexJob(to) == Commit(to, TRUE)

\* A merge job, or the second commit of a job for a deleted file.
UncountedWrite(to) == to # rows /\ Commit(to, FALSE)

-----------------------------------------------------------------------------
(* A call *)

\* Mutant: the cursor is used whatever its generation.
CallUnchecked ==
    /\ stage = "ready"
    /\ pinned' = generation
    /\ stage' = "reading" /\ waiting' = Targets
    /\ matches' = {} /\ before' = before \cup during /\ during' = {}
    /\ UNCHANGED <<rows, generation, writes, stayed, cursor, delivered, page>>

\* The generation is read first, and a cursor of another one is refused.
Call ==
    /\ stage = "ready"
    /\ pinned' = generation
    /\ IF cursor.given /\ cursor.generation # generation
       THEN stage' = "stale" /\ UNCHANGED waiting
       ELSE stage' = "reading" /\ waiting' = Targets
    /\ matches' = {} /\ before' = before \cup during /\ during' = {}
    /\ UNCHANGED <<rows, generation, writes, stayed, cursor, delivered, page>>

\* list_by_target of one of the candidates
Select(t) ==
    /\ stage = "reading" /\ t \in waiting
    /\ matches' = matches \cup {r \in rows : Target[r] = t}
    /\ waiting' = waiting \ {t}
    /\ during' = during \cup {generation}
    /\ UNCHANGED <<rows, generation, writes, stayed, stage, pinned, cursor, delivered, page, before>>

\* Mutant: the row of the cursor itself is kept.
PastOrAt(r) == cursor.given => Key[r] >= cursor.key

\* filter_since: strictly past the cursor.
Past(r) == cursor.given => Key[r] > cursor.key

Remaining == {r \in matches : Past(r)}

\* The first rows in the order of the keys; rows with one key come in the order
\* of the SELECTs.
FirstRows(P) ==
    /\ P \subseteq Remaining
    /\ Cardinality(P) = Limit
    /\ \A r \in P, q \in Remaining \ P : Key[r] <= Key[q]

Truncated == Cardinality(Remaining) > Limit

\* Mutant: the cursor is the key of the first row that is not on the page.
FirstAfter(P, r) == r \in Remaining \ P /\ \A q \in Remaining \ P : Key[r] <= Key[q]

\* The last row of the page gives the cursor its key.
LastOf(P, r) == r \in P /\ \A q \in P : Key[q] <= Key[r]

Return(P) ==
    /\ stage = "reading" /\ waiting = {}
    /\ IF Truncated THEN FirstRows(P) ELSE P = Remaining
    /\ IF Truncated
       THEN stage' = "ready" /\ \E r \in Rows : LastOf(P, r) /\ cursor' = Cursor(pinned, Key[r])
       ELSE stage' = "done" /\ UNCHANGED cursor
    /\ delivered' = delivered \cup P
    /\ page' = P
    /\ UNCHANGED <<rows, generation, writes, stayed, pinned, waiting, matches, before, during>>

Reader == Call \/ (\E t \in waiting : Select(t)) \/ (\E P \in SUBSET matches : Return(P))
Writer == \E to \in SUBSET Rows : IndexJob(to) \/ UncountedWrite(to)

Next == Reader \/ Writer
Spec == Init /\ [][Next]_vars

-----------------------------------------------------------------------------
(* Properties *)

TypeOK ==
    /\ rows \subseteq Rows /\ generation \in Nat /\ writes \in 0..MaxWrites
    /\ stage \in {"ready", "reading", "done", "stale"}
    /\ pinned \in Nat /\ cursor \in [generation : Nat, key : Nat, given : BOOLEAN]
    /\ waiting \subseteq Targets /\ matches \subseteq Rows /\ page \subseteq delivered
    /\ delivered \subseteq Rows /\ stayed \subseteq rows
    /\ before \subseteq Nat /\ during \subseteq Nat

\* No row is delivered twice, and a later page comes after all earlier ones,
\* whatever is written between the calls.
PageComesAfter == stage = "reading" /\ stage' # "reading" =>
    \A r \in page', q \in delivered : Key[q] < Key[r]
DeliversOnward == [][PageComesAfter]_vars

\* A session that ends without an error has delivered each row that was in the
\* index all the time, if no other row has its key.
Alone(r) == \A q \in Rows : Key[q] = Key[r] => q = r
StayersDelivered == stage = "done" => \A r \in stayed : Alone(r) => r \in delivered

\* A call that goes on from a cursor knows that all pages before it were read
\* at one generation, the cursor's and its own.
EarlierPagesPinned == stage = "reading" => before \subseteq {pinned}

\* What the documentation says of all keys, and find_references' key breaks, which
\* two rows of one site may share.
NothingSkipped == stage = "done" => stayed \subseteq delivered
===============================================================================
