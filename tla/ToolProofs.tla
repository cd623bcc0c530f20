------------------------------- MODULE ToolProofs -------------------------------
(***************************************************************************)
(* What an answer of the query tools is worth although the index is        *)
(* written while they read it.  For pages: every set of rows, every size   *)
(* of page and any number of commits.  For walks: every set of relations,  *)
(* every request and any number of commits.  For import cycles: every      *)
(* finite set of files with any imports, visited in any order.             *)
(***************************************************************************)
EXTENDS Pages, GraphWalk, Architecture,
        FiniteSetTheorems, SequenceTheorems, WellFoundedInduction, TLAPS

-----------------------------------------------------------------------------
(* Pages *)


\* Between the pages, the rows up to the cursor are delivered and no others.
Progress ==
    /\ cursor.given => \A r \in delivered : Key[r] <= cursor.key \/ stage = "done"
    /\ ~cursor.given => delivered = {} \/ stage = "done"
    /\ cursor.given => \A r \in stayed : Alone(r) /\ Key[r] <= cursor.key => r \in delivered
    /\ stage = "reading" => \A r \in stayed : Target[r] \in waiting \/ r \in matches

\* The generations at which rows were selected, against those that were read.
Generations ==
    /\ \A g \in before \cup during : g <= generation
    /\ stage = "ready" => IF cursor.given THEN \A g \in before \cup during : cursor.generation <= g
                          ELSE before \cup during = {}
    /\ stage = "reading" => /\ pinned <= generation
                           /\ before \subseteq {pinned} /\ \A g \in during : pinned <= g

Inv == TypeOK /\ Progress /\ StayersDelivered /\ Generations

LEMMA InitInv == Init => Inv
<1> SUFFICES ASSUME Init PROVE Inv
  OBVIOUS
<1>1. cursor \in [generation : Nat, key : Nat, given : BOOLEAN] /\ ~cursor.given
  BY DEF Init, NoCursor
<1>2. TypeOK
  BY <1>1, BoundAssumption DEF Init, TypeOK
<1>3. Progress
  BY <1>1 DEF Init, Progress
<1>4. StayersDelivered /\ Generations
  BY <1>1 DEF Init, StayersDelivered, Generations
<1> QED BY <1>2, <1>3, <1>4 DEF Inv

LEMMA CommitInv ==
    ASSUME Inv, NEW to \in SUBSET Rows, NEW counted \in BOOLEAN, Commit(to, counted)
    PROVE  Inv'
<1>1. TypeOK'
  BY BoundAssumption DEF Inv, TypeOK, Commit, session
<1>2. Progress'
  BY DEF Inv, TypeOK, Progress, Commit, session
<1>3. StayersDelivered'
  BY DEF Inv, StayersDelivered, Commit, session
<1>4. Generations'
  <2>1. generation \in Nat /\ generation' \in Nat /\ generation <= generation'
    BY DEF Inv, TypeOK, Commit
  <2>2. before \subseteq Nat /\ during \subseteq Nat
    BY DEF Inv, TypeOK
  <2>3. UNCHANGED <<stage, pinned, cursor, before, during>>
    BY DEF Commit, session
  <2>4. \A g \in before \cup during : g <= generation'
    BY <2>1, <2>2 DEF Inv, Generations
  <2>5. stage = "reading" => pinned <= generation'
    BY <2>1 DEF Inv, TypeOK, Generations
  <2> QED BY <2>3, <2>4, <2>5 DEF Inv, Generations
<1> QED BY <1>1, <1>2, <1>3, <1>4 DEF Inv

LEMMA CallInv == ASSUME Inv, Call PROVE Inv'
<1>1. TypeOK'
  BY DEF Inv, TypeOK, Call
<1>2. Progress'
  BY KeyAssumption DEF Inv, TypeOK, Progress, Call
<1>3. StayersDelivered'
  BY DEF Call, StayersDelivered
<1>4. Generations'
  <2>1. CASE cursor.given /\ cursor.generation # generation
    BY <2>1 DEF Inv, Generations, Call
  <2>2. CASE cursor.given /\ cursor.generation = generation
    <3>1. \A g \in before \cup during : g = generation
      BY <2>2 DEF Inv, TypeOK, Generations, Call
    <3> QED BY <2>2, <3>1 DEF Inv, TypeOK, Generations, Call
  <2>3. CASE ~cursor.given
    BY <2>3 DEF Inv, TypeOK, Generations, Call
  <2> QED BY <2>1, <2>2, <2>3
<1> QED BY <1>1, <1>2, <1>3, <1>4 DEF Inv

LEMMA SelectInv == ASSUME Inv, NEW t \in waiting, Select(t) PROVE Inv'
<1>1. TypeOK'
  BY DEF Inv, TypeOK, Select
<1>2. Progress'
  BY DEF Inv, TypeOK, Progress, Select
<1>3. StayersDelivered'
  BY DEF Select, StayersDelivered
<1>4. Generations'
  <2>1. generation \in Nat /\ pinned \in Nat
    BY DEF Inv, TypeOK
  <2> QED BY <2>1 DEF Inv, TypeOK, Generations, Select
<1> QED BY <1>1, <1>2, <1>3, <1>4 DEF Inv

\* A row that stayed and is alone with its key is on this page or on one before
\* when its key is at most that of the last row.
LEMMA StayerIsReturned ==
    ASSUME Inv, NEW P \in SUBSET matches, Return(P), NEW s \in stayed, Alone(s), s \notin delivered,
           \/ ~Truncated
           \/ \E r \in Rows : LastOf(P, r) /\ Key[s] <= Key[r]
    PROVE  s \in P
<1>0. stayed \subseteq Rows /\ matches \subseteq Rows /\ cursor.key \in Nat
  BY DEF Inv, TypeOK
<1>1. s \in matches
  BY DEF Inv, Progress, Return
<1>2. Past(s)
  BY <1>0, KeyAssumption DEF Inv, Progress, Past
<1>3. s \in Remaining
  BY <1>1, <1>2 DEF Remaining
<1>4. CASE ~Truncated
  BY <1>3, <1>4 DEF Return
<1>5. CASE Truncated
  <2>1. PICK r \in Rows : LastOf(P, r) /\ Key[s] <= Key[r]
    BY <1>5
  <2>2. SUFFICES ASSUME s \notin P PROVE FALSE
    OBVIOUS
  <2>3. Key[r] <= Key[s]
    BY <1>3, <1>5, <2>1, <2>2 DEF Return, FirstRows, LastOf
  <2>4. Key[r] = Key[s]
    BY <1>0, <2>1, <2>3, KeyAssumption
  <2>5. r = s
    BY <2>1, <2>4 DEF Alone
  <2> QED BY <2>1, <2>2, <2>5 DEF LastOf
<1> QED BY <1>4, <1>5

LEMMA PageIsPast ==
    ASSUME Inv, NEW P \in SUBSET matches, Return(P)
    PROVE  \A r \in P, q \in delivered : Key[q] < Key[r]
<1>1. \A r \in P : Past(r)
  BY DEF Return, FirstRows, Remaining
<1>2. stage = "reading" /\ matches \subseteq Rows /\ delivered \subseteq Rows /\ cursor.key \in Nat
  BY DEF Inv, TypeOK, Return
<1> QED BY <1>1, <1>2, KeyAssumption DEF Inv, Progress, Past

LEMMA ReturnInv == ASSUME Inv, NEW P \in SUBSET matches, Return(P) PROVE Inv'
<1>0. stayed \subseteq Rows /\ matches \subseteq Rows /\ delivered \subseteq Rows /\ pinned \in Nat
  BY DEF Inv, TypeOK
<1>1. CASE Truncated
  <2>1. PICK r \in Rows : LastOf(P, r) /\ cursor' = Cursor(pinned, Key[r])
    BY <1>1 DEF Return
  <2>2. /\ cursor'.given /\ cursor'.key = Key[r] /\ cursor'.generation = pinned
        /\ cursor' \in [generation : Nat, key : Nat, given : BOOLEAN]
    BY <1>0, <2>1, KeyAssumption DEF Cursor
  <2>3. TypeOK'
    BY <1>0, <1>1, <2>2 DEF Inv, TypeOK, Return
  <2>4. \A q \in delivered' : Key[q] <= cursor'.key
    <3>1. \A q \in P : Key[q] <= Key[r]
      BY <2>1 DEF LastOf
    <3>2. \A q \in delivered : Key[q] <= Key[r]
      BY <1>0, <2>1, PageIsPast, KeyAssumption DEF LastOf
    <3> QED BY <2>2, <3>1, <3>2 DEF Return
  <2>5. \A s \in stayed : Alone(s) /\ Key[s] <= cursor'.key => s \in delivered'
    BY <2>1, <2>2, StayerIsReturned DEF Return
  <2>6. Progress'
    BY <1>1, <2>2, <2>4, <2>5 DEF Progress, Return, Alone
  <2>7. Generations'
    <3>1. \A g \in before \cup during : pinned <= g
      BY <1>0 DEF Inv, Generations, Return
    <3> QED BY <1>1, <2>2, <3>1 DEF Inv, Generations, Return
  <2> QED BY <1>1, <2>3, <2>6, <2>7 DEF Inv, StayersDelivered, Return
<1>2. CASE ~Truncated
  <2>1. \A s \in stayed : Alone(s) => s \in delivered'
    BY <1>2, StayerIsReturned DEF Return
  <2>2. TypeOK'
    BY <1>0, <1>2 DEF Inv, TypeOK, Return
  <2>3. Progress'
    BY <1>2, <2>1 DEF Inv, Progress, Return, Alone
  <2>4. Generations'
    BY <1>2 DEF Inv, Generations, Return
  <2> QED BY <1>2, <2>1, <2>2, <2>3, <2>4 DEF Inv, StayersDelivered, Return, Alone
<1> QED BY <1>1, <1>2

LEMMA StepInv == Inv /\ [Next]_vars => Inv'
<1> SUFFICES ASSUME Inv, [Next]_vars PROVE Inv'
  OBVIOUS
<1>1. CASE Call
  BY <1>1, CallInv
<1>2. ASSUME NEW t \in waiting, Select(t) PROVE Inv'
  BY <1>2, SelectInv
<1>3. ASSUME NEW P \in SUBSET matches, Return(P) PROVE Inv'
  BY <1>3, ReturnInv
<1>4. ASSUME NEW to \in SUBSET Rows, IndexJob(to) \/ UncountedWrite(to) PROVE Inv'
  BY <1>4, CommitInv DEF IndexJob, UncountedWrite
<1>5. CASE UNCHANGED vars
  BY <1>5 DEF Inv, TypeOK, Progress, StayersDelivered, Generations, Alone, vars, session
<1> QED BY <1>1, <1>2, <1>3, <1>4, <1>5 DEF Next, Reader, Writer

LEMMA AlwaysInv == Spec => []Inv
<1>1. Init => Inv
  BY InitInv
<1>2. Inv /\ [Next]_vars => Inv'
  BY StepInv
<1> QED BY <1>1, <1>2, PTL DEF Spec

\* A session that ends has lost none of the rows that were there all the time,
\* however many commits fall between and within its calls (find_references.py).
THEOREM NothingThatStayedIsLost == Spec => []StayersDelivered
<1>1. Inv => StayersDelivered
  BY DEF Inv
<1> QED BY <1>1, AlwaysInv, PTL

\* All pages before the running call are of its generation (pagination.py:72).
THEOREM PagesBeforeArePinned == Spec => []EarlierPagesPinned
<1>1. Inv => EarlierPagesPinned
  BY DEF Inv, Generations, EarlierPagesPinned
<1> QED BY <1>1, AlwaysInv, PTL

LEMMA StepPageComesAfter == ASSUME Inv, [Next]_vars PROVE [PageComesAfter]_vars
<1>1. ASSUME NEW P \in SUBSET matches, Return(P) PROVE PageComesAfter
  BY <1>1, PageIsPast DEF PageComesAfter, Return
<1>2. CASE Call
  BY <1>2 DEF PageComesAfter, Call
<1>3. ASSUME NEW t \in waiting, Select(t) PROVE PageComesAfter
  BY <1>3 DEF PageComesAfter, Select
<1>4. CASE Writer
  BY <1>4 DEF PageComesAfter, Writer, IndexJob, UncountedWrite, Commit, session
<1> QED BY <1>1, <1>2, <1>3, <1>4 DEF Next, Reader

\* Every page lies past all pages before it, so no row is delivered twice.
THEOREM PagesGoOnward == Spec => DeliversOnward
<1>1. Inv /\ [Next]_vars => [PageComesAfter]_vars
  BY StepPageComesAfter
<1> QED BY <1>1, AlwaysInv, PTL DEF Spec, DeliversOnward

-----------------------------------------------------------------------------
(* Walks *)


\* The symbols whose relations the walk has read.
Read == nodes \ (level \cup next)

ReadIsRecorded ==
    ~truncated => \A r \in lasting : From(r) \in Read =>
        To(r) \in nodes /\ (request.edges => r \in edges)

\* After its last step a walk has read all, or says what it has not.
Ends ==
    /\ walkStage = "done" /\ ~truncated => level = {} /\ next = {}
    /\ walkStage = "looking" => ~truncated /\ next = {}

\* Once the answer is full it stays as it is, and so does what it lacks.
CutStays ==
    truncated =>
        /\ walkStage = "walking" => /\ Cardinality(nodes) >= request.cap
                                /\ \E r \in seen : From(r) \in nodes /\ To(r) \notin nodes
        /\ \E r \in seen : From(r) \in nodes /\ (To(r) \notin nodes \/ (request.edges /\ r \notin edges))

WalkInv == WalkTypeOK /\ ReadIsRecorded /\ Ends /\ CutStays /\ EdgesJoinNodes

LEMMA RequestType ==
    ASSUME request \in Requests
    PROVE  request.root \in Ids /\ request.cap \in Nat /\ request.edges \in BOOLEAN
  BY RequestsAssumption

LEMMA EndsInIds ==
    ASSUME NEW r \in Relations
    PROVE  From(r) \in Ids /\ To(r) \in Ids
  BY RelationsAssumption DEF From, To

LEMMA InitWalkInv == WalkInit => WalkInv
<1> SUFFICES ASSUME WalkInit PROVE WalkInv
  OBVIOUS
<1>1. WalkTypeOK
  BY RequestType DEF WalkInit, WalkTypeOK
<1> QED BY <1>1 DEF WalkInit, WalkInv, ReadIsRecorded, Ends, CutStays, EdgesJoinNodes, Read

LEMMA JobCommitsInv == ASSUME WalkInv, NEW to \in SUBSET Relations, JobCommits(to) PROVE WalkInv'
<1>1. WalkTypeOK'
  BY DEF WalkInv, WalkTypeOK, JobCommits, walk, answer
<1>2. UNCHANGED <<request, walkStage, level, next, nodes, edges, truncated>>
  BY DEF JobCommits, walk, answer
<1>3. lasting' \subseteq lasting /\ seen \subseteq seen'
  BY DEF JobCommits
<1>4. ReadIsRecorded' /\ Ends' /\ EdgesJoinNodes'
  BY <1>2, <1>3 DEF WalkInv, ReadIsRecorded, Ends, EdgesJoinNodes, Read, From, To
<1>5. CutStays'
  BY <1>2, <1>3 DEF WalkInv, CutStays, From, To
<1> QED BY <1>1, <1>4, <1>5 DEF WalkInv

\* A full answer takes nothing more in.
LEMMA FullStays ==
    ASSUME WalkInv, NEW n \in level, NEW new \in SUBSET Found(n), Returned(n, new),
           Cardinality(nodes) >= request.cap
    PROVE  new = {}
<1>1. IsFiniteSet(nodes) /\ IsFiniteSet(new)
  <2>1. nodes \subseteq Ids /\ new \subseteq Ids
    BY EndsInIds DEF WalkInv, WalkTypeOK, Found, RelationsOf
  <2> QED BY <2>1, IdsAssumption, FS_Subset
<1>2. Cardinality(nodes) \in Nat /\ Cardinality(new) \in Nat /\ request.cap \in Nat
  BY <1>1, FS_CardinalityType, RequestType DEF WalkInv, WalkTypeOK
<1>3. Cardinality(new) = 0
  BY <1>2 DEF Returned
<1> QED BY <1>1, <1>3, FS_EmptySet

\* What is left out for want of room leaves the answer full.
LEMMA CutMeansFull ==
    ASSUME WalkInv, NEW n \in level, NEW new \in SUBSET Found(n), Returned(n, new), new # Found(n)
    PROVE  Cardinality(nodes \cup new) >= request.cap
<1>1. nodes \subseteq Ids /\ new \subseteq Ids
  BY EndsInIds DEF WalkInv, WalkTypeOK, Found, RelationsOf
<1>2. IsFiniteSet(nodes) /\ IsFiniteSet(new)
  BY <1>1, IdsAssumption, FS_Subset
<1>3. nodes \cap new = {}
  BY DEF Found
<1>4. Cardinality(nodes \cup new) = Cardinality(nodes) + Cardinality(new)
  <2>1. Cardinality(nodes \cup new) = Cardinality(nodes) + Cardinality(new) - Cardinality(nodes \cap new)
    BY <1>2, FS_Union
  <2>2. Cardinality(nodes \cap new) = 0
    BY <1>3, FS_EmptySet
  <2>3. Cardinality(nodes) \in Nat /\ Cardinality(new) \in Nat
    BY <1>2, FS_CardinalityType
  <2> QED BY <2>1, <2>2, <2>3
<1> QED BY <1>4 DEF Returned

\* How a level ends: the rest of it, or the next one, is what is not read.
LEMMA DescendUnread ==
    ASSUME NEW rest, NEW found, NEW cut \in BOOLEAN, Descend(rest, found, cut), depth \in Nat
    PROVE  /\ level' \cup next' = rest \cup found
           /\ depth' \in Nat
           /\ walkStage = "walking" =>
                /\ walkStage' \in {"walking", "looking", "done"}
                /\ walkStage' = "done" /\ ~cut => level' = {} /\ next' = {}
                /\ walkStage' = "looking" => ~cut /\ next' = {}
  BY DEF Descend

LEMMA ExpandInv ==
    ASSUME WalkInv, NEW n \in level, NEW new \in SUBSET Found(n), Expand(n, new)
    PROVE  WalkInv'
<1>0. /\ Returned(n, new) /\ walkStage = "walking" /\ n \in nodes
      /\ nodes' = nodes \cup new /\ edges' = edges \cup Kept(n, new)
      /\ truncated' = (truncated \/ new # Found(n))
      /\ UNCHANGED <<live, commits, request, lasting, seen>>
  BY DEF Expand, WalkInv, WalkTypeOK
<1>1. /\ level' \cup next' = (level \ {n}) \cup (next \cup new)
      /\ depth' \in Nat /\ walkStage' \in {"walking", "looking", "done"}
      /\ walkStage' = "done" /\ ~truncated' => level' = {} /\ next' = {}
      /\ walkStage' = "looking" => ~truncated' /\ next' = {}
  <2>1. Descend(level \ {n}, next \cup new, truncated') /\ truncated' \in BOOLEAN /\ depth \in Nat
    BY <1>0 DEF Expand, WalkInv, WalkTypeOK
  <2> QED BY <1>0, <2>1, DescendUnread
<1>2. RelationsOf(n) \subseteq live /\ new \subseteq Ids
  BY EndsInIds DEF RelationsOf, Found, WalkInv, WalkTypeOK
<1>3. WalkTypeOK'
  <2>1. Kept(n, new) \subseteq live
    BY <1>2 DEF Kept
  <2> QED BY <1>0, <1>1, <1>2, <2>1 DEF WalkInv, WalkTypeOK
<1>4. ReadIsRecorded'
  <2>1. SUFFICES ASSUME ~truncated', NEW r \in lasting, From(r) \in Read'
                 PROVE  To(r) \in nodes' /\ (request.edges => r \in edges')
    BY <1>0 DEF ReadIsRecorded, From, To
  <2>2. ~truncated /\ new = Found(n)
    BY <1>0, <2>1
  <2>3. From(r) \in Read \/ From(r) = n
    BY <1>0, <1>1, <2>1 DEF Read
  <2>4. CASE From(r) \in Read
    BY <1>0, <2>2, <2>4 DEF WalkInv, ReadIsRecorded
  <2>5. CASE From(r) = n
    <3>1. r \in RelationsOf(n)
      BY <2>5 DEF RelationsOf, WalkInv, WalkTypeOK
    <3>2. To(r) \in nodes \cup new
      BY <2>2, <3>1 DEF Found
    <3> QED BY <1>0, <3>1, <3>2 DEF Kept
  <2> QED BY <2>3, <2>4, <2>5
<1>5. Ends'
  BY <1>1 DEF Ends
<1>6. CutStays'
  <2>1. CASE truncated
    <3>1. new = {}
      BY <1>0, <2>1, FullStays DEF WalkInv, CutStays
    <3>2. nodes' = nodes
      BY <1>0, <3>1
    <3>3. PICK r \in seen : From(r) \in nodes /\ To(r) \notin nodes
      BY <1>0, <2>1 DEF WalkInv, CutStays
    <3> QED BY <1>0, <2>1, <3>2, <3>3 DEF WalkInv, CutStays, From, To
  <2>2. CASE new # Found(n)
    <3>1. PICK r \in RelationsOf(n) : To(r) \notin nodes /\ To(r) \notin new
      BY <2>2 DEF Found
    <3>2. r \in seen /\ From(r) \in nodes' /\ To(r) \notin nodes'
      BY <1>0, <3>1 DEF RelationsOf, WalkInv, WalkTypeOK
    <3>3. Cardinality(nodes') >= request.cap
      BY <1>0, <2>2, CutMeansFull
    <3> QED BY <1>0, <3>2, <3>3 DEF CutStays, From, To
  <2>3. CASE ~truncated'
    BY <2>3 DEF CutStays
  <2> QED BY <1>0, <2>1, <2>2, <2>3
<1>7. EdgesJoinNodes'
  <2>1. \A r \in Kept(n, new) : r.source \in nodes' /\ r.target \in nodes'
    BY <1>0 DEF Kept, RelationsOf, From, To
  <2> QED BY <1>0, <2>1 DEF WalkInv, EdgesJoinNodes
<1> QED BY <1>3, <1>4, <1>5, <1>6, <1>7 DEF WalkInv

LEMMA LookInv == ASSUME WalkInv, NEW n \in level, Look(n) PROVE WalkInv'
<1>0. /\ walkStage = "looking" /\ ~truncated /\ n \in nodes
      /\ truncated' = (Unrecorded(n) # {}) /\ level' = level \ {n}
      /\ walkStage' = IF truncated' \/ level' = {} THEN "done" ELSE "looking"
      /\ UNCHANGED <<live, commits, request, depth, next, nodes, edges, lasting, seen>>
  BY DEF Look, WalkInv, Ends, WalkTypeOK
<1>1. WalkTypeOK'
  BY <1>0 DEF WalkInv, WalkTypeOK
<1>2. ReadIsRecorded'
  <2>1. SUFFICES ASSUME ~truncated', NEW r \in lasting, From(r) \in Read'
                 PROVE  To(r) \in nodes /\ (request.edges => r \in edges)
    BY <1>0 DEF ReadIsRecorded, From, To
  <2>2. CASE From(r) \in Read
    BY <1>0, <2>2 DEF WalkInv, ReadIsRecorded
  <2>3. CASE From(r) = n
    BY <1>0, <2>1, <2>3 DEF Unrecorded, RelationsOf, WalkInv, WalkTypeOK
  <2> QED BY <1>0, <2>1, <2>2, <2>3 DEF Read
<1>3. CutStays'
  <2>1. SUFFICES ASSUME truncated' PROVE CutStays'
    BY DEF CutStays
  <2>2. PICK r \in Unrecorded(n) : TRUE
    BY <1>0, <2>1
  <2>3. r \in seen /\ From(r) \in nodes /\ (To(r) \notin nodes \/ (request.edges /\ r \notin edges))
    BY <1>0, <2>2 DEF Unrecorded, RelationsOf, WalkInv, WalkTypeOK
  <2> QED BY <1>0, <2>1, <2>3 DEF CutStays, From, To
<1>4. EdgesJoinNodes'
  BY <1>0 DEF WalkInv, EdgesJoinNodes
<1>5. Ends'
  BY <1>0 DEF WalkInv, Ends
<1> QED BY <1>1, <1>2, <1>3, <1>4, <1>5 DEF WalkInv

LEMMA StepWalkInv == WalkInv /\ [WalkNext]_walkVars => WalkInv'
<1> SUFFICES ASSUME WalkInv, [WalkNext]_walkVars PROVE WalkInv'
  OBVIOUS
<1>1. ASSUME NEW n \in level, Look(n) PROVE WalkInv'
  BY <1>1, LookInv
<1>2. ASSUME NEW n \in level, NEW new \in SUBSET Found(n), Expand(n, new) PROVE WalkInv'
  BY <1>2, ExpandInv
<1>3. ASSUME NEW to \in SUBSET Relations, JobCommits(to) PROVE WalkInv'
  BY <1>3, JobCommitsInv
<1>4. CASE UNCHANGED walkVars
  BY <1>4 DEF walkVars, walk, answer, WalkInv, WalkTypeOK, ReadIsRecorded, Ends, CutStays,
     EdgesJoinNodes, Read, From, To
<1> QED BY <1>1, <1>2, <1>3, <1>4 DEF WalkNext, Walk

LEMMA AlwaysWalkInv == WalkSpec => []WalkInv
<1>1. WalkInit => WalkInv
  BY InitWalkInv
<1>2. WalkInv /\ [WalkNext]_walkVars => WalkInv'
  BY StepWalkInv
<1> QED BY <1>1, <1>2, PTL DEF WalkSpec

\* graph, impact_analysis and affected_tests return all that stayed related to
\* what they return, unless they say that they are truncated.
THEOREM UntruncatedIsComplete == WalkSpec => []CompleteUnlessTruncated
<1>1. WalkInv => CompleteUnlessTruncated
  BY DEF WalkInv, WalkTypeOK, Ends, ReadIsRecorded, CompleteUnlessTruncated, Read
<1> QED BY <1>1, AlwaysWalkInv, PTL

\* They say so only when they left something out.
THEOREM TruncatedLacksSomething == WalkSpec => []TruncatedMeansCut
<1>1. WalkInv => TruncatedMeansCut
  BY DEF WalkInv, CutStays, TruncatedMeansCut
<1> QED BY <1>1, AlwaysWalkInv, PTL

\* The edges of an answer join symbols of the answer (graph.py:143).
THEOREM AnswersAreGraphs == WalkSpec => []EdgesJoinNodes
<1>1. WalkInv => EdgesJoinNodes
  BY DEF WalkInv
<1> QED BY <1>1, AlwaysWalkInv, PTL

\* What an induction over the numbers comes down to: a set of them has a least one.
LEMMA LeastNat == ASSUME NEW T \in SUBSET Nat, T # {} PROVE \E n \in T : \A m \in T : n <= m
<1>1. \E n \in T : \A m \in T : ~ (<<m, n>> \in OpToRel(<, Nat))
  BY NatLessThanWellFounded, WFMin
<1>2. PICK n \in T : \A m \in T : ~ (<<m, n>> \in OpToRel(<, Nat))
  BY <1>1
<1>3. ASSUME NEW m \in T PROVE n <= m
  <2>1. ~ (m < n)
    BY <1>2 DEF OpToRel
  <2> QED BY <2>1
<1> QED BY <1>3

(* Distances.  What is k relations from the root is what a walk of k steps ends
   at, a step being a relation or none; the walks of k + 1 steps are those of k
   and one more, so that the recursive definition of Within has a solution. *)

Stays(a, b) == a = b \/ \E r \in lasting : From(r) = a /\ To(r) = b
Walked(k, n) == \E p \in [0..k -> Ids] : p[0] = request.root /\ p[k] = n /\ \A i \in 1..k : Stays(p[i - 1], p[i])
Reach(k) == {n \in Ids : Walked(k, n)}
Behind(S) == {To(r) : r \in {q \in lasting : From(q) \in S}}

LEMMA ReachRoot == ASSUME request.root \in Ids PROVE Reach(0) = {request.root}
<1>1. ASSUME NEW n \in Reach(0) PROVE n = request.root
  BY DEF Reach, Walked
<1>2. Walked(0, request.root)
  <2> DEFINE p == [i \in 0..0 |-> request.root]
  <2>1. p \in [0..0 -> Ids] /\ p[0] = request.root
    OBVIOUS
  <2>2. \A i \in 1..0 : FALSE
    OBVIOUS
  <2> HIDE DEF p
  <2> QED BY <2>1, <2>2 DEF Walked
<1> QED BY <1>1, <1>2 DEF Reach

LEMMA ReachOn ==
    ASSUME WalkTypeOK, NEW k \in Nat \ {0}
    PROVE  Reach(k) = Reach(k - 1) \cup Behind(Reach(k - 1))
<1>1. ASSUME NEW n \in Reach(k) PROVE n \in Reach(k - 1) \cup Behind(Reach(k - 1))
  <2>1. PICK p \in [0..k -> Ids] : p[0] = request.root /\ p[k] = n /\ \A i \in 1..k : Stays(p[i - 1], p[i])
    BY DEF Reach, Walked
  <2>2. p[k - 1] \in Reach(k - 1)
    <3> DEFINE q == [i \in 0..(k - 1) |-> p[i]]
    <3>1. q \in [0..(k - 1) -> Ids] /\ q[0] = request.root /\ q[k - 1] = p[k - 1]
      BY <2>1
    <3>2. \A i \in 1..(k - 1) : Stays(q[i - 1], q[i])
      BY <2>1
    <3>3. p[k - 1] \in Ids
      OBVIOUS
    <3> HIDE DEF q
    <3>4. Walked(k - 1, p[k - 1])
      BY <3>1, <3>2 DEF Walked
    <3> QED BY <3>3, <3>4 DEF Reach
  <2>3. Stays(p[k - 1], n)
    BY <2>1
  <2> QED BY <2>2, <2>3 DEF Stays, Behind
<1>2. ASSUME NEW m \in Reach(k - 1), NEW n \in Ids, Stays(m, n) PROVE n \in Reach(k)
  <2>1. PICK p \in [0..(k - 1) -> Ids] :
            p[0] = request.root /\ p[k - 1] = m /\ \A i \in 1..(k - 1) : Stays(p[i - 1], p[i])
    BY DEF Reach, Walked
  <2> DEFINE q == [i \in 0..k |-> IF i = k THEN n ELSE p[i]]
  <2>2. q \in [0..k -> Ids] /\ q[0] = request.root /\ q[k] = n
    BY <2>1
  <2>3. ASSUME NEW i \in 1..k PROVE Stays(q[i - 1], q[i])
    BY <1>2, <2>1
  <2> HIDE DEF q
  <2>4. Walked(k, n)
    BY <2>2, <2>3 DEF Walked
  <2> QED BY <2>4 DEF Reach
<1>3. ASSUME NEW n \in Reach(k - 1) \cup Behind(Reach(k - 1)) PROVE n \in Reach(k)
  <2>1. CASE n \in Reach(k - 1)
    BY <1>2, <2>1 DEF Reach, Stays
  <2>2. CASE n \in Behind(Reach(k - 1))
    <3>1. PICK r \in lasting : From(r) \in Reach(k - 1) /\ To(r) = n
      BY <2>2 DEF Behind
    <3>2. r.source \in Ids /\ r.target \in Ids
      BY RelationsAssumption DEF WalkTypeOK
    <3>3. To(r) \in Ids
      BY <3>2 DEF To
    <3> QED BY <1>2, <3>1, <3>3 DEF Stays
  <2> QED BY <2>1, <2>2
<1> QED BY <1>1, <1>3

\* Distances exist: the walks of a length are what the recursive definition asks for.
LEMMA WithinExists ==
    ASSUME WalkTypeOK
    PROVE  Within = [k \in Nat |-> IF k = 0 THEN {request.root} ELSE Within[k - 1] \cup Behind(Within[k - 1])]
<1> DEFINE W == [k \in Nat |-> Reach(k)]
<1>1. request.root \in Ids
  BY RequestsAssumption DEF WalkTypeOK
<1>2. W = [k \in Nat |-> IF k = 0 THEN {request.root} ELSE W[k - 1] \cup Behind(W[k - 1])]
  <2>1. ASSUME NEW k \in Nat
        PROVE  Reach(k) = IF k = 0 THEN {request.root} ELSE W[k - 1] \cup Behind(W[k - 1])
    <3>1. CASE k = 0
      BY <1>1, <3>1, ReachRoot
    <3>2. CASE k # 0
      <4>1. k - 1 \in Nat /\ W[k - 1] = Reach(k - 1)
        BY <3>2
      <4> HIDE DEF W
      <4> QED BY <3>2, <4>1, ReachOn
    <3> QED BY <3>1, <3>2
  <2> QED BY <2>1
<1> HIDE DEF W
<1>3. \E f : f = [k \in Nat |-> IF k = 0 THEN {request.root} ELSE f[k - 1] \cup Behind(f[k - 1])]
  BY <1>2
<1> QED BY <1>3, Zenon DEF Within, Behind

LEMMA WithinSteps ==
    ASSUME WalkTypeOK
    PROVE  /\ Within[0] = {request.root}
           /\ \A k \in Nat : Within[k + 1] = Within[k] \cup Behind(Within[k])
<1> DEFINE W == Within
<1>1. W = [k \in Nat |-> IF k = 0 THEN {request.root} ELSE W[k - 1] \cup Behind(W[k - 1])]
  BY WithinExists
<1> HIDE DEF W
<1>2. W[0] = {request.root}
  BY <1>1
<1>3. ASSUME NEW k \in Nat PROVE W[k + 1] = W[k] \cup Behind(W[k])
  <2>1. k + 1 \in Nat /\ k + 1 # 0 /\ (k + 1) - 1 = k
    OBVIOUS
  <2>2. W[k + 1] = W[(k + 1) - 1] \cup Behind(W[(k + 1) - 1])
    BY <1>1, <2>1
  <2> QED BY <2>1, <2>2
<1> QED BY <1>2, <1>3 DEF W

LEMMA WithinSame ==
    ASSUME UNCHANGED <<request, lasting>> PROVE Within' = Within
  BY DEF Within, From, To

LEMMA WithinGrows ==
    ASSUME WalkTypeOK, NEW j \in Nat, NEW k \in Nat, j <= k
    PROVE  Within[j] \subseteq Within[k]
<1> DEFINE bad == {i \in Nat : j <= i /\ ~(Within[j] \subseteq Within[i])}
<1>1. SUFFICES ASSUME bad # {} PROVE FALSE
  OBVIOUS
<1>2. PICK i \in bad : \A m \in bad : i <= m
  <2>1. bad \in SUBSET Nat
    OBVIOUS
  <2> HIDE DEF bad
  <2> QED BY <1>1, <2>1, LeastNat
<1>3. i # j /\ i \in Nat /\ j <= i
  OBVIOUS
<1>4. i - 1 \in Nat /\ j <= i - 1 /\ (i - 1) + 1 = i /\ ~(i <= i - 1)
  BY <1>3
<1>5. Within[j] \subseteq Within[i - 1]
  BY <1>2, <1>4
<1>6. Within[i - 1] \subseteq Within[(i - 1) + 1]
  BY <1>4, WithinSteps
<1> QED BY <1>4, <1>5, <1>6

\* No relation leads out of S: the distances beyond add nothing.
Closed(S) == \A r \in lasting : From(r) \in S => To(r) \in S

LEMMA WithinStays ==
    ASSUME WalkTypeOK, NEW d \in Nat, Closed(Within[d]), NEW k \in Nat, d <= k
    PROVE  Within[k] = Within[d]
<1> DEFINE bad == {i \in Nat : d <= i /\ Within[i] # Within[d]}
<1>1. SUFFICES ASSUME bad # {} PROVE FALSE
  OBVIOUS
<1>2. PICK i \in bad : \A m \in bad : i <= m
  <2>1. bad \in SUBSET Nat
    OBVIOUS
  <2> HIDE DEF bad
  <2> QED BY <1>1, <2>1, LeastNat
<1>3. i # d /\ i \in Nat /\ d <= i
  OBVIOUS
<1>4. i - 1 \in Nat /\ d <= i - 1 /\ (i - 1) + 1 = i /\ ~(i <= i - 1)
  BY <1>3
<1>5. Within[i - 1] = Within[d]
  BY <1>2, <1>4
<1>6. Within[(i - 1) + 1] = Within[i - 1] \cup Behind(Within[i - 1])
  BY <1>4, WithinSteps
<1>7. Behind(Within[d]) \subseteq Within[d]
  BY DEF Closed, Behind
<1> QED BY <1>4, <1>5, <1>6, <1>7

\* The body of the property.
Nearest ==
    /\ nodes \subseteq Within[request.depth]
    /\ \A k \in 0..request.depth :
           Within[k] \subseteq nodes \/ (Cardinality(nodes) = request.cap /\ nodes \subseteq Within[k])

\* In the middle of a level: the answer has all that is no farther than this level
\* and nothing farther than the next, and what has been read of the level is whole.
LevelInv ==
    /\ Within[depth] \subseteq nodes /\ nodes \subseteq Within[depth + 1]
    /\ level \subseteq Within[depth]
    /\ next = nodes \ Within[depth]
    /\ \A r \in lasting : From(r) \in Within[depth] \ level => To(r) \in nodes

\* In an index that nobody writes: an answer that is cut is already the nearest,
\* and one that is not is all that its distance allows.
NearInv == commits = 0 =>
    /\ live = lasting
    /\ Cardinality(nodes) <= request.cap
    /\ walkStage = "walking" => depth < request.depth
    /\ truncated => Nearest
    /\ ~truncated /\ walkStage = "walking" => LevelInv
    /\ ~truncated /\ walkStage # "walking" => nodes = Within[request.depth]

LEMMA RequestBounds ==
    ASSUME request \in Requests
    PROVE  request.root \in Ids /\ request.cap \in Nat \ {0} /\ request.depth \in Nat \ {0}
  BY RequestsAssumption

LEMMA InitNearInv == WalkInit => NearInv
<1> SUFFICES ASSUME WalkInit PROVE NearInv
  OBVIOUS
<1>1. WalkInv /\ WalkTypeOK
  BY InitWalkInv DEF WalkInv
<1>2. Within[0] = {request.root} /\ Within[0] \subseteq Within[0 + 1]
  BY <1>1, WithinSteps, WithinGrows
<1>3. request.cap \in Nat \ {0} /\ request.depth \in Nat \ {0}
  BY <1>1, RequestBounds DEF WalkTypeOK
<1>4. Cardinality(nodes) <= request.cap
  <2>1. Cardinality({request.root}) = 1
    BY FS_Singleton
  <2>2. nodes = {request.root}
    BY DEF WalkInit
  <2> QED BY <1>3, <2>1, <2>2
<1>5. LevelInv
  BY <1>2 DEF WalkInit, LevelInv
<1> QED BY <1>3, <1>4, <1>5 DEF WalkInit, NearInv

\* A room that is not exceeded, and is full when something is left out.
LEMMA RoomIsKept ==
    ASSUME WalkInv, NEW n \in level, NEW new \in SUBSET Found(n), Returned(n, new)
    PROVE  /\ Cardinality(nodes \cup new) <= request.cap
           /\ new # Found(n) => Cardinality(nodes \cup new) = request.cap
<1>1. nodes \subseteq Ids /\ new \subseteq Ids
  BY EndsInIds DEF WalkInv, WalkTypeOK, Found, RelationsOf
<1>2. IsFiniteSet(nodes) /\ IsFiniteSet(new)
  BY <1>1, IdsAssumption, FS_Subset
<1>3. Cardinality(nodes) \in Nat /\ Cardinality(new) \in Nat /\ request.cap \in Nat
  BY <1>2, FS_CardinalityType, RequestType DEF WalkInv, WalkTypeOK
<1>4. Cardinality(nodes \cup new) = Cardinality(nodes) + Cardinality(new)
  <2>1. Cardinality(nodes \cup new) = Cardinality(nodes) + Cardinality(new) - Cardinality(nodes \cap new)
    BY <1>2, FS_Union
  <2>2. Cardinality(nodes \cap new) = 0
    <3>1. nodes \cap new = {}
      BY DEF Found
    <3> QED BY <3>1, FS_EmptySet
  <2> QED BY <1>3, <2>1, <2>2
<1>5. /\ Cardinality(nodes) + Cardinality(new) <= request.cap
      /\ new # Found(n) => Cardinality(nodes) + Cardinality(new) >= request.cap
  BY DEF Returned
<1> QED BY <1>3, <1>4, <1>5

\* A level that is read as a whole has found the next one.
LEMMA LevelIsFound ==
    ASSUME WalkTypeOK, NEW S, Within[depth] \subseteq S, S \subseteq Within[depth + 1],
           \A r \in lasting : From(r) \in Within[depth] => To(r) \in S
    PROVE  S = Within[depth + 1]
<1>1. Within[depth + 1] = Within[depth] \cup Behind(Within[depth])
  BY WithinSteps DEF WalkTypeOK
<1> QED BY <1>1 DEF Behind

LEMMA NearestWhenCut ==
    ASSUME WalkTypeOK, depth < request.depth, NEW S, Within[depth] \subseteq S, S \subseteq Within[depth + 1],
           Cardinality(S) = request.cap
    PROVE  /\ S \subseteq Within[request.depth]
           /\ \A k \in 0..request.depth :
                  Within[k] \subseteq S \/ (Cardinality(S) = request.cap /\ S \subseteq Within[k])
<1>0. depth \in Nat /\ request.depth \in Nat /\ depth + 1 \in Nat /\ depth + 1 <= request.depth
  BY RequestBounds DEF WalkTypeOK
<1>1. S \subseteq Within[request.depth]
  BY <1>0, WithinGrows
<1>2. ASSUME NEW k \in 0..request.depth
      PROVE  Within[k] \subseteq S \/ (Cardinality(S) = request.cap /\ S \subseteq Within[k])
  <2>1. CASE k <= depth
    <3>1. Within[k] \subseteq Within[depth]
      BY <1>0, <2>1, WithinGrows
    <3> QED BY <3>1
  <2>2. CASE ~(k <= depth)
    <3>1. k \in Nat /\ depth + 1 <= k
      BY <1>0, <2>2
    <3>2. Within[depth + 1] \subseteq Within[k]
      BY <1>0, <3>1, WithinGrows
    <3> QED BY <3>2
  <2> QED BY <2>1, <2>2
<1> QED BY <1>1, <1>2

LEMMA NearestWhenWhole ==
    ASSUME WalkTypeOK, NEW S, S = Within[request.depth]
    PROVE  /\ S \subseteq Within[request.depth]
           /\ \A k \in 0..request.depth :
                  Within[k] \subseteq S \/ (Cardinality(S) = request.cap /\ S \subseteq Within[k])
<1>0. request.depth \in Nat
  BY RequestBounds DEF WalkTypeOK
<1>1. ASSUME NEW k \in 0..request.depth PROVE Within[k] \subseteq S
  <2>1. k \in Nat /\ k <= request.depth
    BY <1>0
  <2> QED BY <1>0, <2>1, WithinGrows
<1> QED BY <1>1

LEMMA ExpandNear ==
    ASSUME WalkInv, NearInv, NEW n \in level, NEW new \in SUBSET Found(n), Expand(n, new)
    PROVE  NearInv'
<1>0. /\ Returned(n, new) /\ walkStage = "walking" /\ n \in nodes
      /\ nodes' = nodes \cup new
      /\ truncated' = (truncated \/ new # Found(n))
      /\ Descend(level \ {n}, next \cup new, truncated')
      /\ UNCHANGED <<live, commits, request, lasting, seen>>
  BY DEF Expand, WalkInv, WalkTypeOK
<1>a. WalkTypeOK
  BY DEF WalkInv
<1>b. Within' = Within
  BY <1>0, WithinSame
<1>c. /\ depth \in Nat /\ depth + 1 \in Nat /\ request.depth \in Nat /\ request.cap \in Nat
      /\ truncated \in BOOLEAN
  BY <1>a, RequestBounds DEF WalkTypeOK
<1> SUFFICES ASSUME commits = 0 PROVE NearInv'
  BY <1>0 DEF NearInv
<1>1. live = lasting /\ live' = lasting' /\ depth < request.depth /\ depth + 1 <= request.depth
  BY <1>0, <1>c DEF NearInv
<1>2. Cardinality(nodes') <= request.cap
  BY <1>0, RoomIsKept
<1>3. walkStage' = "walking" => depth' < request.depth
  BY <1>0, <1>1, <1>c DEF Descend
<1>4. ASSUME truncated PROVE Nearest'
  <2>1. new = {}
    BY <1>0, <1>4, FullStays DEF WalkInv, CutStays
  <2>2. nodes' = nodes
    BY <1>0, <2>1
  <2> QED BY <1>0, <1>4, <1>b, <2>2 DEF NearInv, Nearest
<1>5. ASSUME ~truncated
      PROVE  /\ Within[depth] \subseteq nodes' /\ nodes' \subseteq Within[depth + 1]
             /\ level \ {n} \subseteq Within[depth]
             /\ next \cup new = nodes' \ Within[depth]
  <2>1. LevelInv
    BY <1>0, <1>5 DEF NearInv
  <2>2. new \subseteq Behind(Within[depth])
    BY <1>1, <2>1 DEF LevelInv, Found, RelationsOf, Behind
  <2>3. Within[depth + 1] = Within[depth] \cup Behind(Within[depth])
    BY <1>a, <1>c, WithinSteps
  <2>4. new \cap nodes = {}
    BY DEF Found
  <2> QED BY <1>0, <2>1, <2>2, <2>3, <2>4 DEF LevelInv
<1>6. ASSUME ~truncated, new # Found(n) PROVE Nearest'
  <2>1. Cardinality(nodes') = request.cap
    BY <1>0, <1>6, RoomIsKept
  <2> DEFINE S == nodes'
  <2>2. Within[depth] \subseteq S /\ S \subseteq Within[depth + 1] /\ Cardinality(S) = request.cap
    BY <1>5, <1>6, <2>1
  <2>3. SUFFICES /\ S \subseteq Within[request.depth]
                 /\ \A k \in 0..request.depth :
                        Within[k] \subseteq S \/ (Cardinality(S) = request.cap /\ S \subseteq Within[k])
    BY <1>0, <1>b DEF Nearest
  <2> HIDE DEF S
  <2> QED BY <1>1, <1>a, <2>2, NearestWhenCut
<1>7. truncated' => Nearest'
  BY <1>0, <1>4, <1>6, <1>c
<1>8. ASSUME ~truncated'
      PROVE  /\ ~truncated /\ new = Found(n)
             /\ \A r \in lasting : From(r) \in Within[depth] \ (level \ {n}) => To(r) \in nodes'
  <2>1. ~truncated /\ new = Found(n)
    BY <1>0, <1>8, <1>c
  <2>2. LevelInv
    BY <1>0, <2>1 DEF NearInv
  <2>3. ASSUME NEW r \in lasting, From(r) \in Within[depth] \ (level \ {n}) PROVE To(r) \in nodes'
    <3>1. CASE From(r) = n
      BY <1>0, <1>1, <2>1, <3>1 DEF Found, RelationsOf
    <3>2. CASE From(r) # n
      BY <1>0, <2>2, <2>3, <3>2 DEF LevelInv
    <3> QED BY <3>1, <3>2
  <2> QED BY <2>1, <2>3
<1>9. ASSUME ~truncated', level \ {n} # {} PROVE walkStage' = "walking" /\ LevelInv'
  <2>1. level' = level \ {n} /\ next' = next \cup new /\ depth' = depth /\ walkStage' = walkStage
    BY <1>0, <1>9 DEF Descend
  <2>2. \A r \in lasting' : From(r)' = From(r) /\ To(r)' = To(r)
    BY <1>0 DEF From, To
  <2> QED BY <1>0, <1>5, <1>8, <1>9, <1>b, <2>1, <2>2 DEF LevelInv
<1>10. ASSUME ~truncated', level \ {n} = {}
       PROVE  /\ walkStage' = "walking" => LevelInv'
              /\ walkStage' # "walking" => nodes' = Within[request.depth]
  <2>1. level' = next \cup new /\ next' = {} /\ depth' = depth + 1
    BY <1>0, <1>10 DEF Descend
  <2>2. \A r \in lasting : From(r) \in Within[depth] => To(r) \in nodes'
    BY <1>8, <1>10
  <2> DEFINE S == nodes'
  <2>3. S = Within[depth + 1]
    <3>1. Within[depth] \subseteq S /\ S \subseteq Within[depth + 1]
      BY <1>5, <1>8, <1>10
    <3>2. \A r \in lasting : From(r) \in Within[depth] => To(r) \in S
      BY <2>2
    <3> HIDE DEF S
    <3> QED BY <1>a, <3>1, <3>2, LevelIsFound
  <2>4. level' = nodes' \ Within[depth]
    BY <1>5, <1>8, <1>10, <2>1
  <2>5. ASSUME walkStage' = "walking" PROVE LevelInv'
    <3>1. Within[depth + 1] \subseteq Within[depth + 1 + 1]
      BY <1>a, <1>c, WithinGrows
    <3>2. \A r \in lasting : From(r) \in Within[depth + 1] \ level' => To(r) \in nodes'
      BY <2>2, <2>3, <2>4
    <3>3. \A r \in lasting' : From(r)' = From(r) /\ To(r)' = To(r)
      BY <1>0 DEF From, To
    <3> QED BY <1>0, <1>b, <2>1, <2>3, <2>4, <3>1, <3>2, <3>3 DEF LevelInv
  <2>6. ASSUME walkStage' # "walking" PROVE nodes' = Within[request.depth]
    <3>1. CASE depth + 1 = request.depth
      BY <2>3, <3>1
    <3>2. CASE level' = {}
      <4>1. S = Within[depth]
        BY <1>5, <1>8, <1>10, <2>4, <3>2
      <4>2. Closed(Within[depth])
        BY <2>2, <4>1 DEF Closed
      <4> QED BY <1>1, <1>a, <1>c, <4>1, <4>2, WithinStays
    <3>3. depth + 1 = request.depth \/ level' = {}
      BY <1>0, <1>1, <1>10, <1>c, <2>1, <2>6 DEF Descend
    <3> QED BY <3>1, <3>2, <3>3
  <2> QED BY <2>5, <2>6
<1> QED
  <2>1. ~truncated' /\ walkStage' = "walking" => LevelInv'
    BY <1>9, <1>10
  <2>2. ~truncated' /\ walkStage' # "walking" => nodes' = Within[request.depth]
    BY <1>9, <1>10
  <2> QED BY <1>0, <1>1, <1>2, <1>3, <1>7, <1>b, <2>1, <2>2 DEF NearInv

LEMMA LookNear == ASSUME WalkInv, NearInv, NEW n \in level, Look(n) PROVE NearInv'
<1>0. /\ walkStage = "looking" /\ ~truncated
      /\ walkStage' # "walking"
      /\ UNCHANGED <<live, commits, request, depth, next, nodes, edges, lasting, seen>>
  BY DEF Look, WalkInv, Ends
<1>1. WalkTypeOK
  BY DEF WalkInv
<1>2. Within' = Within
  BY <1>0, WithinSame
<1> SUFFICES ASSUME commits = 0 PROVE NearInv'
  BY <1>0 DEF NearInv
<1>3. nodes = Within[request.depth]
  BY <1>0 DEF NearInv
<1>4. Nearest
  BY <1>1, <1>3, NearestWhenWhole DEF Nearest
<1>5. Nearest'
  BY <1>0, <1>2, <1>4 DEF Nearest
<1> QED BY <1>0, <1>2, <1>3, <1>5 DEF NearInv

LEMMA StepNearInv == WalkInv /\ NearInv /\ [WalkNext]_walkVars => NearInv'
<1> SUFFICES ASSUME WalkInv, NearInv, [WalkNext]_walkVars PROVE NearInv'
  OBVIOUS
<1>1. ASSUME NEW n \in level, Look(n) PROVE NearInv'
  BY <1>1, LookNear
<1>2. ASSUME NEW n \in level, NEW new \in SUBSET Found(n), Expand(n, new) PROVE NearInv'
  BY <1>2, ExpandNear
<1>3. ASSUME NEW to \in SUBSET Relations, JobCommits(to) PROVE NearInv'
  BY <1>3 DEF JobCommits, NearInv, WalkInv, WalkTypeOK
<1>4. CASE UNCHANGED walkVars
  <2>1. UNCHANGED <<live, commits, request, walkStage, depth, level, next, nodes, truncated, lasting>>
    BY <1>4 DEF walkVars, walk, answer
  <2>2. Within' = Within
    BY <2>1, WithinSame
  <2>3. Nearest' = Nearest /\ LevelInv' = LevelInv
    BY <2>1, <2>2 DEF Nearest, LevelInv, From, To
  <2> QED BY <2>1, <2>2, <2>3 DEF NearInv
<1> QED BY <1>1, <1>2, <1>3, <1>4 DEF WalkNext, Walk

\* In an index that nobody writes, a walk to its end has all that its depth allows,
\* and lacks for want of room only what is no nearer than what it has (graph.py:140).
THEOREM NearestFirst == WalkSpec => []NearestKept
<1>1. WalkInit => WalkInv /\ NearInv
  BY InitWalkInv, InitNearInv
<1>2. WalkInv /\ NearInv /\ [WalkNext]_walkVars => (WalkInv /\ NearInv)'
  BY StepWalkInv, StepNearInv
<1>3. WalkInv /\ NearInv => NearestKept
  <2> SUFFICES ASSUME WalkInv, NearInv, walkStage = "done", commits = 0 PROVE Nearest
    BY DEF NearestKept, Nearest
  <2>1. CASE truncated
    BY <2>1 DEF NearInv
  <2>2. CASE ~truncated
    <3>1. WalkTypeOK /\ nodes = Within[request.depth]
      BY <2>2 DEF NearInv, WalkInv
    <3> QED BY <3>1, NearestWhenWhole DEF Nearest
  <2> QED BY <2>1, <2>2
<1> QED BY <1>1, <1>2, <1>3, PTL DEF WalkSpec

-----------------------------------------------------------------------------
(* Import cycles *)

\* What the edges lead to from u: what is in every set that has u and is closed.
Leads(E, u, v) ==
    \A S \in SUBSET Modules :
        u \in S /\ (\A a \in S, b \in Modules : <<a, b>> \in E => b \in S) => v \in S

\* From u to v in at least one step.
On(E, u, v) == \E w \in Modules : <<u, w>> \in E /\ Leads(E, w, v)

\* The files of a cycle with f, if there is one.
Ring(f) == {g \in scope : On(fileEdges, f, g) /\ On(fileEdges, g, f)}

\* The files whose component is open and those whose component is closed, and the
\* stack of the search.
Opened == ToSet(component)
Finished == Visited \ Opened
Height == Len(path)
File(i) == path[i].file
Rest(i) == path[i].rest

\* The last file on the stack of the search that was visited no later than u.
Owns(i, u) ==
    /\ index[File(i)] <= index[u]
    /\ \A j \in 1..Height : i < j => index[u] < index[File(j)]

\* The stack holds visited files with the neighbours that are still to be looked at.
Frames == [file : Visited, rest : SUBSET scope]

\* The numbers given to the visited files are theirs alone and below the next one.
SearchTypes ==
    /\ scope \subseteq Modules /\ fileEdges \subseteq scope \X scope
    /\ Visited \subseteq scope
    /\ index \in [Visited -> Nat] /\ lowlink \in [Visited -> Nat]
    /\ \A g \in Visited : index[g] < Cardinality(Visited)
    /\ \A g, h \in Visited : index[g] = index[h] => g = h
    /\ component \in Seq(Visited)
    /\ path \in Seq(Frames)

\* Both stacks are in the order of the visits, and the search is inside what is open.
StackInv ==
    /\ \A i, j \in 1..Len(component) : i < j => index[component[i]] < index[component[j]]
    /\ \A i, j \in 1..Height : i < j => index[File(i)] < index[File(j)]
    /\ \A i \in 1..Height : File(i) \in Opened /\ Rest(i) \subseteq Neighbours(File(i))

\* A neighbour of an open file is visited or still to be looked at; nothing leads
\* from a closed file to one that is not.
EdgesInv ==
    /\ \A u \in Opened : \A v \in Neighbours(u) :
           v \in Visited \/ \E i \in 1..Height : File(i) = u /\ v \in Rest(i)
    /\ \A u \in Finished : Neighbours(u) \subseteq Finished

\* A file on the stack of the search leads to what was opened after it, and what is
\* open leads back to a file of that stack that was opened before it.
ReachInv ==
    /\ \A i \in 1..Height, u \in Opened : index[File(i)] <= index[u] => Leads(fileEdges, File(i), u)
    /\ \A u \in Opened : \E i \in 1..Height : index[File(i)] <= index[u] /\ Leads(fileEdges, u, File(i))

\* A lowlink is the number of an open file that the file leads to, and no edge of what
\* a file of the stack owns leads lower, unless it is still to be looked at.
LowInv ==
    /\ \A u \in Opened : lowlink[u] <= index[u]
    /\ \A u \in Opened : \E v \in Opened : index[v] = lowlink[u] /\ Leads(fileEdges, u, v)
    /\ \A i \in 1..Height, u, v \in Opened :
           Owns(i, u) /\ v \in Neighbours(u) =>
               lowlink[File(i)] <= index[v] \/ (u = File(i) /\ v \in Rest(i))

\* What is reported is the cycles of the closed files.
CyclesInv == cycles = {Ring(f) : f \in Finished} \ {{}}

DoneInv == phase = "done" => path = <<>> /\ scope \subseteq Visited

SearchInv == SearchTypes /\ StackInv /\ EdgesInv /\ ReachInv /\ LowInv /\ CyclesInv /\ DoneInv

LEMMA LeadsNowhere == ASSUME NEW E, NEW u \in Modules PROVE Leads(E, u, u)
  BY DEF Leads

LEMMA LeadsOn ==
    ASSUME NEW E, NEW u \in Modules, NEW v \in Modules, NEW w \in Modules,
           Leads(E, u, v), <<v, w>> \in E
    PROVE  Leads(E, u, w)
<1> SUFFICES ASSUME NEW S \in SUBSET Modules, u \in S, \A a \in S, b \in Modules : <<a, b>> \in E => b \in S
             PROVE  w \in S
  BY DEF Leads
<1>1. v \in S
  BY DEF Leads
<1> QED BY <1>1

LEMMA LeadsThrough ==
    ASSUME NEW E, NEW u, NEW v, NEW w, Leads(E, u, v), Leads(E, v, w)
    PROVE  Leads(E, u, w)
  BY DEF Leads

\* A closed set keeps what its members lead to.
LEMMA LeadsInside ==
    ASSUME NEW E, NEW u, NEW v, Leads(E, u, v), NEW S \in SUBSET Modules, u \in S,
           \A a \in S, b \in Modules : <<a, b>> \in E => b \in S
    PROVE  v \in S
  BY DEF Leads

LEMMA LeadsElsewhere ==
    ASSUME NEW E, NEW u \in Modules, NEW v \in Modules, Leads(E, u, v), u # v
    PROVE  On(E, u, v)
<1> DEFINE S == {u} \cup {w \in Modules : On(E, u, w)}
<1>1. S \in SUBSET Modules /\ u \in S
  OBVIOUS
<1>2. ASSUME NEW a \in S, NEW b \in Modules, <<a, b>> \in E PROVE On(E, u, b)
  <2>1. CASE a = u
    BY <1>2, <2>1, LeadsNowhere DEF On
  <2>2. CASE On(E, u, a)
    <3>1. PICK w \in Modules : <<u, w>> \in E /\ Leads(E, w, a)
      BY <2>2 DEF On
    <3>2. a \in Modules
      OBVIOUS
    <3>3. Leads(E, w, b)
      BY <1>2, <3>1, <3>2, LeadsOn
    <3> QED BY <3>1, <3>3 DEF On
  <2> QED BY <2>1, <2>2
<1>3. \A a \in S, b \in Modules : <<a, b>> \in E => b \in S
  BY <1>2
<1>4. \A w \in S : w = u \/ On(E, u, w)
  OBVIOUS
<1> HIDE DEF S
<1>5. v \in S
  BY <1>1, <1>3, LeadsInside
<1> QED BY <1>4, <1>5

LEMMA OnLeads ==
    ASSUME NEW E, NEW u \in Modules, NEW v \in Modules, On(E, u, v)
    PROVE  Leads(E, u, v)
<1>1. PICK w \in Modules : <<u, w>> \in E /\ Leads(E, w, v)
  BY DEF On
<1>2. Leads(E, u, w)
  BY <1>1, LeadsNowhere, LeadsOn
<1> QED BY <1>1, <1>2, LeadsThrough

LEMMA OnThenLeads ==
    ASSUME NEW E, NEW u, NEW v, NEW w, On(E, u, v), Leads(E, v, w)
    PROVE  On(E, u, w)
  BY LeadsThrough DEF On

LEMMA LeadsThenOn ==
    ASSUME NEW E, NEW u \in Modules, NEW v \in Modules, NEW w \in Modules, Leads(E, u, v), On(E, v, w)
    PROVE  On(E, u, w)
<1>1. CASE u = v
  BY <1>1
<1>2. CASE u # v
  <2>1. On(E, u, v) /\ Leads(E, v, w)
    BY <1>2, LeadsElsewhere, OnLeads
  <2> QED BY <2>1, OnThenLeads
<1> QED BY <1>1, <1>2

\* What the property calls the cycle of a file is its ring.
LEMMA ReachedIsOn ==
    ASSUME scope \subseteq Modules, fileEdges \subseteq scope \X scope, NEW f \in scope
    PROVE  Reached(f) = {g \in scope : On(fileEdges, f, g)}
<1> DEFINE T == {g \in scope : On(fileEdges, f, g)}
<1>1. ASSUME NEW g \in T PROVE g \in Reached(f)
  <2>1. PICK w \in Modules : <<f, w>> \in fileEdges /\ Leads(fileEdges, w, g)
    BY DEF On
  <2>2. w \in Neighbours(f)
    BY <2>1 DEF Neighbours
  <2>3. ASSUME NEW S \in SUBSET scope, Neighbours(f) \subseteq S, \A h \in S : Neighbours(h) \subseteq S
        PROVE  g \in S
    <3>1. S \in SUBSET Modules /\ w \in S
      BY <2>2, <2>3
    <3>2. \A a \in S, b \in Modules : <<a, b>> \in fileEdges => b \in S
      BY <2>3 DEF Neighbours
    <3> QED BY <2>1, <3>1, <3>2, LeadsInside
  <2> QED BY <2>3 DEF Reached
<1>2. Neighbours(f) \subseteq T
  BY LeadsNowhere DEF Neighbours, On
<1>3. ASSUME NEW h \in T, NEW g \in Neighbours(h) PROVE g \in T
  <2>1. g \in scope /\ <<h, g>> \in fileEdges /\ h \in Modules /\ g \in Modules
    BY DEF Neighbours
  <2>2. PICK w \in Modules : <<f, w>> \in fileEdges /\ Leads(fileEdges, w, h)
    BY DEF On
  <2>3. Leads(fileEdges, w, g)
    BY <2>1, <2>2, LeadsOn
  <2> QED BY <2>1, <2>2, <2>3 DEF On
<1>4. T \in SUBSET scope /\ \A h \in T : Neighbours(h) \subseteq T
  BY <1>3
<1> HIDE DEF T
<1>5. Reached(f) \subseteq T
  BY <1>2, <1>4 DEF Reached
<1> QED BY <1>1, <1>5 DEF T

LEMMA CycleIsRing ==
    ASSUME scope \subseteq Modules, fileEdges \subseteq scope \X scope, NEW f \in scope
    PROVE  CycleOf(f) = Ring(f)
<1>1. \A g \in scope : Reached(g) = {h \in scope : On(fileEdges, g, h)}
  BY ReachedIsOn
<1> QED BY <1>1 DEF CycleOf, Ring

LEMMA MoreThanOne ==
    ASSUME NEW T, IsFiniteSet(T)
    PROVE  Cardinality(T) > 1 <=> \E a, b \in T : a # b
<1>1. ASSUME Cardinality(T) > 1 PROVE \E a, b \in T : a # b
  <2>1. PICK a \in T : TRUE
    BY <1>1, FS_EmptySet
  <2>2. T # {a}
    <3>1. Cardinality({a}) = 1
      BY FS_Singleton
    <3> QED BY <1>1, <3>1
  <2> QED BY <2>2
<1>2. ASSUME NEW a \in T, NEW b \in T, a # b PROVE Cardinality(T) > 1
  <2>1. IsFiniteSet(T \ {a}) /\ Cardinality(T \ {a}) = Cardinality(T) - 1
    BY FS_RemoveElement
  <2>2. Cardinality(T \ {a}) # 0
    <3>1. T \ {a} # {}
      BY <1>2
    <3> QED BY <2>1, <3>1, FS_EmptySet
  <2>3. Cardinality(T) \in Nat /\ Cardinality(T \ {a}) \in Nat
    BY <2>1, FS_CardinalityType
  <2> QED BY <2>1, <2>2, <2>3
<1> QED BY <1>1, <1>2

\* The frames of the search below a file that it goes on to: g is looked at.
Lowered(b, g) ==
    /\ b \in Seq(Frames) /\ Len(b) = Height
    /\ \A i \in 1..Height :
           /\ b[i].file = File(i)
           /\ b[i].rest = IF i = Height THEN Rest(i) \ {g} ELSE Rest(i)

LEMMA TopIsLowered ==
    ASSUME SearchTypes, path # <<>>, NEW g
    PROVE  /\ Height \in Nat \ {0} /\ Top = path[Height]
           /\ Lowered(TopWithout(g), g)
<1>1. path \in Seq(Frames)
  BY DEF SearchTypes
<1>2. Height \in Nat \ {0} /\ Top = path[Height] /\ path[Height] \in Frames
  BY <1>1, EmptySeq, LenProperties DEF Height, Top, Last
<1>3. /\ Front(path) \in Seq(Frames) /\ Len(Front(path)) = Height - 1
      /\ \A i \in 1..(Height - 1) : Front(path)[i] = path[i]
  <2>1. \A i \in 1..(Height - 1) : path[i] \in Frames
    BY <1>1, <1>2, ElementOfSeq DEF Height
  <2>2. 1 \in Int /\ Height - 1 \in Int /\ (1 <= Height - 1 \/ Height - 1 = 0)
    BY <1>2
  <2>3. Front(path) = SubSeq(path, 1, Height - 1)
    BY DEF Front, Height
  <2> QED BY <2>1, <2>2, <2>3, SubSeqProperties
<1> DEFINE t == [Top EXCEPT !.rest = @ \ {g}]
<1>4. t \in Frames /\ t.file = File(Height) /\ t.rest = Rest(Height) \ {g}
  BY <1>2 DEF File, Rest, Frames
<1> DEFINE b == Append(Front(path), t)
<1>5. b = TopWithout(g)
  BY DEF TopWithout
<1> HIDE DEF t
<1>6. /\ b \in Seq(Frames) /\ Len(b) = Height
      /\ b[Height] = t /\ \A i \in 1..(Height - 1) : b[i] = path[i]
  BY <1>2, <1>3, <1>4
<1> HIDE DEF b
<1>7. Lowered(b, g)
  <2>1. ASSUME NEW i \in 1..Height
        PROVE  b[i].file = File(i) /\ b[i].rest = IF i = Height THEN Rest(i) \ {g} ELSE Rest(i)
    <3>1. CASE i = Height
      BY <1>4, <1>6, <3>1
    <3>2. CASE i # Height
      BY <1>2, <1>6, <3>2 DEF File, Rest
    <3> QED BY <3>1, <3>2
  <2> QED BY <1>6, <2>1 DEF Lowered
<1> QED BY <1>2, <1>5, <1>7

LEMMA OpenedIsVisited == ASSUME SearchTypes PROVE Opened \subseteq Visited
  BY DEF SearchTypes, Opened, ToSet

LEMMA VisitedIsFinite ==
    ASSUME SearchTypes PROVE IsFiniteSet(Visited) /\ Cardinality(Visited) \in Nat
<1>1. Visited \subseteq Modules
  BY DEF SearchTypes
<1> QED BY <1>1, ModulesAssumption, FS_Subset, FS_CardinalityType

\* What a newly visited file changes.
LEMMA OpenSteps ==
    ASSUME SearchTypes, NEW f \in scope \ Visited, NEW b, Lowered(b, f), Open(f, b)
    PROVE  /\ Visited' = Visited \cup {f}
           /\ \A g \in Visited : index'[g] = index[g] /\ lowlink'[g] = lowlink[g] /\ index'[g] < index'[f]
           /\ index'[f] = Cardinality(Visited) /\ lowlink'[f] = Cardinality(Visited)
           /\ Height \in Nat /\ Height' = Height + 1
           /\ \A i \in 1..Height : /\ File(i)' = File(i)
                                   /\ Rest(i)' = IF i = Height THEN Rest(i) \ {f} ELSE Rest(i)
           /\ path'[Height + 1].file = f /\ path'[Height + 1].rest = Neighbours(f)
           /\ Opened' = Opened \cup {f}
           /\ f \notin Opened /\ Finished' = Finished
           /\ SearchTypes'
<1>0. /\ path \in Seq(Frames) /\ component \in Seq(Visited)
      /\ index \in [Visited -> Nat] /\ lowlink \in [Visited -> Nat]
      /\ \A g \in Visited : index[g] < Cardinality(Visited)
      /\ Cardinality(Visited) \in Nat /\ IsFiniteSet(Visited)
  BY VisitedIsFinite DEF SearchTypes
<1>1. /\ index' = [g \in Visited \cup {f} |-> IF g = f THEN Cardinality(Visited) ELSE index[g]]
      /\ lowlink' = [g \in Visited \cup {f} |-> IF g = f THEN Cardinality(Visited) ELSE lowlink[g]]
      /\ component' = Append(component, f)
      /\ path' = Append(b, [file |-> f, rest |-> Neighbours(f)])
      /\ UNCHANGED <<scope, fileEdges, phase, cycles>>
  BY DEF Open
<1>2. Visited' = Visited \cup {f}
  BY <1>1 DEF Visited
<1>3. \A g \in Visited : index'[g] = index[g] /\ lowlink'[g] = lowlink[g] /\ index'[g] < index'[f]
  BY <1>0, <1>1
<1>4. index'[f] = Cardinality(Visited) /\ lowlink'[f] = Cardinality(Visited)
  BY <1>1
<1>5. /\ Height \in Nat /\ Height' = Height + 1
      /\ \A i \in 1..Height : path'[i] = b[i]
      /\ path'[Height + 1] = [file |-> f, rest |-> Neighbours(f)]
      /\ path' \in Seq(Frames')
  <2>1. Height \in Nat
    BY <1>0 DEF Height
  <2> DEFINE F2 == Frames'
  <2>2. Len(b) = Height /\ b \in Seq(F2)
    <3>1. Frames \subseteq F2
      BY <1>1, <1>2 DEF Frames
    <3> HIDE DEF F2
    <3> QED BY <3>1, SeqMonotonic DEF Lowered
  <2>3. [file |-> f, rest |-> Neighbours(f)] \in F2
    BY <1>1, <1>2 DEF Neighbours, Frames
  <2> DEFINE t == [file |-> f, rest |-> Neighbours(f)]
  <2>4. path' = Append(b, t) /\ t \in F2
    BY <1>1, <2>3
  <2> HIDE DEF t, F2
  <2>5. Len(path') = Height + 1 /\ path'[Height + 1] = t /\ path' \in Seq(F2) /\ \A i \in 1..Height : path'[i] = b[i]
    BY <2>1, <2>2, <2>4, AppendProperties
  <2> QED BY <2>1, <2>5 DEF Height, F2, t
<1>6. \A i \in 1..Height : File(i)' = File(i) /\ Rest(i)' = IF i = Height THEN Rest(i) \ {f} ELSE Rest(i)
  BY <1>5 DEF Lowered, File, Rest
<1>7. path'[Height + 1].file = f /\ path'[Height + 1].rest = Neighbours(f)
  BY <1>5
<1>8. Opened' = Opened \cup {f}
  <2> DEFINE d == component'
  <2>1. d = Append(component, f) /\ component \in Seq(Modules) /\ f \in Modules
    <3>1. Visited \subseteq Modules /\ scope \subseteq Modules
      BY DEF SearchTypes
    <3> QED BY <1>0, <1>1, <3>1, SeqMonotonic
  <2> HIDE DEF d
  <2>2. ToSet(d) = ToSet(component) \cup {f}
    BY <2>1, AppendProperties DEF ToSet
  <2> QED BY <2>2 DEF Opened, d
<1>9. f \notin Opened
  BY OpenedIsVisited
<1>10. Finished' = Finished
  BY <1>2, <1>8, <1>9 DEF Finished
<1>11. SearchTypes'
  <2>1. Cardinality(Visited') = Cardinality(Visited) + 1
    BY <1>0, <1>2, FS_AddElement
  <2>2. \A g \in Visited' : index'[g] < Cardinality(Visited')
    BY <1>0, <1>2, <1>3, <1>4, <2>1
  <2>3. index' \in [Visited' -> Nat] /\ lowlink' \in [Visited' -> Nat]
    BY <1>0, <1>1, <1>2
  <2>4. \A g, h \in Visited' : index'[g] = index'[h] => g = h
    BY <1>0, <1>2, <1>3, <1>4 DEF SearchTypes
  <2>5. component' \in Seq(Visited')
    BY <1>0, <1>1, <1>2
  <2>6. scope' = scope /\ fileEdges' = fileEdges /\ Visited' \subseteq scope
    BY <1>1, <1>2 DEF SearchTypes
  <2> QED BY <1>5, <2>2, <2>3, <2>4, <2>5, <2>6 DEF SearchTypes
<1> QED BY <1>2, <1>3, <1>4, <1>5, <1>6, <1>7, <1>8, <1>9, <1>10, <1>11

LEMMA OpenInv ==
    ASSUME SearchInv, NEW f \in scope \ Visited, NEW b, Lowered(b, f), Open(f, b),
           Height # 0 => f \in Rest(Height)
    PROVE  SearchInv'
<1>t. SearchTypes /\ StackInv /\ EdgesInv /\ ReachInv /\ LowInv /\ CyclesInv /\ DoneInv
  BY DEF SearchInv
<1> DEFINE H == Height
<1> DEFINE n == Height + 1
<1>1. /\ Visited' = Visited \cup {f}
      /\ \A g \in Visited : index'[g] = index[g] /\ lowlink'[g] = lowlink[g] /\ index'[g] < index'[f]
      /\ index'[f] = Cardinality(Visited) /\ lowlink'[f] = Cardinality(Visited)
      /\ H \in Nat /\ Height' = n
      /\ \A i \in 1..H : File(i)' = File(i) /\ Rest(i)' = IF i = H THEN Rest(i) \ {f} ELSE Rest(i)
      /\ path'[n].file = f /\ path'[n].rest = Neighbours(f)
      /\ Opened' = Opened \cup {f}
      /\ f \notin Opened /\ Finished' = Finished
      /\ SearchTypes'
  BY <1>t, OpenSteps
<1>2. UNCHANGED <<scope, fileEdges, phase, cycles>>
  BY DEF Open
<1>3. /\ H \in Nat /\ n \in Nat /\ n \in 1..n /\ n = H + 1
      /\ \A i \in 1..n : i # n => i \in 1..H
      /\ \A i \in 1..H : i \in 1..n /\ i # n /\ ~(n < i)
  BY <1>1
<1>4. \A i \in 1..n : /\ i # n => File(i)' = File(i)
                      /\ i = n => File(i)' = f
  BY <1>1, <1>3 DEF File
<1>5. \A i \in 1..n : /\ i # n => Rest(i)' = IF i = H THEN Rest(i) \ {f} ELSE Rest(i)
                      /\ i = n => Rest(i)' = Neighbours(f)
  BY <1>1, <1>3 DEF Rest
<1>6. /\ Opened \subseteq Visited /\ Visited \subseteq scope /\ scope \subseteq Modules
      /\ index \in [Visited -> Nat] /\ lowlink \in [Visited -> Nat]
      /\ Cardinality(Visited) \in Nat /\ \A g \in Visited : index[g] < Cardinality(Visited)
      /\ fileEdges \subseteq scope \X scope
  BY <1>t, OpenedIsVisited, VisitedIsFinite DEF SearchTypes
<1>7. \A i \in 1..H : File(i) \in Opened
  BY <1>t DEF StackInv
<1>8. \A u : Neighbours(u)' = Neighbours(u)
  BY <1>2 DEF Neighbours
<1>9. \A u \in Visited : index'[u] = index[u] /\ lowlink'[u] = lowlink[u] /\ index[u] \in Nat /\ lowlink[u] \in Nat
  BY <1>1, <1>6
<1>10. index'[f] \in Nat /\ lowlink'[f] = index'[f] /\ \A g \in Visited : index[g] < index'[f]
  BY <1>1, <1>6
<1> HIDE DEF H, n
<1>20. StackInv'
  <2>1. \A i, j \in 1..Len(component)' : i < j => index'[component'[i]] < index'[component'[j]]
    <3>1. component \in Seq(Visited) /\ component' = Append(component, f)
      BY <1>t DEF SearchTypes, Open
    <3> DEFINE d == component'
    <3> DEFINE m == Len(component)
    <3>2. m \in Nat /\ Len(d) = m + 1 /\ d[m + 1] = f /\ \A i \in 1..m : d[i] = component[i]
      <4>1. component \in Seq(Modules) /\ f \in Modules
        BY <1>6, <3>1, SeqMonotonic
      <4> QED BY <3>1, <4>1, AppendProperties
    <3>3. \A i \in 1..m : component[i] \in Visited
      BY <3>1, ElementOfSeq
    <3>4. \A i, j \in 1..m : i < j => index[component[i]] < index[component[j]]
      BY <1>t DEF StackInv
    <3> HIDE DEF d, m
    <3>5. ASSUME NEW i \in 1..(m + 1), NEW j \in 1..(m + 1), i < j PROVE index'[d[i]] < index'[d[j]]
      <4>1. i \in 1..m
        BY <3>2, <3>5
      <4>2. CASE j = m + 1
        BY <1>9, <1>10, <3>2, <3>3, <4>1, <4>2
      <4>3. CASE j # m + 1
        <5>1. j \in 1..m
          BY <3>2, <4>3
        <5> QED BY <1>9, <3>2, <3>3, <3>4, <3>5, <4>1, <5>1
      <4> QED BY <4>2, <4>3
    <3> QED BY <3>2, <3>5 DEF d
  <2>2. ASSUME NEW i \in 1..n, NEW j \in 1..n, i < j PROVE index'[File(i)'] < index'[File(j)']
    <3>1. i # n /\ i \in 1..H
      BY <1>3, <2>2
    <3>2. CASE j = n
      BY <1>4, <1>6, <1>7, <1>9, <1>10, <3>1, <3>2
    <3>3. CASE j # n
      <4>1. j \in 1..H
        BY <1>3, <3>3
      <4>2. index[File(i)] < index[File(j)]
        BY <1>t, <2>2, <3>1, <4>1 DEF StackInv, H
      <4> QED BY <1>4, <1>6, <1>7, <1>9, <3>1, <3>3, <4>1, <4>2
    <3> QED BY <3>2, <3>3
  <2>3. ASSUME NEW i \in 1..n PROVE File(i)' \in Opened' /\ Rest(i)' \subseteq Neighbours(File(i))'
    <3>1. CASE i = n
      BY <1>1, <1>4, <1>5, <1>8, <3>1
    <3>2. CASE i # n
      <4>1. File(i) \in Opened /\ Rest(i) \subseteq Neighbours(File(i))
        BY <1>3, <1>t, <3>2 DEF StackInv, H
      <4> QED BY <1>1, <1>4, <1>5, <1>8, <3>2, <4>1
    <3> QED BY <3>1, <3>2
  <2>4. Height' = n
    BY <1>1
  <2> QED BY <2>1, <2>2, <2>3, <2>4 DEF StackInv
<1>21. EdgesInv'
  <2>1. ASSUME NEW u \in Opened', NEW v \in Neighbours(u)
        PROVE  v \in Visited' \/ \E i \in 1..n : File(i)' = u /\ v \in Rest(i)'
    <3>1. CASE u = f
      BY <1>3, <1>4, <1>5, <3>1
    <3>2. CASE u \in Opened /\ v # f
      <4>1. v \in Visited \/ \E i \in 1..H : File(i) = u /\ v \in Rest(i)
        BY <1>t, <3>2 DEF EdgesInv, H
      <4>2. ASSUME NEW i \in 1..H, File(i) = u, v \in Rest(i) PROVE File(i)' = u /\ v \in Rest(i)' /\ i \in 1..n
        BY <1>3, <1>4, <1>5, <3>2, <4>2
      <4> QED BY <1>1, <4>1, <4>2
    <3>3. CASE v = f
      BY <1>1, <3>3
    <3> QED BY <1>1, <3>1, <3>2, <3>3
  <2>2. \A u \in Finished : Neighbours(u) \subseteq Finished
    BY <1>t DEF EdgesInv
  <2> QED BY <1>1, <1>8, <2>1, <2>2 DEF EdgesInv
<1>22. ReachInv'
  <2>1. ASSUME NEW i \in 1..H PROVE Leads(fileEdges, File(i), f)
    <3>1. H # 0 /\ H \in 1..H /\ i <= H
      BY <1>3
    <3>2. f \in Neighbours(File(H))
      BY <1>t, <3>1 DEF StackInv, H
    <3>3. index[File(i)] <= index[File(H)]
      <4>1. CASE i = H
        BY <1>6, <1>7, <4>1
      <4>2. CASE i # H
        <5>1. i < H
          BY <1>3, <3>1, <4>2
        <5>2. index[File(i)] < index[File(H)]
          BY <1>t, <3>1, <5>1 DEF StackInv, H
        <5> QED BY <1>6, <1>7, <3>1, <5>2
      <4> QED BY <4>1, <4>2
    <3>4. Leads(fileEdges, File(i), File(H))
      BY <1>7, <1>t, <3>1, <3>3 DEF ReachInv, H
    <3>5. <<File(H), f>> \in fileEdges /\ File(i) \in Modules /\ File(H) \in Modules /\ f \in Modules
      BY <1>6, <1>7, <3>1, <3>2 DEF Neighbours
    <3> QED BY <3>4, <3>5, LeadsOn
  <2>2. Leads(fileEdges, f, f)
    BY <1>6, LeadsNowhere
  <2>3. ASSUME NEW i \in 1..n, NEW u \in Opened', index'[File(i)'] <= index'[u]
        PROVE  Leads(fileEdges, File(i)', u)
    <3>1. CASE i = n
      <4>1. u = f
        BY <1>1, <1>4, <1>6, <1>9, <1>10, <2>3, <3>1
      <4> QED BY <1>4, <2>2, <3>1, <4>1
    <3>2. CASE i # n
      <4>1. i \in 1..H /\ File(i)' = File(i) /\ File(i) \in Visited
        BY <1>3, <1>4, <1>6, <1>7, <3>2
      <4>2. CASE u = f
        BY <2>1, <4>1, <4>2
      <4>3. CASE u # f
        <5>1. u \in Opened /\ index[File(i)] <= index[u]
          BY <1>1, <1>6, <1>9, <2>3, <4>1, <4>3
        <5> QED BY <1>t, <4>1, <5>1 DEF ReachInv, H
      <4> QED BY <4>2, <4>3
    <3> QED BY <3>1, <3>2
  <2>4. ASSUME NEW u \in Opened'
        PROVE  \E i \in 1..n : index'[File(i)'] <= index'[u] /\ Leads(fileEdges, u, File(i)')
    <3>1. CASE u = f
      BY <1>3, <1>4, <1>10, <2>2, <3>1
    <3>2. CASE u # f
      <4>1. u \in Opened
        BY <1>1, <3>2
      <4>2. PICK i \in 1..H : index[File(i)] <= index[u] /\ Leads(fileEdges, u, File(i))
        BY <1>t, <4>1 DEF ReachInv, H
      <4>3. i \in 1..n /\ File(i)' = File(i) /\ File(i) \in Visited
        BY <1>3, <1>4, <1>6, <1>7
      <4> QED BY <1>6, <1>9, <4>1, <4>2, <4>3
    <3> QED BY <3>1, <3>2
  <2> QED BY <1>1, <1>2, <2>3, <2>4 DEF ReachInv
<1>23. LowInv'
  <2>1. \A u \in Opened' : lowlink'[u] <= index'[u]
    <3>1. \A u \in Opened : lowlink[u] <= index[u]
      BY <1>t DEF LowInv
    <3> QED BY <1>1, <1>6, <1>9, <1>10, <3>1
  <2>2. ASSUME NEW u \in Opened' PROVE \E v \in Opened' : index'[v] = lowlink'[u] /\ Leads(fileEdges, u, v)
    <3>1. CASE u = f
      BY <1>1, <1>6, <1>10, <3>1, LeadsNowhere
    <3>2. CASE u # f
      <4>1. u \in Opened
        BY <1>1, <3>2
      <4>2. PICK v \in Opened : index[v] = lowlink[u] /\ Leads(fileEdges, u, v)
        BY <1>t, <4>1 DEF LowInv
      <4> QED BY <1>1, <1>6, <1>9, <4>1, <4>2
    <3> QED BY <3>1, <3>2
  <2>3. ASSUME NEW i \in 1..n, NEW u \in Opened', NEW v \in Opened', v \in Neighbours(u),
               index'[File(i)'] <= index'[u], \A j \in 1..n : i < j => index'[u] < index'[File(j)']
        PROVE  lowlink'[File(i)'] <= index'[v] \/ (u = File(i)' /\ v \in Rest(i)')
    <3>1. CASE i = n
      <4>1. u = f
        BY <1>1, <1>4, <1>6, <1>9, <1>10, <2>3, <3>1
      <4> QED BY <1>4, <1>5, <2>3, <3>1, <4>1
    <3>2. CASE i # n
      <4>0. i \in 1..H /\ File(i)' = File(i) /\ File(i) \in Opened /\ File(i) \in Visited
        BY <1>3, <1>4, <1>6, <1>7, <3>2
      <4>1. u # f
        <5>1. i < n
          BY <1>3, <3>2
        <5>2. index'[u] < index'[path'[n].file]
          BY <1>3, <2>3, <5>1 DEF File
        <5>3. index'[u] < index'[f]
          BY <1>1, <5>2 DEF H, n
        <5> QED BY <1>10, <5>3
      <4>2. u \in Opened /\ u \in Visited
        BY <1>1, <1>6, <4>1
      <4>3. CASE v = f
        <5>1. lowlink[File(i)] <= index[File(i)] /\ index[File(i)] < index'[f]
          BY <1>10, <1>t, <4>0 DEF LowInv
        <5> QED BY <1>9, <1>10, <4>0, <4>3, <5>1
      <4>4. CASE v # f
        <5>1. v \in Opened /\ v \in Visited
          BY <1>1, <1>6, <4>4
        <5>2. index[File(i)] <= index[u]
          BY <1>9, <2>3, <4>0, <4>2
        <5>3. ASSUME NEW j \in 1..H, i < j PROVE index[u] < index[File(j)]
          <6>1. j \in 1..n /\ File(j)' = File(j) /\ File(j) \in Visited
            BY <1>3, <1>4, <1>6, <1>7
          <6> QED BY <1>9, <2>3, <4>2, <5>3, <6>1
        <5>4. Owns(i, u)
          BY <5>2, <5>3 DEF Owns, H
        <5>5. lowlink[File(i)] <= index[v] \/ (u = File(i) /\ v \in Rest(i))
          BY <1>t, <2>3, <4>0, <4>2, <5>1, <5>4 DEF LowInv, H
        <5> QED BY <1>5, <1>9, <3>2, <4>0, <4>4, <5>1, <5>5
      <4> QED BY <4>3, <4>4
    <3> QED BY <3>1, <3>2
  <2> QED BY <1>1, <1>2, <1>8, <2>1, <2>2, <2>3 DEF LowInv, Owns
<1>24. CyclesInv'
  <2>1. \A g : Ring(g)' = Ring(g)
    BY <1>2 DEF Ring
  <2> QED BY <1>1, <1>2, <1>t, <2>1 DEF CyclesInv
<1>25. DoneInv'
  BY <1>2, <1>t DEF DoneInv
<1> QED BY <1>1, <1>20, <1>21, <1>22, <1>23, <1>24, <1>25 DEF SearchInv

LEMMA LookAtInv ==
    ASSUME SearchInv, NEW g \in Visited, path # <<>>, g \in Top.rest, LookAt(g)
    PROVE  SearchInv'
<1>t. SearchTypes /\ StackInv /\ EdgesInv /\ ReachInv /\ LowInv /\ CyclesInv /\ DoneInv
  BY DEF SearchInv
<1> DEFINE H == Height
<1> DEFINE t == File(H)
<1>1. Height \in Nat \ {0} /\ Top = path[Height] /\ Lowered(TopWithout(g), g)
  BY <1>t, TopIsLowered
<1>2. /\ path' = TopWithout(g)
      /\ lowlink' = IF g \in Opened THEN [lowlink EXCEPT ![t] = Lesser(@, index[g])] ELSE lowlink
      /\ UNCHANGED <<scope, fileEdges, phase, index, component, cycles>>
  BY <1>1 DEF LookAt, IsOpen, Opened, File
<1>3. /\ H \in Nat \ {0} /\ H \in 1..H /\ Height' = H
      /\ path' \in Seq(Frames)
      /\ \A i \in 1..H : File(i)' = File(i) /\ Rest(i)' = IF i = H THEN Rest(i) \ {g} ELSE Rest(i)
  <2> DEFINE b == path'
  <2>1. Lowered(b, g)
    BY <1>1, <1>2
  <2> HIDE DEF b
  <2>2. H \in 1..H
    BY <1>1
  <2> QED BY <1>1, <2>1, <2>2 DEF Lowered, File, Rest, Height, b
<1>4. UNCHANGED <<Visited, Opened, Finished>> /\ Frames' = Frames
  BY <1>2 DEF Visited, Opened, Finished, Frames
<1>5. /\ Opened \subseteq Visited /\ Visited \subseteq scope /\ scope \subseteq Modules
      /\ index \in [Visited -> Nat] /\ lowlink \in [Visited -> Nat]
      /\ fileEdges \subseteq scope \X scope
  BY <1>t, OpenedIsVisited DEF SearchTypes
<1>6. g \in Rest(H) /\ t \in Opened /\ t \in Visited /\ g \in Neighbours(t)
  <2>1. g \in Rest(H)
    BY <1>1 DEF Rest
  <2>2. t \in Opened /\ Rest(H) \subseteq Neighbours(t)
    BY <1>3, <1>t DEF StackInv
  <2> QED BY <1>5, <2>1, <2>2
<1>7. \A u : Neighbours(u)' = Neighbours(u)
  BY <1>2 DEF Neighbours
<1> HIDE DEF t
<1>8. /\ lowlink' \in [Visited -> Nat]
      /\ \A u \in Visited : lowlink'[u] <= lowlink[u] /\ (u # t \/ g \notin Opened => lowlink'[u] = lowlink[u])
      /\ g \in Opened => /\ lowlink'[t] = lowlink[t] \/ lowlink'[t] = index[g]
                         /\ lowlink'[t] <= index[g]
  <2>1. CASE g \in Opened
    <3>1. lowlink' = [lowlink EXCEPT ![t] = Lesser(@, index[g])] /\ index[g] \in Nat /\ lowlink[t] \in Nat
      BY <1>2, <1>5, <1>6, <2>1
    <3>2. Lesser(lowlink[t], index[g]) \in Nat
      BY <3>1 DEF Lesser
    <3>3. lowlink' \in [Visited -> Nat] /\ lowlink'[t] = Lesser(lowlink[t], index[g])
          /\ \A u \in Visited : u # t => lowlink'[u] = lowlink[u]
      BY <1>5, <1>6, <3>1, <3>2
    <3>4. /\ lowlink'[t] = lowlink[t] \/ lowlink'[t] = index[g]
          /\ lowlink'[t] <= index[g] /\ lowlink'[t] <= lowlink[t]
      BY <3>1, <3>3 DEF Lesser
    <3> QED BY <1>5, <2>1, <3>3, <3>4
  <2>2. CASE g \notin Opened
    BY <1>2, <1>5, <2>2
  <2> QED BY <2>1, <2>2
<1> HIDE DEF H
<1>10. SearchTypes'
  BY <1>2, <1>3, <1>4, <1>8, <1>t DEF SearchTypes
<1>11. StackInv'
  <2>1. ASSUME NEW i \in 1..H PROVE File(i)' \in Opened /\ Rest(i)' \subseteq Neighbours(File(i))'
    <3>1. File(i) \in Opened /\ Rest(i) \subseteq Neighbours(File(i))
      BY <1>t DEF StackInv, H
    <3> QED BY <1>3, <1>7, <3>1
  <2>2. ASSUME NEW i \in 1..H, NEW j \in 1..H, i < j PROVE index'[File(i)'] < index'[File(j)']
    <3>1. index[File(i)] < index[File(j)]
      BY <1>t, <2>2 DEF StackInv, H
    <3> QED BY <1>2, <1>3, <3>1
  <2>3. \A i, j \in 1..Len(component)' : i < j => index'[component'[i]] < index'[component'[j]]
    BY <1>2, <1>t DEF StackInv
  <2> QED BY <1>3, <1>4, <2>1, <2>2, <2>3 DEF StackInv
<1>12. EdgesInv'
  <2>1. ASSUME NEW u \in Opened, NEW v \in Neighbours(u)
        PROVE  v \in Visited \/ \E i \in 1..H : File(i)' = u /\ v \in Rest(i)'
    <3>1. v \in Visited \/ \E i \in 1..H : File(i) = u /\ v \in Rest(i)
      BY <1>t DEF EdgesInv, H
    <3>2. ASSUME NEW i \in 1..H, File(i) = u, v \in Rest(i), v # g PROVE File(i)' = u /\ v \in Rest(i)'
      BY <1>3, <3>2
    <3> QED BY <3>1, <3>2
  <2>2. \A u \in Finished : Neighbours(u) \subseteq Finished
    BY <1>t DEF EdgesInv
  <2> QED BY <1>3, <1>4, <1>7, <2>1, <2>2 DEF EdgesInv
<1>13. ReachInv'
  <2>1. /\ \A i \in 1..H, u \in Opened : index[File(i)] <= index[u] => Leads(fileEdges, File(i), u)
        /\ \A u \in Opened : \E i \in 1..H : index[File(i)] <= index[u] /\ Leads(fileEdges, u, File(i))
    BY <1>t DEF ReachInv, H
  <2>2. /\ \A i \in 1..H, u \in Opened : index'[File(i)'] <= index'[u] => Leads(fileEdges', File(i)', u)
        /\ \A u \in Opened : \E i \in 1..H : index'[File(i)'] <= index'[u] /\ Leads(fileEdges', u, File(i)')
    BY <1>2, <1>3, <2>1
  <2> QED BY <1>3, <1>4, <2>2 DEF ReachInv
<1>14. LowInv'
  <2>1. ASSUME NEW u \in Opened
        PROVE  lowlink'[u] <= index[u] /\ \E v \in Opened : index[v] = lowlink'[u] /\ Leads(fileEdges, u, v)
    <3>1. lowlink[u] <= index[u] /\ \E v \in Opened : index[v] = lowlink[u] /\ Leads(fileEdges, u, v)
      BY <1>t DEF LowInv
    <3>2. lowlink'[u] <= index[u]
      <4>1. lowlink'[u] <= lowlink[u] /\ lowlink'[u] \in Nat /\ lowlink[u] \in Nat /\ index[u] \in Nat
        BY <1>5, <1>8
      <4> QED BY <3>1, <4>1
    <3>3. CASE lowlink'[u] = lowlink[u]
      BY <3>1, <3>2, <3>3
    <3>4. CASE lowlink'[u] # lowlink[u]
      <4>1. u = t /\ g \in Opened /\ lowlink'[u] = index[g]
        BY <1>5, <1>8, <3>4
      <4>2. Leads(fileEdges, t, g)
        <5>1. t \in Modules /\ g \in Modules /\ <<t, g>> \in fileEdges
          BY <1>5, <1>6 DEF Neighbours
        <5> QED BY <5>1, LeadsNowhere, LeadsOn
      <4> QED BY <3>2, <4>1, <4>2
    <3> QED BY <3>3, <3>4
  <2>2. ASSUME NEW i \in 1..H, NEW u \in Opened, NEW v \in Opened, v \in Neighbours(u), Owns(i, u)
        PROVE  lowlink'[File(i)] <= index[v] \/ (u = File(i) /\ v \in Rest(i)')
    <3>1. lowlink[File(i)] <= index[v] \/ (u = File(i) /\ v \in Rest(i))
      BY <1>t, <2>2 DEF LowInv, H
    <3>2. File(i) \in Visited
      BY <1>5, <1>t DEF StackInv, H
    <3>3. CASE lowlink[File(i)] <= index[v]
      <4>1. /\ lowlink'[File(i)] <= lowlink[File(i)] /\ index[v] \in Nat
            /\ lowlink'[File(i)] \in Nat /\ lowlink[File(i)] \in Nat
        BY <1>5, <1>8, <3>2
      <4> QED BY <3>3, <4>1
    <3>4. CASE u = File(i) /\ v \in Rest(i) /\ i = H /\ v = g
      BY <1>8, <3>4 DEF t
    <3>5. CASE u = File(i) /\ v \in Rest(i) /\ ~(i = H /\ v = g)
      BY <1>3, <3>5
    <3> QED BY <3>1, <3>3, <3>4, <3>5
  <2>3. ASSUME NEW i \in 1..H, NEW u PROVE Owns(i, u)' <=> Owns(i, u)
    BY <1>2, <1>3 DEF Owns, H
  <2>4. \A i \in 1..H : File(i)' = File(i)
    BY <1>3
  <2>5. ASSUME NEW i \in 1..H, NEW u \in Opened, NEW v \in Opened, v \in Neighbours(u)', Owns(i, u)'
        PROVE  lowlink'[File(i)'] <= index'[v] \/ (u = File(i)' /\ v \in Rest(i)')
    BY <1>2, <1>7, <2>2, <2>3, <2>4, <2>5
  <2>6. \A u \in Opened : lowlink'[u] <= index'[u]
    BY <1>2, <2>1
  <2>7. \A u \in Opened : \E v \in Opened : index'[v] = lowlink'[u] /\ Leads(fileEdges', u, v)
    BY <1>2, <2>1
  <2> QED BY <1>3, <1>4, <2>5, <2>6, <2>7 DEF LowInv
<1>15. CyclesInv'
  <2>1. \A h : Ring(h)' = Ring(h)
    BY <1>2 DEF Ring
  <2> QED BY <1>2, <1>4, <1>t, <2>1 DEF CyclesInv
<1>16. DoneInv'
  BY <1>2, <1>t DEF DoneInv
<1> QED BY <1>10, <1>11, <1>12, <1>13, <1>14, <1>15, <1>16 DEF SearchInv

\* A file is left: the frames below it stay as they are.
LEMMA PopFrames ==
    ASSUME SearchTypes, path # <<>>, path' = Front(path)
    PROVE  /\ Height \in Nat \ {0} /\ Height' = Height - 1 /\ Top = path[Height]
           /\ Front(path) \in Seq(Frames) /\ Len(Front(path)) = Height - 1
           /\ \A i \in 1..(Height - 1) : path'[i] = path[i] /\ File(i)' = File(i) /\ Rest(i)' = Rest(i)
<1>1. path \in Seq(Frames)
  BY DEF SearchTypes
<1>2. Height \in Nat \ {0} /\ Top = path[Height]
  BY <1>1, EmptySeq, LenProperties DEF Height, Top, Last
<1>3. /\ Front(path) \in Seq(Frames) /\ Len(Front(path)) = Height - 1
      /\ \A i \in 1..(Height - 1) : Front(path)[i] = path[i]
  <2>1. \A i \in 1..(Height - 1) : path[i] \in Frames
    BY <1>1, <1>2, ElementOfSeq DEF Height
  <2>2. 1 \in Int /\ Height - 1 \in Int /\ (1 <= Height - 1 \/ Height - 1 = 0)
    BY <1>2
  <2>3. Front(path) = SubSeq(path, 1, Height - 1)
    BY DEF Front, Height
  <2> QED BY <2>1, <2>2, <2>3, SubSeqProperties
<1> QED BY <1>2, <1>3 DEF Height, File, Rest

LEMMA PopInnerInv ==
    ASSUME SearchInv, Pop, ~IsRoot(Top.file)
    PROVE  SearchInv'
<1>t. SearchTypes /\ StackInv /\ EdgesInv /\ ReachInv /\ LowInv /\ CyclesInv /\ DoneInv
  BY DEF SearchInv
<1> DEFINE H == Height
<1> DEFINE f == File(H)
<1> DEFINE p == File(H - 1)
<1>0. path # <<>> /\ path' = Front(path)
  BY DEF Pop
<1>1. /\ H \in Nat \ {0} /\ H \in 1..H /\ Height' = H - 1 /\ Top = path[H]
      /\ path' \in Seq(Frames) /\ Len(Front(path)) = H - 1
      /\ \A i \in 1..(H - 1) : File(i)' = File(i) /\ Rest(i)' = Rest(i)
  BY <1>0, <1>t, PopFrames
<1>2. Top.file = f /\ Rest(H) = {}
  BY <1>1 DEF Pop, File, Rest
<1>3. /\ Opened \subseteq Visited /\ Visited \subseteq scope /\ scope \subseteq Modules
      /\ index \in [Visited -> Nat] /\ lowlink \in [Visited -> Nat]
  BY <1>t, OpenedIsVisited DEF SearchTypes
<1>4. \A i \in 1..H : File(i) \in Opened /\ File(i) \in Visited
  BY <1>3, <1>t DEF StackInv
<1>5. \A i, j \in 1..H : i < j => index[File(i)] < index[File(j)]
  BY <1>t DEF StackInv
<1>6. lowlink[f] < index[f]
  <2>1. lowlink[f] <= index[f]
    BY <1>1, <1>4, <1>t DEF LowInv
  <2>2. lowlink[f] # index[f]
    BY <1>2 DEF IsRoot
  <2>3. lowlink[f] \in Nat /\ index[f] \in Nat
    BY <1>1, <1>3, <1>4
  <2> QED BY <2>1, <2>2, <2>3
<1>7. PICK w \in Opened : index[w] = lowlink[f] /\ Leads(fileEdges, f, w)
  BY <1>1, <1>4, <1>t DEF LowInv
<1>8. PICK k \in 1..H : index[File(k)] <= index[w] /\ Leads(fileEdges, w, File(k))
  BY <1>7, <1>t DEF ReachInv
<1>9. k # H /\ index[File(k)] < index[f] /\ k \in 1..(H - 1) /\ H - 1 \in 1..(H - 1) /\ H - 1 \in 1..H
  <2>1. index[File(k)] \in Nat /\ index[w] \in Nat /\ index[f] \in Nat
    BY <1>1, <1>3, <1>4, <1>7
  <2>2. index[File(k)] < index[f]
    BY <1>6, <1>7, <1>8, <2>1
  <2>3. k # H
    BY <2>1, <2>2
  <2> QED BY <1>1, <2>2, <2>3
<1>10. p \in Opened /\ p \in Visited /\ Last(Front(path)).file = p
  BY <1>1, <1>4, <1>9, PopFrames, <1>0, <1>t DEF Last, File
<1>11. /\ lowlink' = [lowlink EXCEPT ![p] = Lesser(@, lowlink[f])]
       /\ UNCHANGED <<scope, fileEdges, phase, index, component, cycles>>
  <2>1. Front(path) # <<>>
    BY <1>1, <1>9
  <2> QED BY <1>2, <1>10, <2>1 DEF Pop
<1>12. UNCHANGED <<Visited, Opened, Finished>> /\ Frames' = Frames
  BY <1>11 DEF Visited, Opened, Finished, Frames
<1>13. \A u : Neighbours(u)' = Neighbours(u)
  BY <1>11 DEF Neighbours
<1>14. /\ \A i \in 1..(H - 1) : i \in 1..H /\ i # H /\ i < H
       /\ \A i \in 1..H : i # H => i \in 1..(H - 1)
  BY <1>1
<1> HIDE DEF p, f
<1>15. /\ lowlink' \in [Visited -> Nat]
       /\ \A u \in Visited : lowlink'[u] <= lowlink[u] /\ (u # p => lowlink'[u] = lowlink[u])
       /\ lowlink'[p] = lowlink[p] \/ lowlink'[p] = lowlink[f]
       /\ lowlink'[p] <= lowlink[f]
  <2>1. lowlink[p] \in Nat /\ lowlink[f] \in Nat
    BY <1>1, <1>3, <1>4, <1>10 DEF f
  <2>2. Lesser(lowlink[p], lowlink[f]) \in Nat
    BY <2>1 DEF Lesser
  <2>3. lowlink' \in [Visited -> Nat] /\ lowlink'[p] = Lesser(lowlink[p], lowlink[f])
        /\ \A u \in Visited : u # p => lowlink'[u] = lowlink[u]
    BY <1>3, <1>10, <1>11, <2>1, <2>2
  <2>4. /\ lowlink'[p] = lowlink[p] \/ lowlink'[p] = lowlink[f]
        /\ lowlink'[p] <= lowlink[f] /\ lowlink'[p] <= lowlink[p]
    BY <2>1, <2>3 DEF Lesser
  <2> QED BY <1>3, <2>3, <2>4
<1> HIDE DEF H
<1>20. SearchTypes'
  BY <1>1, <1>11, <1>12, <1>15, <1>t DEF SearchTypes
<1>21. StackInv'
  <2>1. ASSUME NEW i \in 1..(H - 1) PROVE File(i)' \in Opened /\ Rest(i)' \subseteq Neighbours(File(i))'
    <3>1. File(i) \in Opened /\ Rest(i) \subseteq Neighbours(File(i))
      BY <1>14, <1>t DEF StackInv, H
    <3> QED BY <1>1, <1>13, <3>1
  <2>2. ASSUME NEW i \in 1..(H - 1), NEW j \in 1..(H - 1), i < j PROVE index'[File(i)'] < index'[File(j)']
    BY <1>1, <1>5, <1>11, <1>14, <2>2
  <2>3. \A i, j \in 1..Len(component)' : i < j => index'[component'[i]] < index'[component'[j]]
    BY <1>11, <1>t DEF StackInv
  <2> QED BY <1>1, <1>12, <2>1, <2>2, <2>3 DEF StackInv
<1>22. EdgesInv'
  <2>1. ASSUME NEW u \in Opened, NEW v \in Neighbours(u)
        PROVE  v \in Visited \/ \E i \in 1..(H - 1) : File(i)' = u /\ v \in Rest(i)'
    <3>1. v \in Visited \/ \E i \in 1..H : File(i) = u /\ v \in Rest(i)
      BY <1>t DEF EdgesInv, H
    <3> QED BY <1>1, <1>2, <1>14, <3>1
  <2>2. \A u \in Finished : Neighbours(u) \subseteq Finished
    BY <1>t DEF EdgesInv
  <2> QED BY <1>1, <1>12, <1>13, <2>1, <2>2 DEF EdgesInv
<1>23. ReachInv'
  <2>1. \A i \in 1..H, u \in Opened : index[File(i)] <= index[u] => Leads(fileEdges, File(i), u)
    BY <1>t DEF ReachInv, H
  <2>2. ASSUME NEW u \in Opened
        PROVE  \E i \in 1..(H - 1) : index[File(i)] <= index[u] /\ Leads(fileEdges, u, File(i))
    <3>1. PICK i \in 1..H : index[File(i)] <= index[u] /\ Leads(fileEdges, u, File(i))
      BY <1>t DEF ReachInv, H
    <3>2. CASE i # H
      BY <1>14, <3>1, <3>2
    <3>3. CASE i = H
      <4>1. index[f] <= index[u] /\ Leads(fileEdges, u, f)
        BY <3>1, <3>3 DEF f
      <4>2. Leads(fileEdges, u, File(k))
        BY <1>7, <1>8, <4>1, LeadsThrough
      <4>3. index[File(k)] <= index[u]
        <5>1. index[File(k)] \in Nat /\ index[u] \in Nat /\ index[f] \in Nat
          BY <1>1, <1>3, <1>4 DEF f
        <5> QED BY <1>9, <4>1, <5>1
      <4> QED BY <1>9, <4>2, <4>3
    <3> QED BY <3>2, <3>3
  <2>3. \A i \in 1..(H - 1), u \in Opened : index'[File(i)'] <= index'[u] => Leads(fileEdges', File(i)', u)
    BY <1>1, <1>11, <1>14, <2>1
  <2>4. \A u \in Opened : \E i \in 1..(H - 1) : index'[File(i)'] <= index'[u] /\ Leads(fileEdges', u, File(i)')
    BY <1>1, <1>11, <2>2
  <2> QED BY <1>1, <1>12, <2>3, <2>4 DEF ReachInv
<1>24. LowInv'
  <2>0. Leads(fileEdges, p, f)
    <3>1. index[p] <= index[f]
      <4>1. index[p] < index[f]
        BY <1>1, <1>5, <1>9, <1>14 DEF p, f
      <4> QED BY <1>1, <1>3, <1>4, <1>10, <4>1 DEF f
    <3>2. f \in Opened
      BY <1>1, <1>4 DEF f
    <3> QED BY <1>9, <1>t, <3>1, <3>2 DEF ReachInv, H, p
  <2>1. ASSUME NEW u \in Opened
        PROVE  lowlink'[u] <= index[u] /\ \E v \in Opened : index[v] = lowlink'[u] /\ Leads(fileEdges, u, v)
    <3>1. lowlink[u] <= index[u] /\ \E v \in Opened : index[v] = lowlink[u] /\ Leads(fileEdges, u, v)
      BY <1>t DEF LowInv
    <3>2. lowlink'[u] <= index[u]
      <4>1. lowlink'[u] <= lowlink[u] /\ lowlink'[u] \in Nat /\ lowlink[u] \in Nat /\ index[u] \in Nat
        BY <1>3, <1>15
      <4> QED BY <3>1, <4>1
    <3>3. CASE lowlink'[u] = lowlink[u]
      BY <3>1, <3>2, <3>3
    <3>4. CASE lowlink'[u] # lowlink[u]
      <4>1. u = p /\ lowlink'[u] = lowlink[f]
        BY <1>3, <1>15, <3>4
      <4>2. Leads(fileEdges, p, w)
        BY <1>7, <2>0, LeadsThrough DEF f
      <4> QED BY <1>7, <3>2, <4>1, <4>2 DEF f
    <3> QED BY <3>3, <3>4
  <2>2. ASSUME NEW i \in 1..(H - 1), NEW u \in Opened, NEW v \in Opened, v \in Neighbours(u),
               index[File(i)] <= index[u], \A j \in 1..(H - 1) : i < j => index[u] < index[File(j)]
        PROVE  lowlink'[File(i)] <= index[v] \/ (u = File(i) /\ v \in Rest(i))
    <3>0. File(i) \in Visited /\ i \in 1..H /\ f \in Visited /\ H \in 1..H
      BY <1>1, <1>4, <1>14 DEF f
    <3>1. CASE index[u] < index[f]
      <4>1. \A j \in 1..H : i < j => index[u] < index[File(j)]
        BY <1>14, <2>2, <3>1 DEF f
      <4>2. lowlink[File(i)] <= index[v] \/ (u = File(i) /\ v \in Rest(i))
        BY <1>t, <2>2, <3>0, <4>1 DEF LowInv, Owns, H
      <4>3. /\ lowlink'[File(i)] <= lowlink[File(i)] /\ index[v] \in Nat
            /\ lowlink'[File(i)] \in Nat /\ lowlink[File(i)] \in Nat
        BY <1>3, <1>15, <3>0
      <4> QED BY <4>2, <4>3
    <3>2. CASE ~(index[u] < index[f])
      <4>1. index[f] <= index[u]
        BY <1>3, <3>0, <3>2
      <4>2. Owns(H, u)
        <5>1. \A j \in 1..H : ~(H < j)
          BY <1>1
        <5> QED BY <4>1, <5>1 DEF Owns, f, H
      <4>3. lowlink[f] <= index[v]
        <5>1. lowlink[File(H)] <= index[v] \/ v \in Rest(H)
          BY <1>t, <2>2, <3>0, <4>2 DEF LowInv, H
        <5> QED BY <1>2, <5>1 DEF f
      <4>4. i = H - 1
        <5>1. SUFFICES ASSUME i # H - 1 PROVE FALSE
          OBVIOUS
        <5>2. i < H - 1
          BY <1>1, <5>1
        <5>3. index[u] < index[p]
          BY <1>9, <2>2, <5>2 DEF p
        <5>4. index[p] < index[f]
          BY <1>1, <1>5, <1>9, <1>14 DEF p, f
        <5> QED BY <1>3, <1>10, <3>0, <4>1, <5>3, <5>4
      <4>5. lowlink'[p] <= lowlink[f] /\ lowlink'[p] \in Nat /\ lowlink[f] \in Nat /\ index[v] \in Nat
        BY <1>3, <1>10, <1>15, <3>0
      <4> QED BY <4>3, <4>4, <4>5 DEF p
    <3> QED BY <3>1, <3>2
  <2>3. ASSUME NEW i \in 1..(H - 1), NEW u \in Opened, NEW v \in Opened, v \in Neighbours(u)',
               index'[File(i)'] <= index'[u], \A j \in 1..(H - 1) : i < j => index'[u] < index'[File(j)']
        PROVE  lowlink'[File(i)'] <= index'[v] \/ (u = File(i)' /\ v \in Rest(i)')
    <3>1. index[File(i)] <= index[u] /\ \A j \in 1..(H - 1) : i < j => index[u] < index[File(j)]
      BY <1>1, <1>11, <2>3
    <3>2. v \in Neighbours(u)
      BY <1>13, <2>3
    <3>3. lowlink'[File(i)] <= index[v] \/ (u = File(i) /\ v \in Rest(i))
      BY <2>2, <3>1, <3>2
    <3> QED BY <1>1, <1>11, <3>3
  <2>4. \A u \in Opened : lowlink'[u] <= index'[u]
    BY <1>11, <2>1
  <2>5. \A u \in Opened : \E v \in Opened : index'[v] = lowlink'[u] /\ Leads(fileEdges', u, v)
    BY <1>11, <2>1
  <2> QED BY <1>1, <1>12, <2>3, <2>4, <2>5 DEF LowInv, Owns
<1>25. CyclesInv'
  <2>1. \A h : Ring(h)' = Ring(h)
    BY <1>11 DEF Ring
  <2> QED BY <1>11, <1>12, <1>t, <2>1 DEF CyclesInv
<1>26. DoneInv'
  BY <1>0, <1>11, <1>t DEF DoneInv
<1> QED BY <1>20, <1>21, <1>22, <1>23, <1>24, <1>25, <1>26 DEF SearchInv

\* What is above f on the stack is what was visited no earlier, and what stays is the rest.
LEMMA StackIsCut ==
    ASSUME SearchTypes, StackInv, NEW f \in Opened
    PROVE  LET members == ToSet(Above(f))
               kept == SubSeq(component, 1, Len(component) - Cardinality(members))
           IN  /\ members = {u \in Opened : index[f] <= index[u]}
               /\ IsFiniteSet(members)
               /\ kept \in Seq(Visited)
               /\ ToSet(kept) = {u \in Opened : index[u] < index[f]}
               /\ \A i, j \in 1..Len(kept) : i < j => index[kept[i]] < index[kept[j]]
<1> DEFINE m == Len(component)
<1>1. /\ component \in Seq(Visited) /\ m \in Nat /\ DOMAIN component = 1..m
      /\ \A i \in 1..m : component[i] \in Visited
      /\ index \in [Visited -> Nat] /\ f \in Visited
  <2>1. component \in Seq(Visited)
    BY DEF SearchTypes
  <2>2. m \in Nat /\ DOMAIN component = 1..m
    BY <2>1, LenProperties
  <2> QED BY <2>1, <2>2, ElementOfSeq, OpenedIsVisited DEF SearchTypes
<1>2. \A i, j \in 1..m : i < j => index[component[i]] < index[component[j]]
  BY DEF StackInv
<1> DEFINE k == CHOOSE i \in DOMAIN component : component[i] = f
<1>3. k \in 1..m /\ component[k] = f
  <2>1. \E i \in DOMAIN component : component[i] = f
    BY DEF Opened, ToSet
  <2> QED BY <1>1, <2>1
<1>4. Above(f) = SubSeq(component, k, m)
  BY DEF Above
<1> HIDE DEF k, m
<1>5. \A i \in 1..m : index[component[i]] \in Nat
  BY <1>1
<1>6. \A i \in 1..m : index[f] <= index[component[i]] <=> k <= i
  <2>1. ASSUME NEW i \in 1..m PROVE index[f] <= index[component[i]] <=> k <= i
    <3>1. CASE i < k
      <4>1. index[component[i]] < index[f]
        BY <1>2, <1>3, <3>1
      <4> QED BY <1>1, <1>3, <1>5, <3>1, <4>1
    <3>2. CASE i = k
      BY <1>1, <1>3, <1>5, <3>2
    <3>3. CASE k < i
      <4>1. index[f] < index[component[i]]
        BY <1>2, <1>3, <3>3
      <4> QED BY <1>1, <1>3, <1>5, <3>3, <4>1
    <3> QED BY <1>1, <1>3, <3>1, <3>2, <3>3
  <2> QED BY <2>1
<1> DEFINE members == {u \in Opened : index[f] <= index[u]}
<1> DEFINE size == m - k + 1
<1>7. Opened = {component[i] : i \in 1..m}
  BY <1>1 DEF Opened, ToSet
<1>8. /\ SubSeq(component, k, m) \in Seq(Visited) /\ Len(SubSeq(component, k, m)) = size
      /\ \A i \in 1..size : SubSeq(component, k, m)[i] = component[k + i - 1]
      /\ size \in Nat
  <2>1. k \in Int /\ m \in Int /\ k <= m /\ \A i \in k..m : component[i] \in Visited
    BY <1>1, <1>3
  <2> QED BY <2>1, SubSeqProperties
<1> DEFINE a == SubSeq(component, k, m)
<1> HIDE DEF a
<1>9. a \in Seq(Visited) /\ Len(a) = size /\ size \in Nat /\ \A i \in 1..size : a[i] = component[k + i - 1]
  BY <1>8 DEF a
<1> HIDE DEF size
<1>10. size = m - k + 1 /\ DOMAIN a = 1..size
  BY <1>9, LenProperties DEF size
<1>11. ToSet(a) = members
  <2>1. ASSUME NEW i \in 1..size PROVE a[i] \in members
    <3>1. k + i - 1 \in 1..m /\ k <= k + i - 1
      BY <1>1, <1>3, <1>10
    <3> QED BY <1>6, <1>7, <1>9, <3>1
  <2>2. ASSUME NEW u \in members PROVE \E i \in 1..size : a[i] = u
    <3>1. PICK i \in 1..m : component[i] = u
      BY <1>7
    <3>2. k <= i
      BY <1>6, <3>1
    <3>3. i - k + 1 \in 1..size /\ k + (i - k + 1) - 1 = i
      BY <1>1, <1>3, <1>10, <3>2
    <3> QED BY <1>9, <3>1, <3>3
  <2> HIDE DEF members
  <2> QED BY <1>10, <2>1, <2>2 DEF ToSet
<1>12. IsFiniteSet(members) /\ Cardinality(members) = size
  <2>1. ASSUME NEW i \in 1..size, NEW j \in 1..size, a[i] = a[j] PROVE i = j
    <3>1. k + i - 1 \in 1..m /\ k + j - 1 \in 1..m
      BY <1>1, <1>3, <1>10
    <3>2. component[k + i - 1] = component[k + j - 1]
      BY <1>9, <2>1
    <3>3. ~(k + i - 1 < k + j - 1) /\ ~(k + j - 1 < k + i - 1)
      BY <1>2, <1>5, <3>1, <3>2
    <3> QED BY <1>1, <1>3, <1>9, <3>3
  <2>2. a \in [1..size -> members]
    <3> HIDE DEF members
    <3>1. a \in [1..size -> Visited]
      BY <1>9, LenProperties
    <3>2. \A i \in 1..size : a[i] \in members
      BY <1>10, <1>11 DEF ToSet
    <3> QED BY <3>1, <3>2
  <2>3. \A u \in members : \E i \in 1..size : a[i] = u
    <3> HIDE DEF members
    <3> QED BY <1>10, <1>11 DEF ToSet
  <2> HIDE DEF members
  <2>4. ExistsBijection(1..size, members)
    <3>1. a \in Bijection(1..size, members)
      BY <2>1, <2>2, <2>3 DEF Bijection, Injection, Surjection, IsInjective
    <3> QED BY <3>1 DEF ExistsBijection
  <2>5. IsFiniteSet(1..size) /\ Cardinality(1..size) = size
    <3>1. 1 \in Int /\ size \in Int /\ (1 > size => size = 0) /\ size - 1 + 1 = size
      BY <1>9
    <3> QED BY <3>1, FS_Interval
  <2> QED BY <2>4, <2>5, FS_Bijection
<1> DEFINE kept == SubSeq(component, 1, k - 1)
<1>13. kept \in Seq(Visited) /\ Len(kept) = k - 1 /\ \A i \in 1..(k - 1) : kept[i] = component[i]
  <2>1. 1 \in Int /\ k - 1 \in Int /\ (1 <= k - 1 \/ k - 1 = 0) /\ \A i \in 1..(k - 1) : component[i] \in Visited
    BY <1>1, <1>3
  <2> QED BY <2>1, SubSeqProperties
<1> HIDE DEF kept, members
<1>14. ToSet(kept) = {u \in Opened : index[u] < index[f]}
  <2>1. DOMAIN kept = 1..(k - 1)
    BY <1>13, LenProperties
  <2>2. ASSUME NEW i \in 1..m PROVE index[component[i]] < index[f] <=> i \in 1..(k - 1)
    <3>1. index[component[i]] \in Nat /\ index[f] \in Nat
      BY <1>1
    <3> QED BY <1>1, <1>3, <1>6, <3>1
  <2>3. ASSUME NEW i \in 1..(k - 1) PROVE i \in 1..m
    BY <1>1, <1>3
  <2>4. ASSUME NEW u \in ToSet(kept) PROVE u \in Opened /\ index[u] < index[f]
    <3>1. PICK i \in 1..(k - 1) : kept[i] = u
      BY <2>1 DEF ToSet
    <3> QED BY <1>7, <1>13, <2>2, <2>3, <3>1
  <2>5. ASSUME NEW u \in Opened, index[u] < index[f] PROVE u \in ToSet(kept)
    <3>1. PICK i \in 1..m : component[i] = u
      BY <1>7
    <3>2. i \in 1..(k - 1)
      BY <2>2, <2>5, <3>1
    <3> QED BY <1>13, <2>1, <3>1, <3>2 DEF ToSet
  <2> QED BY <2>4, <2>5
<1>15. \A i, j \in 1..Len(kept) : i < j => index[kept[i]] < index[kept[j]]
  <2>1. \A i \in 1..(k - 1) : i \in 1..m
    BY <1>1, <1>3
  <2> QED BY <1>2, <1>13, <2>1
<1>16. ToSet(Above(f)) = members
  BY <1>4, <1>11 DEF a
<1>17. SubSeq(component, 1, Len(component) - Cardinality(ToSet(Above(f)))) = kept
  <2>1. Len(component) - Cardinality(members) = k - 1
    BY <1>1, <1>3, <1>10, <1>12 DEF m
  <2> QED BY <1>16, <2>1 DEF kept
<1> QED BY <1>12, <1>13, <1>14, <1>15, <1>16, <1>17 DEF members

\* A component that is closed: from each of its files to each, and never back from
\* a file behind it.
Whole(M, done) ==
    /\ M \subseteq scope /\ done \subseteq scope /\ M \cap done = {} /\ IsFiniteSet(M)
    /\ \A g, h \in M : Leads(fileEdges, g, h)
    /\ \A u \in M, v \in Modules : <<u, v>> \in fileEdges => v \in M \cup done
    /\ \A u \in done, v \in Modules : <<u, v>> \in fileEdges => v \in done

\* Its files are one cycle, or it is a file with no cycle.
LEMMA WholeIsRing ==
    ASSUME scope \subseteq Modules, NEW M, NEW done, Whole(M, done), NEW g \in M
    PROVE  Ring(g) = IF IsCycle(M) THEN M ELSE {}
<1>1. /\ M \subseteq Modules /\ done \subseteq Modules /\ g \in Modules
      /\ \A a, b \in M : Leads(fileEdges, a, b)
      /\ M \subseteq scope /\ M \cap done = {}
  BY DEF Whole
<1>2. IsCycle(M) <=> (\E a, b \in M : a # b) \/ \E e \in M : <<e, e>> \in fileEdges
  BY MoreThanOne DEF IsCycle, Whole
<1>3. ASSUME IsCycle(M), NEW a \in M, NEW b \in M PROVE On(fileEdges, a, b)
  <2>1. \E e \in M : On(fileEdges, e, e)
    <3>1. CASE \E e \in M : <<e, e>> \in fileEdges
      <4>1. PICK e \in M : <<e, e>> \in fileEdges
        BY <3>1
      <4>2. e \in Modules
        BY <1>1
      <4> QED BY <4>1, <4>2, LeadsNowhere DEF On
    <3>2. CASE \E c, d \in M : c # d
      <4>1. PICK c \in M, d \in M : c # d
        BY <3>2
      <4>2. c \in Modules /\ d \in Modules /\ Leads(fileEdges, c, d) /\ Leads(fileEdges, d, c)
        BY <1>1
      <4>3. On(fileEdges, c, d)
        BY <4>1, <4>2, LeadsElsewhere
      <4> QED BY <4>2, <4>3, OnThenLeads
    <3> QED BY <1>2, <1>3, <3>1, <3>2
  <2>2. PICK e \in M : On(fileEdges, e, e)
    BY <2>1
  <2>3. /\ a \in Modules /\ b \in Modules /\ e \in Modules
        /\ Leads(fileEdges, a, e) /\ Leads(fileEdges, e, b)
    BY <1>1
  <2>4. On(fileEdges, e, b)
    BY <2>2, <2>3, OnThenLeads
  <2> QED BY <2>3, <2>4, LeadsThenOn
<1>4. ASSUME NEW h \in scope, On(fileEdges, g, h), On(fileEdges, h, g) PROVE h \in M
  <2>1. Leads(fileEdges, g, h) /\ Leads(fileEdges, h, g) /\ h \in Modules
    BY <1>1, <1>4, OnLeads
  <2>2. h \in M \cup done
    <3> DEFINE S == M \cup done
    <3>1. S \in SUBSET Modules /\ g \in S
      BY <1>1
    <3>2. \A a \in S, b \in Modules : <<a, b>> \in fileEdges => b \in S
      BY DEF Whole
    <3> HIDE DEF S
    <3>3. h \in S
      BY <2>1, <3>1, <3>2, LeadsInside
    <3> QED BY <3>3 DEF S
  <2>3. ASSUME h \in done PROVE FALSE
    <3>1. done \in SUBSET Modules /\ \A a \in done, b \in Modules : <<a, b>> \in fileEdges => b \in done
      BY <1>1 DEF Whole
    <3>2. g \in done
      BY <2>1, <2>3, <3>1, LeadsInside
    <3> QED BY <1>1, <3>2
  <2> QED BY <2>2, <2>3
<1>5. ASSUME NEW h \in scope, On(fileEdges, g, h), On(fileEdges, h, g) PROVE IsCycle(M)
  <2>0. h \in M
    BY <1>4, <1>5
  <2>1. CASE h # g
    BY <1>2, <2>0, <2>1
  <2>2. CASE h = g
    <3>1. PICK w \in Modules : <<g, w>> \in fileEdges /\ Leads(fileEdges, w, g)
      BY <1>5, <2>2 DEF On
    <3>2. CASE w = g
      BY <1>2, <3>1, <3>2
    <3>3. CASE w # g
      <4>1. w \in M \cup done
        BY <3>1 DEF Whole
      <4>2. ASSUME w \in done PROVE FALSE
        <5>1. done \in SUBSET Modules /\ \A a \in done, b \in Modules : <<a, b>> \in fileEdges => b \in done
          BY <1>1 DEF Whole
        <5>2. g \in done
          BY <3>1, <4>2, <5>1, LeadsInside
        <5> QED BY <1>1, <5>2
      <4> QED BY <1>2, <3>3, <4>1, <4>2
    <3> QED BY <3>2, <3>3
  <2> QED BY <2>1, <2>2
<1>6. CASE IsCycle(M)
  <2>1. \A h \in M : h \in scope /\ On(fileEdges, g, h) /\ On(fileEdges, h, g)
    BY <1>1, <1>3, <1>6
  <2> QED BY <1>4, <1>6, <2>1 DEF Ring
<1>7. CASE ~IsCycle(M)
  BY <1>5, <1>7 DEF Ring
<1> QED BY <1>6, <1>7

LEMMA PopRootInv ==
    ASSUME SearchInv, Pop, IsRoot(Top.file)
    PROVE  SearchInv'
<1>t. SearchTypes /\ StackInv /\ EdgesInv /\ ReachInv /\ LowInv /\ CyclesInv /\ DoneInv
  BY DEF SearchInv
<1> DEFINE H == Height
<1> DEFINE f == File(H)
<1> DEFINE M == {u \in Opened : index[f] <= index[u]}
<1>0. path # <<>> /\ path' = Front(path)
  BY DEF Pop
<1>1. /\ H \in Nat \ {0} /\ H \in 1..H /\ Height' = H - 1 /\ Top = path[H]
      /\ path' \in Seq(Frames)
      /\ \A i \in 1..(H - 1) : File(i)' = File(i) /\ Rest(i)' = Rest(i)
  BY <1>0, <1>t, PopFrames
<1>2. Top.file = f /\ Rest(H) = {} /\ lowlink[f] = index[f]
  BY <1>1 DEF Pop, File, Rest, IsRoot
<1>3. /\ Opened \subseteq Visited /\ Visited \subseteq scope /\ scope \subseteq Modules
      /\ index \in [Visited -> Nat] /\ lowlink \in [Visited -> Nat]
      /\ fileEdges \subseteq scope \X scope
  BY <1>t, OpenedIsVisited DEF SearchTypes
<1>4. /\ \A i \in 1..H : File(i) \in Opened /\ File(i) \in Visited
      /\ f \in Opened /\ f \in Visited
  BY <1>1, <1>3, <1>t DEF StackInv
<1>5. \A i, j \in 1..H : i < j => index[File(i)] < index[File(j)]
  BY <1>t DEF StackInv
<1>6. /\ \A i \in 1..(H - 1) : i \in 1..H /\ i # H /\ i < H
      /\ \A i \in 1..H : (i # H => i \in 1..(H - 1)) /\ ~(H < i)
  BY <1>1
<1>7. /\ ToSet(Above(f)) = M /\ IsFiniteSet(M)
      /\ component' \in Seq(Visited)
      /\ Opened' = {u \in Opened : index[u] < index[f]}
      /\ \A i, j \in 1..Len(component') : i < j => index[component'[i]] < index[component'[j]]
  <2>1. component' = SubSeq(component, 1, Len(component) - Cardinality(ToSet(Above(f))))
    BY <1>2 DEF Pop, IsRoot
  <2> HIDE DEF f
  <2> QED BY <1>4, <1>t, <2>1, StackIsCut DEF Opened
<1>8. /\ cycles' = IF IsCycle(M) THEN cycles \cup {M} ELSE cycles
      /\ UNCHANGED <<scope, fileEdges, phase, index, lowlink>>
  BY <1>2, <1>7 DEF Pop, IsRoot
<1> HIDE DEF f
<1>9. M \in SUBSET Opened /\ \A u \in Opened : u \in M <=> index[f] <= index[u]
  OBVIOUS
<1>10. \A u \in Visited : index[u] \in Nat /\ lowlink[u] \in Nat
  BY <1>3
<1>11. Opened' = Opened \ M /\ \A u \in Opened' : index[u] < index[f] /\ u \in Opened /\ u \in Visited
  BY <1>3, <1>4, <1>7, <1>10
<1> HIDE DEF M
<1>12. Visited' = Visited /\ Finished' = Finished \cup M /\ Frames' = Frames
  BY <1>3, <1>8, <1>9, <1>11 DEF Visited, Finished, Frames
<1>13. \A u : Neighbours(u)' = Neighbours(u)
  BY <1>8 DEF Neighbours
<1>14. \A u \in M : \A v \in Neighbours(u) : v \in M \cup Finished
  <2>1. SUFFICES ASSUME NEW u \in M, NEW v \in Neighbours(u) PROVE v \in M \cup Finished
    OBVIOUS
  <2>2. u \in Opened /\ u \in Visited /\ index[f] <= index[u]
    BY <1>3, <1>9
  <2>3. ASSUME NEW i \in 1..H, File(i) = u PROVE i = H
    <3>1. SUFFICES ASSUME i # H PROVE FALSE
      OBVIOUS
    <3>2. index[File(i)] < index[f]
      BY <1>1, <1>5, <1>6, <3>1 DEF f
    <3> QED BY <1>4, <1>10, <2>2, <2>3, <3>2
  <2>4. v \in Visited
    <3>1. v \in Visited \/ \E i \in 1..H : File(i) = u /\ v \in Rest(i)
      BY <1>t, <2>2 DEF EdgesInv
    <3> QED BY <1>2, <2>3, <3>1
  <2>5. ASSUME v \in Opened PROVE v \in M
    <3>1. Owns(H, u)
      BY <1>6, <2>2 DEF Owns, f
    <3>2. lowlink[File(H)] <= index[v] \/ v \in Rest(H)
      BY <1>1, <1>t, <2>2, <2>5, <3>1 DEF LowInv
    <3>3. index[f] <= index[v]
      BY <1>2, <3>2 DEF f
    <3> QED BY <1>9, <2>5, <3>3
  <2> QED BY <2>4, <2>5 DEF Finished
<1>15. \A g, h \in M : Leads(fileEdges, g, h)
  <2>1. ASSUME NEW g \in M PROVE Leads(fileEdges, g, f)
    <3>1. PICK i \in 1..H : index[File(i)] <= index[g] /\ Leads(fileEdges, g, File(i))
      BY <1>9, <1>t DEF ReachInv
    <3>2. index[File(i)] <= index[f]
      <4>1. CASE i = H
        BY <1>4, <1>10, <4>1 DEF f
      <4>2. CASE i # H
        <5>1. index[File(i)] < index[f]
          BY <1>1, <1>5, <1>6, <4>2 DEF f
        <5> QED BY <1>4, <1>10, <5>1
      <4> QED BY <4>1, <4>2
    <3>3. Leads(fileEdges, File(i), f)
      BY <1>4, <1>t, <3>2 DEF ReachInv
    <3> QED BY <3>1, <3>3, LeadsThrough
  <2>2. ASSUME NEW h \in M PROVE Leads(fileEdges, f, h)
    BY <1>1, <1>9, <1>t DEF ReachInv, f
  <2> QED BY <2>1, <2>2, LeadsThrough
<1>16. Whole(M, Finished)
  <2>1. M \subseteq scope /\ Finished \subseteq scope /\ M \cap Finished = {} /\ IsFiniteSet(M)
    BY <1>3, <1>7, <1>9 DEF Finished
  <2>2. \A u, v : <<u, v>> \in fileEdges => v \in Neighbours(u)
    BY <1>3 DEF Neighbours
  <2>3. \A u \in Finished : Neighbours(u) \subseteq Finished
    BY <1>t DEF EdgesInv
  <2> QED BY <1>14, <1>15, <2>1, <2>2, <2>3 DEF Whole
<1> HIDE DEF H
<1>20. SearchTypes'
  BY <1>1, <1>7, <1>8, <1>12, <1>t DEF SearchTypes
<1>21. StackInv'
  <2>1. ASSUME NEW i \in 1..(H - 1) PROVE File(i)' \in Opened' /\ Rest(i)' \subseteq Neighbours(File(i))'
    <3>1. File(i) \in Opened /\ Rest(i) \subseteq Neighbours(File(i))
      BY <1>6, <1>t DEF StackInv, H
    <3>2. index[File(i)] < index[f]
      BY <1>1, <1>5, <1>6 DEF f
    <3> QED BY <1>1, <1>7, <1>13, <3>1, <3>2
  <2>2. ASSUME NEW i \in 1..(H - 1), NEW j \in 1..(H - 1), i < j PROVE index'[File(i)'] < index'[File(j)']
    BY <1>1, <1>5, <1>6, <1>8, <2>2
  <2>3. \A i, j \in 1..Len(component)' : i < j => index'[component'[i]] < index'[component'[j]]
    BY <1>7, <1>8
  <2> QED BY <1>1, <2>1, <2>2, <2>3 DEF StackInv
<1>22. EdgesInv'
  <2>1. ASSUME NEW u \in Opened', NEW v \in Neighbours(u)
        PROVE  v \in Visited \/ \E i \in 1..(H - 1) : File(i)' = u /\ v \in Rest(i)'
    <3>1. v \in Visited \/ \E i \in 1..H : File(i) = u /\ v \in Rest(i)
      BY <1>11, <1>t DEF EdgesInv, H
    <3> QED BY <1>1, <1>2, <1>6, <3>1
  <2>2. \A u \in Finished' : Neighbours(u) \subseteq Finished'
    BY <1>12, <1>14, <1>t DEF EdgesInv
  <2> QED BY <1>1, <1>12, <1>13, <2>1, <2>2 DEF EdgesInv
<1>23. ReachInv'
  <2>1. \A i \in 1..H, u \in Opened : index[File(i)] <= index[u] => Leads(fileEdges, File(i), u)
    BY <1>t DEF ReachInv, H
  <2>2. ASSUME NEW u \in Opened'
        PROVE  \E i \in 1..(H - 1) : index[File(i)] <= index[u] /\ Leads(fileEdges, u, File(i))
    <3>1. PICK i \in 1..H : index[File(i)] <= index[u] /\ Leads(fileEdges, u, File(i))
      BY <1>11, <1>t DEF ReachInv, H
    <3>2. i # H
      <4>1. SUFFICES ASSUME i = H PROVE FALSE
        OBVIOUS
      <4>2. index[f] <= index[u] /\ index[u] < index[f]
        BY <1>11, <3>1, <4>1 DEF f
      <4> QED BY <1>4, <1>10, <1>11, <4>2
    <3> QED BY <1>6, <3>1, <3>2
  <2>3. \A i \in 1..(H - 1), u \in Opened' : index'[File(i)'] <= index'[u] => Leads(fileEdges', File(i)', u)
    BY <1>1, <1>6, <1>8, <1>11, <2>1
  <2>4. \A u \in Opened' : \E i \in 1..(H - 1) : index'[File(i)'] <= index'[u] /\ Leads(fileEdges', u, File(i)')
    BY <1>1, <1>8, <2>2
  <2> QED BY <1>1, <2>3, <2>4 DEF ReachInv
<1>24. LowInv'
  <2>1. ASSUME NEW u \in Opened'
        PROVE  lowlink[u] <= index[u] /\ \E v \in Opened' : index[v] = lowlink[u] /\ Leads(fileEdges, u, v)
    <3>1. lowlink[u] <= index[u] /\ \E v \in Opened : index[v] = lowlink[u] /\ Leads(fileEdges, u, v)
      BY <1>11, <1>t DEF LowInv
    <3>2. PICK v \in Opened : index[v] = lowlink[u] /\ Leads(fileEdges, u, v)
      BY <3>1
    <3>3. index[v] < index[f]
      BY <1>3, <1>4, <1>10, <1>11, <3>1, <3>2
    <3> QED BY <1>7, <3>1, <3>2, <3>3
  <2>2. ASSUME NEW i \in 1..(H - 1), NEW u \in Opened', NEW v \in Opened', v \in Neighbours(u),
               index[File(i)] <= index[u], \A j \in 1..(H - 1) : i < j => index[u] < index[File(j)]
        PROVE  lowlink[File(i)] <= index[v] \/ (u = File(i) /\ v \in Rest(i))
    <3>1. index[u] < index[f] /\ u \in Opened /\ v \in Opened /\ i \in 1..H
      BY <1>6, <1>11
    <3>2. \A j \in 1..H : i < j => index[u] < index[File(j)]
      BY <1>6, <2>2, <3>1 DEF f
    <3> QED BY <1>t, <2>2, <3>1, <3>2 DEF LowInv, Owns, H
  <2>3. ASSUME NEW i \in 1..(H - 1), NEW u \in Opened', NEW v \in Opened', v \in Neighbours(u)',
               index'[File(i)'] <= index'[u], \A j \in 1..(H - 1) : i < j => index'[u] < index'[File(j)']
        PROVE  lowlink'[File(i)'] <= index'[v] \/ (u = File(i)' /\ v \in Rest(i)')
    <3>1. index[File(i)] <= index[u] /\ \A j \in 1..(H - 1) : i < j => index[u] < index[File(j)]
      BY <1>1, <1>8, <2>3
    <3>2. v \in Neighbours(u)
      BY <1>13, <2>3
    <3>3. lowlink[File(i)] <= index[v] \/ (u = File(i) /\ v \in Rest(i))
      BY <2>2, <3>1, <3>2
    <3> QED BY <1>1, <1>8, <3>3
  <2>4. \A u \in Opened' : lowlink'[u] <= index'[u]
    BY <1>8, <2>1
  <2>5. \A u \in Opened' : \E v \in Opened' : index'[v] = lowlink'[u] /\ Leads(fileEdges', u, v)
    BY <1>8, <2>1
  <2> QED BY <1>1, <2>3, <2>4, <2>5 DEF LowInv, Owns
<1>25. CyclesInv'
  <2>1. \A h : Ring(h)' = Ring(h)
    BY <1>8 DEF Ring
  <2>2. \A g \in M : Ring(g) = IF IsCycle(M) THEN M ELSE {}
    BY <1>3, <1>16, WholeIsRing
  <2>3. f \in M
    BY <1>4, <1>9, <1>10
  <2>4. cycles = {Ring(g) : g \in Finished} \ {{}}
    BY <1>t DEF CyclesInv
  <2>5. cycles' = {Ring(g) : g \in Finished \cup M} \ {{}}
    <3>1. CASE IsCycle(M)
      BY <1>8, <2>2, <2>3, <2>4, <3>1
    <3>2. CASE ~IsCycle(M)
      BY <1>8, <2>2, <2>4, <3>2
    <3> QED BY <3>1, <3>2
  <2> QED BY <1>12, <2>1, <2>5 DEF CyclesInv
<1>26. DoneInv'
  BY <1>0, <1>8, <1>t DEF DoneInv
<1> QED BY <1>20, <1>21, <1>22, <1>23, <1>24, <1>25, <1>26 DEF SearchInv

LEMMA InitSearchInv == ArchInit => SearchInv
<1> SUFFICES ASSUME ArchInit PROVE SearchInv
  OBVIOUS
<1>1. Opened = {} /\ Visited = {} /\ Finished = {} /\ Height = 0
  BY DEF ArchInit, Opened, ToSet, Visited, Finished, Height
<1>2. scope \subseteq Modules /\ fileEdges \subseteq scope \X scope
  BY DEF ArchInit, InScope, FileEdges
<1>3. SearchTypes
  <2>1. index \in [Visited -> Nat] /\ lowlink \in [Visited -> Nat]
    BY <1>1 DEF ArchInit, Visited
  <2>2. component \in Seq(Visited) /\ path \in Seq(Frames)
    BY EmptySeq DEF ArchInit
  <2> QED BY <1>1, <1>2, <2>1, <2>2 DEF SearchTypes
<1>4. StackInv
  <2>1. Len(component) = 0
    BY DEF ArchInit
  <2> QED BY <1>1, <2>1 DEF StackInv
<1>5. EdgesInv /\ ReachInv /\ LowInv
  BY <1>1 DEF EdgesInv, ReachInv, LowInv
<1>6. CyclesInv /\ DoneInv
  BY <1>1 DEF ArchInit, CyclesInv, DoneInv
<1> QED BY <1>3, <1>4, <1>5, <1>6 DEF SearchInv

LEMMA StepSearchInv == SearchInv /\ [ArchNext]_archVars => SearchInv'
<1> SUFFICES ASSUME SearchInv, [ArchNext]_archVars PROVE SearchInv'
  OBVIOUS
<1>t. SearchTypes
  BY DEF SearchInv
<1>1. ASSUME NEW f \in scope, Start(f) PROVE SearchInv'
  <2>1. path = <<>> /\ f \in scope \ Visited /\ Open(f, <<>>)
    BY <1>1 DEF Start
  <2>2. Height = 0 /\ Lowered(<<>>, f)
    <3>1. Len(<<>>) = 0 /\ <<>> \in Seq(Frames)
      BY EmptySeq
    <3> QED BY <2>1, <3>1 DEF Height, Lowered, Frames
  <2> QED BY <2>1, <2>2, OpenInv
<1>2. ASSUME NEW f \in scope, LookAt(f) PROVE SearchInv'
  <2>1. path # <<>> /\ f \in Top.rest
    BY <1>2 DEF LookAt
  <2>2. CASE f \in Visited
    BY <1>2, <2>1, <2>2, LookAtInv
  <2>3. CASE f \notin Visited
    <3>1. Open(f, TopWithout(f)) /\ f \in scope \ Visited
      BY <1>2, <2>3 DEF LookAt
    <3>2. Lowered(TopWithout(f), f) /\ f \in Rest(Height)
      BY <1>t, <2>1, TopIsLowered DEF Rest
    <3> DEFINE b == TopWithout(f)
    <3> HIDE DEF b
    <3> QED BY <3>1, <3>2, OpenInv DEF b
  <2> QED BY <2>2, <2>3
<1>3. ASSUME Pop PROVE SearchInv'
  BY <1>3, PopInnerInv, PopRootInv
<1>4. ASSUME Finish \/ UNCHANGED archVars PROVE SearchInv'
  <2>1. /\ UNCHANGED <<scope, fileEdges, index, lowlink, component, path, cycles>>
        /\ phase' = "done" => phase = "done" \/ (path = <<>> /\ scope \subseteq Visited)
    BY <1>4 DEF Finish, archVars
  <2>2. UNCHANGED <<Visited, Opened, Finished, Frames, Height>>
    BY <2>1 DEF Visited, Opened, Finished, Frames, Height
  <2>3. SearchTypes'
    BY <1>t, <2>1, <2>2 DEF SearchTypes
  <2>4. StackInv' /\ EdgesInv'
    BY <2>1, <2>2 DEF SearchInv, StackInv, EdgesInv, File, Rest, Neighbours
  <2>5. ReachInv' /\ LowInv'
    BY <2>1, <2>2 DEF SearchInv, ReachInv, LowInv, Owns, File, Rest, Neighbours
  <2>6. CyclesInv'
    <3>1. \A h : Ring(h)' = Ring(h)
      BY <2>1 DEF Ring
    <3> QED BY <2>1, <2>2, <3>1 DEF SearchInv, CyclesInv
  <2>7. DoneInv'
    BY <2>1, <2>2 DEF SearchInv, DoneInv
  <2> QED BY <2>3, <2>4, <2>5, <2>6, <2>7 DEF SearchInv
<1> QED BY <1>1, <1>2, <1>3, <1>4 DEF ArchNext

\* The search reports no cycle before it is whole, and in the end all of them
\* (architecture.py:438).
THEOREM CyclesAreFound == ArchSpec => []CyclesAreComponents
<1>1. ArchInit => SearchInv
  BY InitSearchInv
<1>2. SearchInv /\ [ArchNext]_archVars => SearchInv'
  BY StepSearchInv
<1>3. SearchInv => CyclesAreComponents
  <2> SUFFICES ASSUME SearchInv PROVE CyclesAreComponents
    OBVIOUS
  <2>1. SearchTypes /\ ReachInv /\ CyclesInv /\ DoneInv
    BY DEF SearchInv
  <2>2. /\ scope \subseteq Modules /\ fileEdges \subseteq scope \X scope
        /\ Finished \subseteq scope
    BY <2>1 DEF SearchTypes, Finished
  <2>3. \A f \in scope : CycleOf(f) = Ring(f)
    BY <2>2, CycleIsRing
  <2>4. cycles = {Ring(f) : f \in Finished} \ {{}}
    BY <2>1 DEF CyclesInv
  <2>5. ASSUME phase = "done" PROVE scope \subseteq Finished
    <3>1. path = <<>> /\ scope \subseteq Visited
      BY <2>1, <2>5 DEF DoneInv
    <3>2. Height = 0
      BY <3>1 DEF Height
    <3>3. Opened = {}
      BY <2>1, <3>2 DEF ReachInv
    <3> QED BY <3>1, <3>3 DEF Finished
  <2> QED BY <2>2, <2>3, <2>4, <2>5 DEF CyclesAreComponents
<1> QED BY <1>1, <1>2, <1>3, PTL DEF ArchSpec
================================================================================
