--------------------------- MODULE IndexStoreProofs ---------------------------
(***************************************************************************)
(* What holds of the index for every set of files and texts, every answer  *)
(* of the language server and any number of jobs, passes and crashes.      *)
(***************************************************************************)
EXTENDS IndexStore, FiniteSetTheorems, SequenceTheorems, TLAPS

-----------------------------------------------------------------------------
(* Tables: the history says which rows are live *)

LEMMA PutTells ==
    ASSUME NEW table, NEW rows, HistoryTells(table)
    PROVE  HistoryTells(Put(table, rows))
<1> DEFINE changed == {k \in DOMAIN rows : IF k \in DOMAIN table.live
                                           THEN table.live[k] # rows[k] ELSE TRUE}
           live == Over(rows, table.live)
           snap == Over(Only(rows, changed), table.snap)
           tomb == table.tomb \ changed
<1>1. /\ DOMAIN table.live = DOMAIN table.snap \ table.tomb
      /\ \A k \in DOMAIN table.live : table.live[k] = table.snap[k]
  BY DEF HistoryTells, Without
<1>2. /\ DOMAIN live = DOMAIN rows \cup DOMAIN table.live
      /\ \A k \in DOMAIN live : live[k] = IF k \in DOMAIN rows THEN rows[k] ELSE table.live[k]
      /\ live = [k \in DOMAIN live |-> live[k]]
  BY DEF Over
<1>3. /\ DOMAIN snap = changed \cup DOMAIN table.snap
      /\ \A k \in DOMAIN snap : snap[k] = IF k \in changed THEN rows[k] ELSE table.snap[k]
  BY DEF Over, Only
<1>4. \A k \in DOMAIN rows : k \notin changed => k \in DOMAIN table.live /\ table.live[k] = rows[k]
  OBVIOUS
<1>5. DOMAIN live = DOMAIN snap \ tomb
  BY <1>1, <1>2, <1>3, <1>4
<1>6. \A k \in DOMAIN live : live[k] = snap[k]
  BY <1>1, <1>2, <1>3, <1>4, <1>5
<1>7. live = Without(snap, tomb)
  BY <1>2, <1>5, <1>6 DEF Without
<1> QED BY <1>7 DEF HistoryTells, Put

LEMMA DropTells ==
    ASSUME NEW table, NEW keys, HistoryTells(table)
    PROVE  HistoryTells(Drop(table, keys))
<1>1. /\ DOMAIN table.live = DOMAIN table.snap \ table.tomb
      /\ \A k \in DOMAIN table.live : table.live[k] = table.snap[k]
  BY DEF HistoryTells, Without
<1>2. Without(table.live, keys) = Without(table.snap, table.tomb \cup keys)
  <2>1. DOMAIN table.live \ keys = DOMAIN table.snap \ (table.tomb \cup keys)
    BY <1>1
  <2> QED BY <1>1, <2>1 DEF Without
<1> QED BY <1>2 DEF HistoryTells, Drop

LEMMA EmptyTells == HistoryTells(EmptyTable)
<1>1. DOMAIN <<>> = {}
  OBVIOUS
<1>2. <<>> = [k \in {} |-> <<>>[k]]
  BY <1>1
<1> QED BY <1>1, <1>2 DEF HistoryTells, EmptyTable, Without

BothTell(d) == HistoryTells(d.symbols) /\ HistoryTells(d.relations)

\* An index job keeps both tables and their histories in step.
LEMMA CommitTells ==
    ASSUME NEW d, BothTell(d), NEW f, NEW t, NEW prune
    PROVE  BothTell(Committed(d, f, t, prune))
<1> DEFINE symbols == SymbolRows(Symbols(f, Text[t]))
           rows == RowsOf(f, t, SymbolIds(d))
           removed == InFile(d, f) \ DOMAIN symbols
           prior == {k \in Relations(d) : /\ k.site.file = f
                                          /\ prune \/ d.relations.live[k].confidence # "INFERRED"}
           put == Put(d.symbols, symbols)
           upserted == Put(d.relations, rows)
           pruned == Drop(upserted, prior \ DOMAIN rows)
           crossing == {k \in DOMAIN pruned.live : k.target \in removed}
<1>1. Committed(d, f, t, prune) = [symbols |-> Drop(put, removed), relations |-> Drop(pruned, crossing)]
  BY DEF Committed, Reconciled
<1> HIDE DEF symbols, rows, removed, prior, crossing
<1>2. HistoryTells(put) /\ HistoryTells(upserted)
  BY PutTells DEF BothTell
<1>3. HistoryTells(pruned)
  BY <1>2, DropTells
<1>4. HistoryTells(Drop(put, removed)) /\ HistoryTells(Drop(pruned, crossing))
  BY <1>2, <1>3, DropTells
<1> QED BY <1>1, <1>4 DEF BothTell

LEMMA HistoryStep == BothTell(db) /\ [Next]_vars => BothTell(db')
<1> SUFFICES ASSUME BothTell(db), [Next]_vars PROVE BothTell(db')
  OBVIOUS
<1>1. ASSUME NEW f \in Files, NEW t \in DOMAIN Text, NEW prune \in BOOLEAN, IndexFile(f, t, prune)
      PROVE  BothTell(db')
  BY <1>1, CommitTells DEF IndexFile
<1>2. ASSUME NEW f \in Files, NEW t \in DOMAIN Text, NEW prune \in BOOLEAN, IndexFails(f, t, prune)
      PROVE  BothTell(db')
  BY <1>2 DEF IndexFails, AfterFailure
<1>3. CASE ClearHusk
  <2>1. HistoryTells(Drop(db.symbols, InFile(db, husk)))
    BY DropTells DEF BothTell
  <2> QED BY <1>3, <2>1 DEF ClearHusk, BothTell
<1>4. CASE ApplyMerge
  <2> DEFINE m == Head(merges)
             row == [k \in {m.key} |-> m.fact]
  <2>1. CASE Refused(db, m)
    BY <1>4, <2>1 DEF ApplyMerge
  <2>2. CASE ~Refused(db, m)
    <3>1. db' = [symbols |-> db.symbols, relations |-> Put(db.relations, row)]
      BY <1>4, <2>2 DEF ApplyMerge
    <3> HIDE DEF row
    <3>2. HistoryTells(Put(db.relations, row))
      BY PutTells DEF BothTell
    <3> QED BY <3>1, <3>2 DEF BothTell
  <2> QED BY <2>1, <2>2
<1>5. ASSUME NEW k \in retire, RetireSibling(k)
      PROVE  BothTell(db')
  <2>1. HistoryTells(Drop(db.relations, {k}))
    BY DropTells DEF BothTell
  <2> QED BY <1>5, <2>1 DEF RetireSibling, BothTell
<1>6. CASE MergeFails \/ PassStep \/ Crash \/ UNCHANGED vars
  BY <1>6 DEF MergeFails, PassStep, PassStarts, NoServer, ListSites, ConnectionLost, PassEnds, Ask,
              NoAnswer, Mixin, Crash, vars
<1> QED BY <1>1, <1>2, <1>3, <1>4, <1>5, <1>6 DEF Next, Index, Failure, Merging

\* The append-only history of both stores tells what is live: is_tombstoned
\* and explain may go by it alone.
THEOREM HistoryIsExact == Spec => []HistoryTellsLive
<1>1. Init => BothTell(db)
  BY EmptyTells DEF Init, BothTell
<1>2. Init => HistoryTellsLive
  BY <1>1 DEF BothTell, HistoryTellsLive
<1>3. HistoryTellsLive /\ [Next]_vars => HistoryTellsLive'
  BY HistoryStep DEF BothTell, HistoryTellsLive
<1> QED BY <1>2, <1>3, PTL DEF Spec

-----------------------------------------------------------------------------
(* Enrichment takes no certainty away *)

LEMMA RankBound == \A c : Rank(c) \in 0..2
  BY DEF Rank

LEMMA RankAmbiguous == Rank("AMBIGUOUS") = 2
  BY DEF Rank

\* What a merge job has still to remove are candidates, each of a site that
\* keeps a row which is not to be removed.
RivalsKeepAnswer ==
    \A k \in retire :
        /\ k \in Relations(db) /\ db.relations.live[k].confidence = "AMBIGUOUS"
        /\ \E l \in Relations(db) \ retire : SameSite(l, k)

CertainInv == jobs \in Nat /\ RivalsKeepAnswer

LEMMA PutRow ==
    ASSUME NEW d, NEW k, NEW fact,
           db' = [symbols |-> d.symbols, relations |-> Put(d.relations, [j \in {k} |-> fact])]
    PROVE  /\ Relations(db') = Relations(d) \cup {k}
           /\ db'.relations.live[k] = fact
           /\ \A l \in Relations(d) \ {k} : db'.relations.live[l] = d.relations.live[l]
<1>1. db'.relations.live = Over([j \in {k} |-> fact], d.relations.live)
  BY DEF Put
<1> QED BY <1>1 DEF Over, Relations

LEMMA DropRow ==
    ASSUME NEW d, NEW k,
           db' = [symbols |-> d.symbols, relations |-> Drop(d.relations, {k})]
    PROVE  /\ Relations(db') = Relations(d) \ {k}
           /\ \A l \in Relations(db') : db'.relations.live[l] = d.relations.live[l]
<1>1. db'.relations.live = Without(d.relations.live, {k})
  BY DEF Drop
<1> QED BY <1>1 DEF Without, Relations

LEMMA CertainStep == CertainInv /\ [Next]_vars => CertainInv'
<1> SUFFICES ASSUME CertainInv, [Next]_vars PROVE CertainInv'
  OBVIOUS
<1>1. ASSUME NEW f \in Files, NEW t \in DOMAIN Text, NEW prune \in BOOLEAN,
             IndexFile(f, t, prune) \/ IndexFails(f, t, prune)
      PROVE  CertainInv'
  BY <1>1 DEF IndexFile, IndexFails, WriterIsFree, CertainInv, RivalsKeepAnswer
<1>2. CASE ClearHusk
  BY <1>2 DEF ClearHusk, CertainInv, RivalsKeepAnswer, Relations
<1>3. CASE ApplyMerge
  <2> DEFINE m == Head(merges)
  <2>1. CASE Refused(db, m)
    BY <1>3, <2>1 DEF ApplyMerge, CertainInv, RivalsKeepAnswer, Relations
  <2>2. CASE ~Refused(db, m)
    <3>1. /\ db' = [symbols |-> db.symbols, relations |-> Put(db.relations, [j \in {m.key} |-> m.fact])]
          /\ retire' = StaleSiblings(db', m)
          /\ jobs' = jobs
      BY <1>3, <2>2 DEF ApplyMerge
    <3>2. m.key \in Relations(db')
      <4>1. db' = [symbols |-> db.symbols, relations |-> Put(db.relations, [j \in {m.key} |-> m.fact])]
        BY <3>1
      <4>2. /\ Relations(db') = Relations(db) \cup {m.key}
            /\ db'.relations.live[m.key] = m.fact
            /\ \A l \in Relations(db) \ {m.key} : db'.relations.live[l] = db.relations.live[l]
        BY <4>1, PutRow
      <4> QED BY <4>2
    <3>3. ASSUME NEW k \in retire'
          PROVE  /\ k \in Relations(db') /\ db'.relations.live[k].confidence = "AMBIGUOUS"
                 /\ \E l \in Relations(db') \ retire' : SameSite(l, k)
      <4>1. /\ k \in Relations(db') /\ db'.relations.live[k].confidence = "AMBIGUOUS"
            /\ SameSite(k, m.key)
        BY <3>1, <3>3 DEF StaleSiblings
      <4>2. m.key \notin retire'
        BY <3>1 DEF StaleSiblings
      <4> QED BY <3>2, <4>1, <4>2 DEF SameSite
    <3> QED BY <3>1, <3>3 DEF CertainInv, RivalsKeepAnswer, Relations
  <2> QED BY <2>1, <2>2
<1>4. ASSUME NEW k \in retire, RetireSibling(k)
      PROVE  CertainInv'
  <2>1. /\ db' = [symbols |-> db.symbols, relations |-> Drop(db.relations, {k})]
        /\ retire' = retire \ {k}
        /\ jobs' = jobs
    BY <1>4 DEF RetireSibling
  <2>2. /\ Relations(db') = Relations(db) \ {k}
        /\ \A l \in Relations(db') : db'.relations.live[l] = db.relations.live[l]
    BY <2>1, DropRow
  <2> QED BY <2>1, <2>2 DEF CertainInv, RivalsKeepAnswer, Relations
<1>5. CASE PassStep
  <2>1. db' = db /\ retire' = retire /\ jobs' = jobs
    BY <1>5 DEF PassStep, PassStarts, NoServer, ListSites, ConnectionLost, PassEnds, Ask, NoAnswer,
                Mixin
  <2> QED BY <2>1 DEF CertainInv, RivalsKeepAnswer, Relations
<1>6. CASE MergeFails \/ Crash
  BY <1>6 DEF MergeFails, Crash, CertainInv, RivalsKeepAnswer
<1>7. CASE UNCHANGED vars
  BY <1>7 DEF vars, CertainInv, RivalsKeepAnswer, Relations
<1> QED BY <1>1, <1>2, <1>3, <1>4, <1>5, <1>6, <1>7 DEF Next, Index, Failure, Merging

LEMMA SameRowsKeep ==
    ASSUME db'.relations.live = db.relations.live PROVE KeepsCertainty
<1>1. \A k \in Relations(db) : k \in Relations(db') /\ Rank(db.relations.live[k].confidence) \in 0..2
  BY RankBound DEF Relations
<1> QED BY <1>1 DEF KeepsCertainty

LEMMA CertaintyKept == CertainInv /\ [Next]_vars => KeepsCertainty
<1> SUFFICES ASSUME CertainInv, [Next]_vars PROVE KeepsCertainty
  OBVIOUS
<1>1. ASSUME NEW f \in Files, NEW t \in DOMAIN Text, NEW prune \in BOOLEAN,
             IndexFile(f, t, prune) \/ IndexFails(f, t, prune)
      PROVE  KeepsCertainty
  <2>1. jobs' = jobs + 1 /\ jobs \in Nat
    BY <1>1 DEF IndexFile, IndexFails, CertainInv
  <2> QED BY <2>1 DEF KeepsCertainty
<1>2. CASE ClearHusk
  BY <1>2, SameRowsKeep DEF ClearHusk
<1>3. CASE ApplyMerge
  <2> DEFINE m == Head(merges)
  <2>1. CASE Refused(db, m)
    BY <1>3, <2>1, SameRowsKeep DEF ApplyMerge
  <2>2. CASE ~Refused(db, m)
    <3>1. db' = [symbols |-> db.symbols, relations |-> Put(db.relations, [j \in {m.key} |-> m.fact])]
      BY <1>3, <2>2 DEF ApplyMerge
    <3>2. /\ Relations(db') = Relations(db) \cup {m.key}
          /\ db'.relations.live[m.key] = m.fact
          /\ \A l \in Relations(db) \ {m.key} : db'.relations.live[l] = db.relations.live[l]
      BY <3>1, PutRow
    <3>3. ASSUME NEW k \in Relations(db)
          PROVE  k \in Relations(db') /\ Rank(db'.relations.live[k].confidence) <= Rank(db.relations.live[k].confidence)
      <4>1. CASE k = m.key
        <5>1. ~(Rank(m.fact.confidence) > Rank(db.relations.live[k].confidence))
          BY <2>2, <4>1 DEF Refused
        <5>2. Rank(m.fact.confidence) \in 0..2 /\ Rank(db.relations.live[k].confidence) \in 0..2
          BY RankBound
        <5> QED BY <3>2, <4>1, <5>1, <5>2
      <4>2. CASE k # m.key
        BY <3>2, <4>2, RankBound
      <4> QED BY <4>1, <4>2
    <3> QED BY <3>3 DEF KeepsCertainty
  <2> QED BY <2>1, <2>2
<1>4. ASSUME NEW r \in retire, RetireSibling(r)
      PROVE  KeepsCertainty
  <2>1. db' = [symbols |-> db.symbols, relations |-> Drop(db.relations, {r})]
    BY <1>4 DEF RetireSibling
  <2>2. /\ Relations(db') = Relations(db) \ {r}
        /\ \A l \in Relations(db') : db'.relations.live[l] = db.relations.live[l]
    BY <2>1, DropRow
  <2>3. /\ Rank(db.relations.live[r].confidence) = 2
        /\ \E l \in Relations(db) \ retire : SameSite(l, r)
    BY RankAmbiguous DEF CertainInv, RivalsKeepAnswer
  <2>4. PICK l \in Relations(db) \ retire : SameSite(l, r)
    BY <2>3
  <2>5. l \in Relations(db') /\ Rank(db'.relations.live[l].confidence) \in 0..2
    BY <2>2, <2>4, RankBound
  <2>6. \A k \in Relations(db) \ {r} :
           /\ k \in Relations(db')
           /\ Rank(db'.relations.live[k].confidence) <= Rank(db.relations.live[k].confidence)
    BY <2>2, RankBound
  <2> QED BY <2>3, <2>4, <2>5, <2>6 DEF KeepsCertainty
<1>5. CASE MergeFails \/ PassStep \/ Crash \/ UNCHANGED vars
  <2>1. db' = db
    BY <1>5 DEF MergeFails, PassStep, PassStarts, NoServer, ListSites, ConnectionLost, PassEnds, Ask,
                NoAnswer, Mixin, Crash, vars
  <2> QED BY <2>1, SameRowsKeep
<1> QED BY <1>1, <1>2, <1>3, <1>4, <1>5 DEF Next, Index, Failure, Merging

\* merge_policy.py keeps its promise over any interleaving of passes, index
\* jobs and crashes: only index jobs take certainty away.
THEOREM EnrichmentOnlyAdds == Spec => NeverLessCertain
<1>1. Init => CertainInv
  BY DEF Init, CertainInv, RivalsKeepAnswer
<1> QED BY <1>1, CertainStep, CertaintyKept, PTL DEF Spec, NeverLessCertain

-----------------------------------------------------------------------------
(* Relations point at what is there *)

SymbolIdsOf(f, t) == {s.id : s \in Symbols(f, t)}

LEMMA NamesHaveSymbols ==
    ASSUME NEW f, NEW t, NEW n \in Names(t)
    PROVE  IdIn(f, t, n) \in SymbolIdsOf(f, t)
<1> DEFINE s == [id |-> IdIn(f, t, n), stub |-> n \in t.stubs]
<1>1. s \in Symbols(f, t)
  BY DEF Symbols
<1>2. s.id \in SymbolIdsOf(f, t)
  BY <1>1 DEF SymbolIdsOf
<1> QED BY <1>2

\* The rows of one site point at the names that are its candidates.
LEMMA RowsPointAtCandidates ==
    ASSUME NEW f, NEW t, NEW source, NEW predicate, NEW at, NEW confidence, NEW provider,
           NEW candidates, candidates \subseteq Names(t)
    PROVE  \A r \in Rows(f, t, source, predicate, at, candidates, confidence, provider) :
              r.target \in SymbolIdsOf(f, t)
  BY NamesHaveSymbols DEF Rows, Relation

LEMMA MethodsAreNames ==
    ASSUME NEW t, NEW c \in Classes(t), NEW m \in t.methods[c]
    PROVE  <<c, m>> \in Names(t)
<1>1. <<c, m>> \in MethodNames(t)
  BY DEF MethodNames
<1> QED BY <1>1 DEF Names

LEMMA SelfMethodsAreNames ==
    ASSUME NEW t, NEW c \in Classes(t), NEW m
    PROVE  SelfMethods(t, c, m) \subseteq Names(t)
  BY MethodsAreNames DEF SelfMethods, BaseMethods

LEMMA CalleesAreNames ==
    ASSUME NEW t, WellFormed(t), NEW k \in t.calls
    PROVE  Callees(t, k) \subseteq Names(t)
<1>1. CASE k.on = "name"
  BY <1>1 DEF Callees
<1>2. CASE k.on = "self" /\ Len(k.in) = 2
  <2>1. k.in[1] \in Classes(t)
    BY <1>2 DEF WellFormed
  <2> QED BY <1>2, <2>1, SelfMethodsAreNames DEF Callees
<1>3. CASE k.on # "name" /\ ~(k.on = "self" /\ Len(k.in) = 2)
  BY <1>3 DEF Callees
<1> QED BY <1>1, <1>2, <1>3

\* The relations of a text alone point at its own symbols.
LEMMA LocalTargets ==
    ASSUME NEW f, NEW t, WellFormed(t), NEW r \in LocalRows(f, t)
    PROVE  r.target \in SymbolIdsOf(f, t)
<1>1. CASE r \in DefinesRows(f, t)
  <2>1. PICK n \in Names(t) \ {<<>>} :
           r \in Rows(f, t, IF Len(n) = 2 THEN <<n[1]>> ELSE <<>>, "defines", n, {n},
                      "EXTRACTED", "tree-sitter")
    BY <1>1 DEF DefinesRows
  <2>2. {n} \subseteq Names(t)
    OBVIOUS
  <2> QED BY <2>1, <2>2, RowsPointAtCandidates
<1>2. CASE r \in InheritsRows(f, t)
  <2>1. PICK c \in Classes(t) :
           r \in UNION {Rows(f, t, <<c>>, "inherits", <<c, b>>, {<<b>>}, "EXTRACTED", "tree-sitter") :
                           b \in LocalBases(t, c)}
    BY <1>2 DEF InheritsRows
  <2>2. PICK b \in LocalBases(t, c) :
           r \in Rows(f, t, <<c>>, "inherits", <<c, b>>, {<<b>>}, "EXTRACTED", "tree-sitter")
    BY <2>1
  <2>3. {<<b>>} \subseteq Names(t)
    BY DEF LocalBases, Names
  <2> QED BY <2>2, <2>3, RowsPointAtCandidates
<1>3. CASE r \in OverridesRows(f, t)
  <2> DEFINE overridden(n) == {<<b, n[2]>> : b \in {b \in LocalBases(t, n[1]) : n[2] \in t.methods[b]}}
  <2>1. PICK n \in MethodNames(t) :
           r \in Rows(f, t, n, "overrides", n, overridden(n), Certainty(overridden(n)), "tree-sitter")
    BY <1>3 DEF OverridesRows
  <2>2. overridden(n) \subseteq Names(t)
    BY MethodsAreNames DEF LocalBases
  <2> HIDE DEF overridden
  <2> QED BY <2>1, <2>2, RowsPointAtCandidates
<1>4. CASE r \in CallsRows(f, t)
  <2>1. PICK k \in t.calls :
           r \in Rows(f, t, k.in, "calls", k.at, Callees(t, k), Certainty(Callees(t, k)), "tree-sitter")
    BY <1>4 DEF CallsRows
  <2> QED BY <2>1, CalleesAreNames, RowsPointAtCandidates
<1>5. CASE r \in FixtureRows(f, t)
  <2>1. PICK q \in t.requests :
           /\ q.name \in DOMAIN t.fixtures
           /\ r \in Rows(f, t, q.in, "calls", q.at, t.fixtures[q.name] \ {q.in}, "AMBIGUOUS",
                         "pytest-fixture-heuristic")
    BY <1>5 DEF FixtureRows
  <2>2. t.fixtures[q.name] \ {q.in} \subseteq Names(t)
    BY <2>1 DEF WellFormed
  <2> QED BY <2>1, <2>2, RowsPointAtCandidates
<1> QED BY <1>1, <1>2, <1>3, <1>4, <1>5 DEF LocalRows

\* Resolution finds nothing but symbols of the index.
LEMMA ResolvedTargets ==
    ASSUME NEW ids, NEW item, NEW r \in Resolved(ids, item)
    PROVE  r.target \in ids
<1>1. Candidates(ids, item) \subseteq ids
  BY DEF Candidates, Named, ImportedMethods
<1> QED BY <1>1 DEF Resolved, Relation

LEMMA RowTargets ==
    ASSUME NEW f \in Files, NEW t \in DOMAIN Text, NEW ids, NEW k \in DOMAIN RowsOf(f, t, ids)
    PROVE  k.target \in ids \cup SymbolIdsOf(f, Text[t])
<1>1. PICK r \in Local[f][t] \cup UNION {Resolved(ids, item) : item \in Deferred[f][t]} : k = Key(r)
  BY DEF RowsOf, RelationRows
<1>2. k.target = r.target
  BY <1>1 DEF Key
<1>3. CASE r \in Local[f][t]
  BY <1>2, <1>3, LocalTargets, TextAssumption DEF Local
<1>4. CASE r \in UNION {Resolved(ids, item) : item \in Deferred[f][t]}
  BY <1>2, <1>4, ResolvedTargets
<1> QED BY <1>1, <1>3, <1>4

\* What an index job commits: the symbols of the file are those of its text,
\* and nothing it leaves points at a symbol it removed.
LEMMA CommitTargets ==
    ASSUME NEW d, NEW f \in Files, NEW t \in DOMAIN Text, NEW prune
    PROVE  LET after == Committed(d, f, t, prune)
           IN  /\ SymbolIds(after) = (SymbolIds(d) \ InFile(d, f)) \cup SymbolIdsOf(f, Text[t])
               /\ \A k \in Relations(after) :
                     \/ k.target \in SymbolIds(after)
                     \/ k \in Relations(d) /\ k.target \notin SymbolIds(d)
<1> DEFINE symbols == SymbolRows(Symbols(f, Text[t]))
           rows == RowsOf(f, t, SymbolIds(d))
           removed == InFile(d, f) \ DOMAIN symbols
           prior == {k \in Relations(d) : /\ k.site.file = f
                                          /\ prune \/ d.relations.live[k].confidence # "INFERRED"}
           put == Put(d.symbols, symbols)
           upserted == Put(d.relations, rows)
           pruned == Drop(upserted, prior \ DOMAIN rows)
           crossing == {k \in DOMAIN pruned.live : k.target \in removed}
           after == Committed(d, f, t, prune)
<1>1. after = [symbols |-> Drop(put, removed), relations |-> Drop(pruned, crossing)]
  BY DEF Committed, Reconciled
<1>2. DOMAIN symbols = SymbolIdsOf(f, Text[t])
  BY DEF SymbolRows, SymbolIdsOf
<1>3. DOMAIN put.live = DOMAIN symbols \cup SymbolIds(d)
  BY DEF Put, Over, SymbolIds
<1>4. SymbolIds(after) = (DOMAIN symbols \cup SymbolIds(d)) \ removed
  <2>1. SymbolIds(after) = DOMAIN Without(put.live, removed)
    BY <1>1 DEF SymbolIds, Drop
  <2> QED BY <1>3, <2>1 DEF Without
<1>5. SymbolIds(after) = (SymbolIds(d) \ InFile(d, f)) \cup DOMAIN symbols
  BY <1>4 DEF InFile
<1>6. DOMAIN pruned.live \subseteq DOMAIN rows \cup Relations(d)
  BY DEF Put, Over, Drop, Without, Relations
<1>7. Relations(after) = DOMAIN pruned.live \ crossing
  BY <1>1 DEF Relations, Drop, Without
<1>8. \A k \in DOMAIN rows : k.target \in SymbolIds(d) \cup DOMAIN symbols
  BY <1>2, RowTargets
<1>9. \A k \in Relations(after) : k.target \notin removed /\ k \in DOMAIN rows \cup Relations(d)
  BY <1>6, <1>7
<1> QED BY <1>2, <1>4, <1>5, <1>8, <1>9

\* Of a file that is gone, the index has at most the module.
HuskIsModule == husk # NoFile => \A i \in InFile(db, husk) : i.kind = "module"

DanglingInv == DanglingOnlyByLateMerge /\ HuskIsModule

LEMMA EmptyTextHasModule ==
    ASSUME NEW f, NEW i \in SymbolIdsOf(f, EmptyText) PROVE i.kind = "module"
<1>1. Classes(EmptyText) = {}
  BY DEF Classes, EmptyText
<1>2. MethodNames(EmptyText) = {} /\ EmptyText.functions = {}
  BY <1>1 DEF MethodNames, EmptyText
<1>3. Names(EmptyText) = {<<>>}
  BY <1>1, <1>2 DEF Names
<1>4. PICK s \in Symbols(f, EmptyText) : i = s.id
  BY DEF SymbolIdsOf
<1>5. s.id = IdIn(f, EmptyText, <<>>)
  BY <1>3, <1>4 DEF Symbols
<1>6. NameKind(EmptyText, <<>>) = "module"
  BY DEF NameKind
<1> QED BY <1>4, <1>5, <1>6 DEF IdIn, Id

LEMMA SymbolFile ==
    ASSUME NEW f, NEW t, NEW i \in SymbolIdsOf(f, t) PROVE i.file = f
  BY DEF SymbolIdsOf, Symbols, IdIn, Id

LEMMA DanglingStep == DanglingInv /\ [Next]_vars => DanglingInv'
<1> SUFFICES ASSUME DanglingInv, [Next]_vars PROVE DanglingInv'
  OBVIOUS
<1>1. ASSUME NEW f \in Files, NEW t \in DOMAIN Text, NEW prune \in BOOLEAN, IndexFile(f, t, prune)
      PROVE  DanglingInv'
  <2>1. /\ db' = Committed(db, f, t, prune)
        /\ late' = {k \in late \cap Relations(db') : k.target \notin SymbolIds(db')}
        /\ husk' = IF t = "husk" THEN f ELSE NoFile
    BY <1>1 DEF IndexFile
  <2>2. /\ SymbolIds(db') = (SymbolIds(db) \ InFile(db, f)) \cup SymbolIdsOf(f, Text[t])
        /\ \A k \in Relations(db') :
              \/ k.target \in SymbolIds(db')
              \/ k \in Relations(db) /\ k.target \notin SymbolIds(db)
    BY <2>1, CommitTargets
  <2>3. ASSUME NEW k \in Relations(db'), k.target \notin SymbolIds(db'), k.target.kind # "module"
        PROVE  k \in late'
    <3>1. k \in Relations(db) /\ k.target \notin SymbolIds(db)
      BY <2>2, <2>3
    <3>2. k \in late
      BY <2>3, <3>1 DEF DanglingInv, DanglingOnlyByLateMerge
    <3> QED BY <2>1, <2>3, <3>2
  <2>4. ASSUME husk' # NoFile, NEW i \in InFile(db', husk')
        PROVE  i.kind = "module"
    <3>1. t = "husk" /\ husk' = f
      BY <2>1, <2>4
    <3>2. i \in SymbolIds(db') /\ i.file = f
      BY <2>4, <3>1 DEF InFile
    <3>3. i \in SymbolIdsOf(f, Text[t])
      BY <2>2, <3>2 DEF InFile
    <3> QED BY <3>1, <3>3, EmptyTextHasModule, HuskAssumption
  <2> QED BY <2>3, <2>4 DEF DanglingInv, DanglingOnlyByLateMerge, HuskIsModule, Relations, SymbolIds, InFile
<1>2. ASSUME NEW f \in Files, NEW t \in DOMAIN Text, NEW prune \in BOOLEAN, IndexFails(f, t, prune)
      PROVE  DanglingInv'
  <2>1. db' = db /\ late' = late /\ husk' = husk
    BY <1>2 DEF IndexFails, AfterFailure
  <2> QED BY <2>1 DEF DanglingInv, DanglingOnlyByLateMerge, HuskIsModule, Relations, SymbolIds, InFile
<1>3. CASE ClearHusk
  <2>1. /\ db' = [symbols |-> Drop(db.symbols, InFile(db, husk)), relations |-> db.relations]
        /\ late' = late /\ husk' = NoFile /\ husk # NoFile
    BY <1>3 DEF ClearHusk
  <2>2. SymbolIds(db') = SymbolIds(db) \ InFile(db, husk) /\ Relations(db') = Relations(db)
    BY <2>1 DEF SymbolIds, Relations, Drop, Without
  <2>3. \A i \in InFile(db, husk) : i.kind = "module"
    BY <2>1 DEF DanglingInv, HuskIsModule
  <2> QED BY <2>1, <2>2, <2>3 DEF DanglingInv, DanglingOnlyByLateMerge, HuskIsModule, Relations, SymbolIds
<1>4. CASE ApplyMerge
  <2> DEFINE m == Head(merges)
  <2>0. husk = NoFile /\ husk' = husk
    BY <1>4 DEF ApplyMerge, WriterIsFree
  <2>1. CASE Refused(db, m)
    <3>1. db' = db /\ late' = late
      BY <1>4, <2>1 DEF ApplyMerge
    <3> QED BY <2>0, <3>1 DEF DanglingInv, DanglingOnlyByLateMerge, HuskIsModule, Relations, SymbolIds
  <2>2. CASE ~Refused(db, m)
    <3>1. db' = [symbols |-> db.symbols, relations |-> Put(db.relations, [j \in {m.key} |-> m.fact])]
      BY <1>4, <2>2 DEF ApplyMerge
    <3>2. late' = late \cup {k \in {m.key} : k.target \notin SymbolIds(db)}
      BY <1>4, <2>2 DEF ApplyMerge
    <3>3. /\ Relations(db') = Relations(db) \cup {m.key}
          /\ db'.relations.live[m.key] = m.fact
          /\ \A l \in Relations(db) \ {m.key} : db'.relations.live[l] = db.relations.live[l]
      BY <3>1, PutRow
    <3>4. SymbolIds(db') = SymbolIds(db)
      BY <3>1 DEF SymbolIds
    <3> QED BY <2>0, <3>2, <3>3, <3>4 DEF DanglingInv, DanglingOnlyByLateMerge, HuskIsModule,
                                          Relations, SymbolIds
  <2> QED BY <2>1, <2>2
<1>5. ASSUME NEW r \in retire, RetireSibling(r)
      PROVE  DanglingInv'
  <2>1. /\ db' = [symbols |-> db.symbols, relations |-> Drop(db.relations, {r})]
        /\ late' = late \ {r} /\ husk' = husk
    BY <1>5 DEF RetireSibling
  <2>2. /\ Relations(db') = Relations(db) \ {r}
        /\ \A l \in Relations(db') : db'.relations.live[l] = db.relations.live[l]
    BY <2>1, DropRow
  <2>3. SymbolIds(db') = SymbolIds(db)
    BY <2>1 DEF SymbolIds
  <2> QED BY <2>1, <2>2, <2>3 DEF DanglingInv, DanglingOnlyByLateMerge, HuskIsModule, Relations,
                                  SymbolIds, InFile
<1>6. CASE PassStep
  <2>1. db' = db /\ late' = late /\ husk' = husk
    BY <1>6 DEF PassStep, PassStarts, NoServer, ListSites, ConnectionLost, PassEnds, Ask, NoAnswer,
                Mixin
  <2> QED BY <2>1 DEF DanglingInv, DanglingOnlyByLateMerge, HuskIsModule, Relations, SymbolIds, InFile
<1>7. CASE MergeFails \/ Crash
  BY <1>7 DEF MergeFails, Crash, DanglingInv, DanglingOnlyByLateMerge, HuskIsModule, Relations,
              SymbolIds, InFile
<1>8. CASE UNCHANGED vars
  BY <1>8 DEF vars, DanglingInv, DanglingOnlyByLateMerge, HuskIsModule, Relations, SymbolIds, InFile
<1> QED BY <1>1, <1>2, <1>3, <1>4, <1>5, <1>6, <1>7, <1>8 DEF Next, Index, Failure, Merging

\* A relation whose target is gone was written by a merge job that came too
\* late, or its target is the module of a file that is gone.
THEOREM NothingElseDangles == Spec => []DanglingOnlyByLateMerge
<1>1. Init => DanglingInv
  BY DEF Init, DanglingInv, DanglingOnlyByLateMerge, HuskIsModule, EmptyTable, Relations, SymbolIds
<1>2. DanglingInv => DanglingOnlyByLateMerge
  BY DEF DanglingInv
<1> QED BY <1>1, <1>2, DanglingStep, PTL DEF Spec

-----------------------------------------------------------------------------
(* Types: a row that is live, or was removed, is in the history *)

LEMMA PutTable ==
    ASSUME NEW table, NEW rows, TableOK(table)
    PROVE  /\ TableOK(Put(table, rows))
           /\ DOMAIN Put(table, rows).live = DOMAIN rows \cup DOMAIN table.live
           /\ \A k \in DOMAIN rows : Put(table, rows).live[k] = rows[k]
           /\ \A k \in DOMAIN table.live \ DOMAIN rows :
                 Put(table, rows).live[k] = table.live[k]
           /\ DOMAIN table.snap \subseteq DOMAIN Put(table, rows).snap
<1> DEFINE changed == {k \in DOMAIN rows : IF k \in DOMAIN table.live
                                           THEN table.live[k] # rows[k] ELSE TRUE}
           after == Put(table, rows)
<1>1. /\ after.live = Over(rows, table.live)
      /\ after.snap = Over(Only(rows, changed), table.snap)
      /\ after.tomb = table.tomb \ changed
  BY DEF Put
<1>2. /\ DOMAIN after.live = DOMAIN rows \cup DOMAIN table.live
      /\ \A k \in DOMAIN after.live : after.live[k] = IF k \in DOMAIN rows THEN rows[k] ELSE table.live[k]
  BY <1>1 DEF Over
<1>3. DOMAIN after.snap = (DOMAIN rows \cap changed) \cup DOMAIN table.snap
  BY <1>1 DEF Over, Only
<1>4. \A k \in DOMAIN rows : k \in changed \/ k \in DOMAIN table.live
  OBVIOUS
<1>5. TableOK(after)
  BY <1>1, <1>2, <1>3, <1>4 DEF TableOK
<1> QED BY <1>2, <1>3, <1>5

LEMMA DropTable ==
    ASSUME NEW table, NEW keys, TableOK(table), keys \subseteq DOMAIN table.live
    PROVE  /\ TableOK(Drop(table, keys))
           /\ DOMAIN Drop(table, keys).live = DOMAIN table.live \ keys
           /\ \A k \in DOMAIN table.live \ keys : Drop(table, keys).live[k] = table.live[k]
           /\ Drop(table, keys).snap = table.snap
  BY DEF TableOK, Drop, Without

TablesOK(d) == TableOK(d.symbols) /\ TableOK(d.relations)

\* What an index job commits, key by key.
LEMMA CommitRows ==
    ASSUME NEW d, TablesOK(d), NEW f, NEW t, NEW prune
    PROVE  LET symbols == SymbolRows(Symbols(f, Text[t]))
               rows == RowsOf(f, t, SymbolIds(d))
               removed == InFile(d, f) \ DOMAIN symbols
               after == Committed(d, f, t, prune)
           IN  /\ TablesOK(after)
               /\ SymbolIds(after) = (SymbolIds(d) \cup DOMAIN symbols) \ removed
               /\ \A i \in SymbolIds(after) :
                     after.symbols.live[i] = IF i \in DOMAIN symbols THEN symbols[i]
                                                                     ELSE d.symbols.live[i]
               /\ \A k : k \in Relations(after) <=>
                     /\ k.target \notin removed
                     /\ \/ k \in DOMAIN rows
                        \/ /\ k \in Relations(d)
                           /\ \/ k.site.file # f
                              \/ ~prune /\ d.relations.live[k].confidence = "INFERRED"
               /\ \A k \in Relations(after) :
                     after.relations.live[k] = IF k \in DOMAIN rows THEN rows[k]
                                                                    ELSE d.relations.live[k]
               /\ DOMAIN d.relations.snap \subseteq DOMAIN after.relations.snap
<1> DEFINE symbols == SymbolRows(Symbols(f, Text[t]))
           rows == RowsOf(f, t, SymbolIds(d))
           removed == InFile(d, f) \ DOMAIN symbols
           prior == {k \in Relations(d) : /\ k.site.file = f
                                          /\ prune \/ d.relations.live[k].confidence # "INFERRED"}
           put == Put(d.symbols, symbols)
           upserted == Put(d.relations, rows)
           pruned == Drop(upserted, prior \ DOMAIN rows)
           crossing == {k \in DOMAIN pruned.live : k.target \in removed}
           after == Committed(d, f, t, prune)
<1>1. after = [symbols |-> Drop(put, removed), relations |-> Drop(pruned, crossing)]
  BY DEF Committed, Reconciled
<1>2. /\ removed \subseteq DOMAIN d.symbols.live
      /\ prior \subseteq DOMAIN d.relations.live
  BY DEF InFile, SymbolIds, Relations
<1>3. \A k : k \in prior <=> /\ k \in DOMAIN d.relations.live /\ k.site.file = f
                             /\ prune \/ d.relations.live[k].confidence # "INFERRED"
  BY DEF Relations
<1> HIDE DEF symbols, rows, removed, prior
<1>4. /\ TableOK(put)
      /\ DOMAIN put.live = DOMAIN symbols \cup DOMAIN d.symbols.live
      /\ \A k \in DOMAIN symbols : put.live[k] = symbols[k]
      /\ \A k \in DOMAIN d.symbols.live \ DOMAIN symbols : put.live[k] = d.symbols.live[k]
  BY PutTable DEF TablesOK
<1>5. /\ TableOK(upserted)
      /\ DOMAIN upserted.live = DOMAIN rows \cup DOMAIN d.relations.live
      /\ \A k \in DOMAIN rows : upserted.live[k] = rows[k]
      /\ \A k \in DOMAIN d.relations.live \ DOMAIN rows : upserted.live[k] = d.relations.live[k]
      /\ DOMAIN d.relations.snap \subseteq DOMAIN upserted.snap
  BY PutTable DEF TablesOK
<1> HIDE DEF put, upserted
<1>6. /\ TableOK(Drop(put, removed))
      /\ DOMAIN Drop(put, removed).live = DOMAIN put.live \ removed
      /\ \A k \in DOMAIN put.live \ removed : Drop(put, removed).live[k] = put.live[k]
  BY <1>2, <1>4, DropTable
<1>7. /\ TableOK(pruned)
      /\ DOMAIN pruned.live = DOMAIN upserted.live \ (prior \ DOMAIN rows)
      /\ \A k \in DOMAIN upserted.live \ (prior \ DOMAIN rows) : pruned.live[k] = upserted.live[k]
      /\ pruned.snap = upserted.snap
  BY <1>2, <1>5, DropTable
<1> HIDE DEF pruned
<1>8. /\ TableOK(Drop(pruned, crossing))
      /\ DOMAIN Drop(pruned, crossing).live = DOMAIN pruned.live \ crossing
      /\ \A k \in DOMAIN pruned.live \ crossing : Drop(pruned, crossing).live[k] = pruned.live[k]
      /\ Drop(pruned, crossing).snap = pruned.snap
  BY <1>7, DropTable
<1>9. /\ after.symbols = Drop(put, removed) /\ after.relations = Drop(pruned, crossing)
      /\ SymbolIds(after) = DOMAIN Drop(put, removed).live
      /\ Relations(after) = DOMAIN Drop(pruned, crossing).live
  BY <1>1 DEF SymbolIds, Relations
<1> HIDE DEF after
<1>10. TablesOK(after)
  BY <1>6, <1>8, <1>9 DEF TablesOK
<1>11. /\ SymbolIds(after) = (SymbolIds(d) \cup DOMAIN symbols) \ removed
       /\ \A i \in SymbolIds(after) :
             after.symbols.live[i] = IF i \in DOMAIN symbols THEN symbols[i] ELSE d.symbols.live[i]
  BY <1>4, <1>6, <1>9 DEF SymbolIds
<1>12. /\ \A k : k \in Relations(after) <=>
             /\ k.target \notin removed
             /\ \/ k \in DOMAIN rows
                \/ /\ k \in Relations(d)
                   /\ \/ k.site.file # f
                      \/ ~prune /\ d.relations.live[k].confidence = "INFERRED"
  BY <1>3, <1>5, <1>7, <1>8, <1>9 DEF Relations
<1>13. \A k \in Relations(after) :
             after.relations.live[k] = IF k \in DOMAIN rows THEN rows[k] ELSE d.relations.live[k]
  BY <1>5, <1>7, <1>8, <1>9 DEF Relations
<1>14. DOMAIN d.relations.snap \subseteq DOMAIN after.relations.snap
  BY <1>5, <1>7, <1>8, <1>9
<1> QED BY <1>10, <1>11, <1>12, <1>13, <1>14 DEF after, symbols, rows, removed

LEMMA RetireRow ==
    ASSUME NEW d, TablesOK(d), NEW k \in Relations(d), NEW e,
           e.symbols = d.symbols, e.relations = Drop(d.relations, {k})
    PROVE  /\ TablesOK(e) /\ SymbolIds(e) = SymbolIds(d)
           /\ Relations(e) = Relations(d) \ {k}
           /\ \A l \in Relations(e) : e.relations.live[l] = d.relations.live[l]
           /\ e.relations.snap = d.relations.snap
<1>1. {k} \subseteq DOMAIN d.relations.live
  BY DEF Relations
<1> QED BY <1>1, DropTable DEF TablesOK, SymbolIds, Relations

LEMMA ClearModule ==
    ASSUME NEW d, TablesOK(d), NEW f, NEW e,
           e = [symbols |-> Drop(d.symbols, InFile(d, f)), relations |-> d.relations]
    PROVE  /\ TablesOK(e) /\ SymbolIds(e) = SymbolIds(d) \ InFile(d, f)
           /\ \A i \in SymbolIds(e) : e.symbols.live[i] = d.symbols.live[i]
           /\ e.relations = d.relations /\ Relations(e) = Relations(d)
<1>1. InFile(d, f) \subseteq DOMAIN d.symbols.live
  BY DEF InFile, SymbolIds
<1> QED BY <1>1, DropTable DEF TablesOK, SymbolIds, Relations

PassIsRecord == pass = [stage |-> pass.stage, walked |-> pass.walked, todo |-> pass.todo]

LEMMA StepPass == PassIsRecord /\ [Next]_vars => PassIsRecord'
<1> SUFFICES ASSUME PassIsRecord, [Next]_vars PROVE PassIsRecord'
  OBVIOUS
<1>1. \/ pass' = pass
      \/ pass' = Idle
      \/ \E walked : pass' = [stage |-> "stubs", walked |-> walked, todo |-> {}]
      \/ pass' = [pass EXCEPT !.stage = "sites"]
      \/ pass' = [pass EXCEPT !.stage = "sites", !.todo = Worklist(db)]
      \/ pass' = [pass EXCEPT !.todo = {}]
      \/ \E s \in pass.todo : pass' = [pass EXCEPT !.todo = @ \ {s}]
  BY DEF Next, Index, Failure, Merging, PassStep, IndexFile, IndexFails, ClearHusk, ApplyMerge,
         RetireSibling, PassStarts, NoServer, ListSites, ConnectionLost, PassEnds, Ask, NoAnswer,
         Mixin, SiteDone, MergeFails, Crash, vars
<1> QED BY <1>1 DEF PassIsRecord, Idle

LEMMA StepTypes == TypeOK /\ PassIsRecord /\ [Next]_vars => TypeOK'
<1> SUFFICES ASSUME TypeOK, PassIsRecord, [Next]_vars PROVE TypeOK'
  OBVIOUS
<1>0. /\ TablesOK(db) /\ retire \subseteq Relations(db) /\ late \subseteq Relations(db)
      /\ MaxJobs \in Nat /\ MaxPasses \in Nat /\ MaxCrashes \in Nat
  BY BoundsAssumption DEF TypeOK, TablesOK
<1>1. ASSUME NEW f \in Files, NEW t \in DOMAIN Text, NEW prune \in BOOLEAN, IndexFile(f, t, prune)
      PROVE  TypeOK'
  <2>1. TablesOK(Committed(db, f, t, prune))
    BY <1>0, CommitRows
  <2>2. /\ TableOK(db'.symbols) /\ TableOK(db'.relations)
        /\ retire' = {} /\ late' \subseteq Relations(db')
    BY <1>1, <2>1 DEF IndexFile, TablesOK, WriterIsFree
  <2>3. settled' \subseteq Files
    BY <1>1 DEF IndexFile, Settling, TypeOK
  <2>4. husk' \in Files \cup {NoFile} /\ indexed' \in [Files -> DOMAIN Text \cup {Gone}]
    BY <1>1 DEF IndexFile, TypeOK
  <2>5. jobs' \in 0..MaxJobs
    BY <1>0, <1>1 DEF IndexFile, TypeOK
  <2>6. UNCHANGED <<pass, passes, crashes>>
    BY <1>1 DEF IndexFile
  <2> QED BY <2>2, <2>3, <2>4, <2>5, <2>6 DEF TypeOK, Walked, Relations
<1>2. ASSUME NEW f \in Files, NEW t \in DOMAIN Text, NEW prune \in BOOLEAN, IndexFails(f, t, prune)
      PROVE  TypeOK'
  BY <1>0, <1>2 DEF IndexFails, AfterFailure, TypeOK, Walked, Relations
<1>3. CASE ClearHusk
  <2>1. TablesOK(db') /\ Relations(db') = Relations(db)
    BY <1>0, <1>3, ClearModule DEF ClearHusk
  <2>2. indexed' \in [Files -> DOMAIN Text \cup {Gone}]
    BY <1>3 DEF ClearHusk, TypeOK
  <2> QED BY <1>3, <2>1, <2>2 DEF ClearHusk, TypeOK, TablesOK, Walked
<1>4. CASE ApplyMerge
  <2> DEFINE m == Head(merges)
  <2>1. CASE Refused(db, m)
    BY <1>4, <2>1 DEF ApplyMerge, TypeOK, Walked, Relations
  <2>2. CASE ~Refused(db, m)
    <3>1. /\ db' = [symbols |-> db.symbols, relations |-> Put(db.relations, [k \in {m.key} |-> m.fact])]
          /\ retire' = StaleSiblings(db', m)
          /\ late' = late \cup {k \in {m.key} : k.target \notin SymbolIds(db)}
          /\ UNCHANGED <<husk, pass, indexed, settled, jobs, passes, crashes>>
      BY <1>4, <2>2 DEF ApplyMerge
    <3> DEFINE row == [k \in {m.key} |-> m.fact]
    <3>a. DOMAIN row = {m.key}
      OBVIOUS
    <3>b. db'.symbols = db.symbols /\ db'.relations = Put(db.relations, row)
      BY <3>1
    <3> HIDE DEF m, row
    <3>2. TablesOK(db') /\ Relations(db') = Relations(db) \cup {m.key}
      BY <1>0, <3>a, <3>b, PutTable DEF TablesOK, Relations
    <3>3. retire' \subseteq Relations(db') /\ late' \subseteq Relations(db')
      BY <1>0, <3>1, <3>2 DEF StaleSiblings
    <3> QED BY <3>1, <3>2, <3>3 DEF TypeOK, TablesOK, Walked
  <2> QED BY <2>1, <2>2
<1>5. ASSUME NEW k \in retire, RetireSibling(k) PROVE TypeOK'
  <2>0. db'.symbols = db.symbols /\ db'.relations = Drop(db.relations, {k})
    BY <1>5 DEF RetireSibling
  <2>1. TablesOK(db') /\ Relations(db') = Relations(db) \ {k}
    BY <1>0, <2>0, RetireRow
  <2>2. retire' \subseteq Relations(db') /\ late' \subseteq Relations(db')
    BY <1>0, <1>5, <2>1 DEF RetireSibling
  <2> QED BY <1>5, <2>1, <2>2 DEF RetireSibling, TypeOK, TablesOK, Walked
<1>6. ASSUME NEW f \in Files, NEW t \in DOMAIN Text \cup {Gone}, PassStarts(f, t) PROVE TypeOK'
  <2>1. pass'.stage = "stubs" /\ Walked' \subseteq Files
    BY <1>6 DEF PassStarts, Only, Walked
  <2>2. passes' \in 0..MaxPasses
    BY <1>0, <1>6 DEF PassStarts, TypeOK
  <2> QED BY <1>6, <2>1, <2>2 DEF PassStarts, TypeOK, Relations
<1>7. CASE \/ NoServer \/ ListSites \/ ConnectionLost
           \/ \E s \in pass.todo : Ask(s) \/ NoAnswer(s) \/ Mixin(s)
  <2>1. UNCHANGED <<db, husk, retire, indexed, settled, late, jobs, passes, crashes>>
    BY <1>7 DEF NoServer, ListSites, ConnectionLost, Ask, NoAnswer, Mixin
  <2>2. \/ pass' = [pass EXCEPT !.stage = "sites"]
        \/ pass' = [pass EXCEPT !.stage = "sites", !.todo = Worklist(db)]
        \/ pass' = [pass EXCEPT !.todo = {}]
        \/ \E s \in pass.todo : pass' = [pass EXCEPT !.todo = @ \ {s}]
    BY <1>7 DEF NoServer, ListSites, ConnectionLost, Ask, NoAnswer, Mixin, SiteDone
  <2>3. pass'.stage \in {"idle", "stubs", "sites"} /\ Walked' \subseteq Files
    BY <2>2 DEF TypeOK, Walked, PassIsRecord
  <2> QED BY <2>1, <2>3 DEF TypeOK, Relations
<1>8. CASE PassEnds
  BY <1>8 DEF PassEnds, Idle, TypeOK, Walked, Relations
<1>9. CASE Crash
  BY <1>0, <1>9 DEF Crash, Idle, TypeOK, Walked, Relations
<1>10. CASE MergeFails
  BY <1>10 DEF MergeFails, TypeOK, Walked, Relations
<1>11. CASE UNCHANGED vars
  BY <1>11 DEF vars, TypeOK, Walked, Relations
<1> QED BY <1>1, <1>2, <1>3, <1>4, <1>5, <1>6, <1>7, <1>8, <1>9, <1>10, <1>11
        DEF Next, Index, Failure, Merging, PassStep

\* Nothing is live or removed that the histories do not have, and what a merge
\* job has still to retire, and what it wrote late, is live.
THEOREM TypesHold == Spec => []TypeOK
<1>1. Init => TypeOK
  BY BoundsAssumption DEF Init, EmptyTable, TypeOK, TableOK, Idle, Walked, Relations
<1>2. Init => PassIsRecord
  BY DEF Init, PassIsRecord, Idle
<1> QED BY <1>1, <1>2, StepTypes, StepPass, PTL DEF Spec

-----------------------------------------------------------------------------
(* The rows of a text *)

\* Rows of extraction are facts or one of several candidates, at sites of the file.
IsExtracted(r, f) ==
    /\ r.site.file = f /\ r.confidence \in {"EXTRACTED", "AMBIGUOUS"}
    /\ r.provider \in {"tree-sitter", "pytest-fixture-heuristic"}

LEMMA RowsAreExtracted ==
    ASSUME NEW f, NEW t, NEW source, NEW predicate, NEW at, NEW candidates,
           NEW confidence \in {"EXTRACTED", "AMBIGUOUS"},
           NEW provider \in {"tree-sitter", "pytest-fixture-heuristic"}
    PROVE  \A r \in Rows(f, t, source, predicate, at, candidates, confidence, provider) :
              IsExtracted(r, f)
  BY DEF Rows, Relation, IsExtracted

LEMMA CertaintyOfExtraction == \A S : Certainty(S) \in {"EXTRACTED", "AMBIGUOUS"}
  BY DEF Certainty

LEMMA LocalAreExtracted ==
    ASSUME NEW f, NEW t, NEW r \in LocalRows(f, t)
    PROVE  IsExtracted(r, f)
<1>1. CASE r \in DefinesRows(f, t)
  <2>1. PICK n \in Names(t) \ {<<>>} :
           r \in Rows(f, t, IF Len(n) = 2 THEN <<n[1]>> ELSE <<>>, "defines", n, {n},
                      "EXTRACTED", "tree-sitter")
    BY <1>1 DEF DefinesRows
  <2> QED BY <2>1, RowsAreExtracted
<1>2. CASE r \in InheritsRows(f, t)
  <2>1. PICK c \in Classes(t) :
           r \in UNION {Rows(f, t, <<c>>, "inherits", <<c, b>>, {<<b>>}, "EXTRACTED", "tree-sitter") :
                           b \in LocalBases(t, c)}
    BY <1>2 DEF InheritsRows
  <2>2. PICK b \in LocalBases(t, c) :
           r \in Rows(f, t, <<c>>, "inherits", <<c, b>>, {<<b>>}, "EXTRACTED", "tree-sitter")
    BY <2>1
  <2> QED BY <2>2, RowsAreExtracted
<1>3. CASE r \in OverridesRows(f, t)
  <2> DEFINE overridden(n) == {<<b, n[2]>> : b \in {b \in LocalBases(t, n[1]) : n[2] \in t.methods[b]}}
  <2>1. PICK n \in MethodNames(t) :
           r \in Rows(f, t, n, "overrides", n, overridden(n), Certainty(overridden(n)), "tree-sitter")
    BY <1>3 DEF OverridesRows
  <2> HIDE DEF overridden
  <2> QED BY <2>1, RowsAreExtracted, CertaintyOfExtraction
<1>4. CASE r \in CallsRows(f, t)
  <2>1. PICK k \in t.calls :
           r \in Rows(f, t, k.in, "calls", k.at, Callees(t, k), Certainty(Callees(t, k)), "tree-sitter")
    BY <1>4 DEF CallsRows
  <2> QED BY <2>1, RowsAreExtracted, CertaintyOfExtraction
<1>5. CASE r \in FixtureRows(f, t)
  <2>1. PICK q \in t.requests :
           r \in Rows(f, t, q.in, "calls", q.at, t.fixtures[q.name] \ {q.in}, "AMBIGUOUS",
                      "pytest-fixture-heuristic")
    BY <1>5 DEF FixtureRows
  <2> QED BY <2>1, RowsAreExtracted
<1> QED BY <1>1, <1>2, <1>3, <1>4, <1>5 DEF LocalRows

LEMMA ItemsAreOfFile ==
    ASSUME NEW f, NEW t, NEW item \in DeferredItems(f, t)
    PROVE  item.site.file = f
<1>1. CASE item \in CallItems(f, t)
  <2>1. \/ \E k \in t.calls :
              item = Item("call", "calls", k.in, k.at, t.imports[k.name], <<k.name>>, "", f, t, NoName)
        \/ \E k \in t.calls :
              item = Item("call", "calls", k.in, k.at, Append(t.imports[k.on], k.on), <<k.name>>, "",
                          f, t, NoName)
    BY <1>1 DEF CallItems
  <2>2. ASSUME NEW k, NEW module,
               item = Item("call", "calls", k.in, k.at, module, <<k.name>>, "", f, t, NoName)
        PROVE  item.site = [file |-> f, at |-> k.at]
    BY <2>2 DEF Item
  <2>3. \E at : item.site = [file |-> f, at |-> at]
    BY <2>1, <2>2
  <2> QED BY <2>3
<1>2. CASE item \in InheritItems(f, t)
  <2>1. PICK cb \in Classes(t) \X DOMAIN t.imports :
           item = Item("inherit", "inherits", <<cb[1]>>, cb, t.imports[cb[2]], <<cb[2]>>, "", f, t, NoName)
    BY <1>2 DEF InheritItems
  <2> QED BY <2>1 DEF Item
<1>3. CASE item \in OverrideItems(f, t)
  BY <1>3 DEF OverrideItems, Item
<1>4. CASE item \in SelfItems(f, t)
  BY <1>4 DEF SelfItems, Item
<1> QED BY <1>1, <1>2, <1>3, <1>4 DEF DeferredItems

LEMMA ResolvedAreExtracted ==
    ASSUME NEW f, NEW ids, NEW item, item.site.file = f, NEW r \in Resolved(ids, item)
    PROVE  IsExtracted(r, f)
  BY CertaintyOfExtraction DEF Resolved, Relation, IsExtracted

\* What the rows of a text are, key by key.
LEMMA RowsOfText ==
    ASSUME NEW f \in Files, NEW t \in DOMAIN Text, NEW ids, NEW k \in DOMAIN RowsOf(f, t, ids)
    PROVE  /\ k.site.file = f
           /\ RowsOf(f, t, ids)[k].confidence \in {"EXTRACTED", "AMBIGUOUS"}
           /\ RowsOf(f, t, ids)[k].provider \notin {"lsp", "stub"}
<1> DEFINE all == Local[f][t] \cup UNION {Resolved(ids, item) : item \in Deferred[f][t]}
           last == CHOOSE r \in all : Key(r) = k
<1>1. \A r \in all : IsExtracted(r, f)
  <2>1. Local[f][t] = LocalRows(f, Text[t]) /\ Deferred[f][t] = DeferredItems(f, Text[t])
    BY DEF Local, Deferred
  <2> QED BY <2>1, LocalAreExtracted, ItemsAreOfFile, ResolvedAreExtracted
<1>2. DOMAIN RowsOf(f, t, ids) = {Key(r) : r \in all}
  BY DEF RowsOf, RelationRows
<1>3. last \in all /\ Key(last) = k
  BY <1>2
<1>4. RowsOf(f, t, ids)[k] = Fact(last.confidence, last.provider)
  BY <1>2 DEF RowsOf, RelationRows
<1>5. IsExtracted(last, f)
  BY <1>1, <1>3
<1> HIDE DEF last
<1> QED BY <1>3, <1>4, <1>5 DEF IsExtracted, Key, Fact

\* The index matters to the rows of a text only through the candidates.
LEMMA SameCandidatesSameRows ==
    ASSUME NEW f, NEW t, NEW before, NEW after,
           \A item \in Deferred[f][t] : Candidates(before, item) = Candidates(after, item)
    PROVE  RowsOf(f, t, before) = RowsOf(f, t, after)
<1>1. \A item \in Deferred[f][t] : Resolved(before, item) = Resolved(after, item)
  BY DEF Resolved
<1>2. {Resolved(before, item) : item \in Deferred[f][t]} = {Resolved(after, item) : item \in Deferred[f][t]}
  BY <1>1
<1> QED BY <1>2 DEF RowsOf

\* Modules are no candidates.
LEMMA CandidatesAreNoModules ==
    ASSUME NEW ids, NEW item, NEW gone, \A i \in gone : i.kind = "module"
    PROVE  Candidates(ids \ gone, item) = Candidates(ids, item)
<1>1. \A name : /\ Named(ids \ gone, name, "function") = Named(ids, name, "function")
                /\ Named(ids \ gone, name, "class") = Named(ids, name, "class")
                /\ Named(ids \ gone, name, "method") = Named(ids, name, "method")
  BY DEF Named
<1>2. ImportedMethods(ids \ gone, item) = ImportedMethods(ids, item)
  BY <1>1 DEF ImportedMethods
<1> QED BY <1>1, <1>2 DEF Candidates

\* An empty text has no rows and nothing to resolve.
LEMMA EmptyTextHasNoRows ==
    ASSUME NEW f \in Files
    PROVE  /\ Deferred[f]["husk"] = {}
           /\ \A ids : DOMAIN RowsOf(f, "husk", ids) = {}
<1>1. Text["husk"] = EmptyText /\ "husk" \in DOMAIN Text
  BY HuskAssumption, FilesAssumption
<1>2. Classes(EmptyText) = {} /\ EmptyText.calls = {} /\ EmptyText.requests = {}
  BY DEF Classes, EmptyText
<1>3. MethodNames(EmptyText) = {} /\ EmptyText.functions = {}
  BY <1>2 DEF MethodNames, EmptyText
<1>4. Names(EmptyText) = {<<>>}
  BY <1>2, <1>3 DEF Names
<1>5. DeferredItems(f, EmptyText) = {}
  BY <1>2, <1>3 DEF DeferredItems, CallItems, InheritItems, OverrideItems, SelfItems
<1>6. LocalRows(f, EmptyText) = {}
  BY <1>2, <1>3, <1>4 DEF LocalRows, DefinesRows, InheritsRows, OverridesRows, CallsRows, FixtureRows
<1>7. Local[f]["husk"] = {} /\ Deferred[f]["husk"] = {}
  BY <1>1, <1>5, <1>6 DEF Local, Deferred
<1> QED BY <1>7 DEF RowsOf, RelationRows

-----------------------------------------------------------------------------
(* Finitely many rows *)

LEMMA FiniteImage ==
    ASSUME NEW S, IsFiniteSet(S), NEW g
    PROVE  IsFiniteSet({g[x] : x \in S})
<1> DEFINE T == {g[x] : x \in S}
           h == [x \in S |-> g[x]]
<1>1. h \in Surjection(S, T)
  BY DEF Surjection
<1> QED BY <1>1, FS_Surjection

LEMMA FiniteFamily ==
    ASSUME NEW S, IsFiniteSet(S), NEW g, \A x \in S : IsFiniteSet(g[x])
    PROVE  IsFiniteSet(UNION {g[x] : x \in S})
<1>1. IsFiniteSet({g[x] : x \in S})
  BY FiniteImage
<1> QED BY <1>1, FS_UNION

LEMMA FiniteNames ==
    ASSUME NEW t, WellFormed(t)
    PROVE  IsFiniteSet(Names(t)) /\ IsFiniteSet(MethodNames(t))
<1>0. /\ IsFiniteSet(Classes(t)) /\ IsFiniteSet(t.functions)
      /\ \A c \in Classes(t) : IsFiniteSet(t.methods[c])
  BY DEF WellFormed
<1>1. IsFiniteSet(MethodNames(t))
  <2> DEFINE g == [c \in Classes(t) |-> {<<c, m>> : m \in t.methods[c]}]
  <2>1. ASSUME NEW c \in Classes(t) PROVE IsFiniteSet(g[c])
    <3> DEFINE h == [m \in t.methods[c] |-> <<c, m>>]
    <3>1. g[c] = {h[m] : m \in t.methods[c]}
      OBVIOUS
    <3> HIDE DEF g, h
    <3> QED BY <1>0, <3>1, FiniteImage
  <2>2. MethodNames(t) = UNION {g[c] : c \in Classes(t)}
    BY DEF MethodNames
  <2> HIDE DEF g
  <2> QED BY <1>0, <2>1, <2>2, FiniteFamily
<1>2. IsFiniteSet({<<c>> : c \in Classes(t)})
  <2> DEFINE g == [c \in Classes(t) |-> <<c>>]
  <2>1. {g[c] : c \in Classes(t)} = {<<c>> : c \in Classes(t)}
    OBVIOUS
  <2> HIDE DEF g
  <2> QED BY <1>0, <2>1, FiniteImage
<1>3. IsFiniteSet({<<c>> : c \in t.functions})
  <2> DEFINE g == [c \in t.functions |-> <<c>>]
  <2>1. {g[c] : c \in t.functions} = {<<c>> : c \in t.functions}
    OBVIOUS
  <2> HIDE DEF g
  <2> QED BY <1>0, <2>1, FiniteImage
<1>4. IsFiniteSet({<<>>})
  BY FS_Singleton
<1>5. Names(t) = (({<<>>} \cup {<<c>> : c \in Classes(t)}) \cup {<<f>> : f \in t.functions}) \cup MethodNames(t)
  BY DEF Names
<1>6. IsFiniteSet({<<>>} \cup {<<c>> : c \in Classes(t)})
  BY <1>2, <1>4, FS_Union
<1>7. IsFiniteSet(({<<>>} \cup {<<c>> : c \in Classes(t)}) \cup {<<f>> : f \in t.functions})
  BY <1>3, <1>6, FS_Union
<1> QED BY <1>1, <1>5, <1>7, FS_Union

LEMMA FiniteSymbols ==
    ASSUME NEW f, NEW t, WellFormed(t)
    PROVE  IsFiniteSet(SymbolIdsOf(f, t))
<1> DEFINE g == [n \in Names(t) |-> IdIn(f, t, n)]
<1> DEFINE symbol(n) == [id |-> IdIn(f, t, n), stub |-> n \in t.stubs]
<1>0. \A n \in Names(t) : symbol(n).id = g[n]
  OBVIOUS
<1>a. Symbols(f, t) = {symbol(n) : n \in Names(t)}
  BY DEF Symbols
<1> HIDE DEF symbol, g
<1>1. SymbolIdsOf(f, t) = {g[n] : n \in Names(t)}
  BY <1>0, <1>a DEF SymbolIdsOf
<1> QED BY <1>1, FiniteNames, FiniteImage

LEMMA FiniteRows ==
    ASSUME NEW f, NEW t, NEW source, NEW predicate, NEW at, NEW candidates, NEW confidence,
           NEW provider, IsFiniteSet(candidates)
    PROVE  IsFiniteSet(Rows(f, t, source, predicate, at, candidates, confidence, provider))
<1> DEFINE g == [c \in candidates |->
                    Relation(IdIn(f, t, source), IdIn(f, t, c), predicate,
                             [file |-> f, at |-> at], confidence, provider)]
<1>1. Rows(f, t, source, predicate, at, candidates, confidence, provider) = {g[c] : c \in candidates}
  BY DEF Rows
<1> HIDE DEF g
<1> QED BY <1>1, FiniteImage

LEMMA FiniteLocalRows ==
    ASSUME NEW f, NEW t, WellFormed(t)
    PROVE  IsFiniteSet(LocalRows(f, t))
<1>0. /\ IsFiniteSet(Classes(t)) /\ IsFiniteSet(t.calls) /\ IsFiniteSet(t.requests)
      /\ IsFiniteSet(Names(t)) /\ IsFiniteSet(MethodNames(t))
      /\ \A S \in SUBSET Names(t) : IsFiniteSet(S)
  BY FiniteNames, FS_Subset DEF WellFormed
<1>1. IsFiniteSet(DefinesRows(f, t))
  <2> DEFINE S == Names(t) \ {<<>>}
             g == [n \in S |-> Rows(f, t, IF Len(n) = 2 THEN <<n[1]>> ELSE <<>>, "defines", n, {n},
                                    "EXTRACTED", "tree-sitter")]
  <2>1. IsFiniteSet(S)
    BY <1>0, FS_Subset
  <2>2. \A n \in S : IsFiniteSet(g[n])
    BY FS_Singleton, FiniteRows
  <2>3. DefinesRows(f, t) = UNION {g[n] : n \in S}
    BY DEF DefinesRows
  <2> HIDE DEF S, g
  <2> QED BY <2>1, <2>2, <2>3, FiniteFamily
<1>2. IsFiniteSet(InheritsRows(f, t))
  <2> DEFINE row(c, b) == Rows(f, t, <<c>>, "inherits", <<c, b>>, {<<b>>}, "EXTRACTED", "tree-sitter")
             g == [c \in Classes(t) |-> UNION {row(c, b) : b \in LocalBases(t, c)}]
  <2>1. ASSUME NEW c \in Classes(t) PROVE IsFiniteSet(g[c])
    <3> DEFINE h == [b \in LocalBases(t, c) |-> row(c, b)]
    <3>1. IsFiniteSet(LocalBases(t, c))
      BY <1>0, FS_Subset DEF LocalBases
    <3>2. \A b \in LocalBases(t, c) : IsFiniteSet(h[b])
      BY FS_Singleton, FiniteRows
    <3>3. g[c] = UNION {h[b] : b \in LocalBases(t, c)}
      OBVIOUS
    <3> HIDE DEF g, h
    <3> QED BY <3>1, <3>2, <3>3, FiniteFamily
  <2>2. InheritsRows(f, t) = UNION {g[c] : c \in Classes(t)}
    BY DEF InheritsRows
  <2> HIDE DEF g
  <2> QED BY <1>0, <2>1, <2>2, FiniteFamily
<1>3. IsFiniteSet(OverridesRows(f, t))
  <2> DEFINE overridden(n) == {<<b, n[2]>> : b \in {b \in LocalBases(t, n[1]) : n[2] \in t.methods[b]}}
             g == [n \in MethodNames(t) |->
                      Rows(f, t, n, "overrides", n, overridden(n), Certainty(overridden(n)), "tree-sitter")]
  <2>1. ASSUME NEW n \in MethodNames(t) PROVE IsFiniteSet(g[n])
    <3>1. overridden(n) \subseteq Names(t)
      BY MethodsAreNames DEF LocalBases
    <3>2. IsFiniteSet(overridden(n))
      BY <1>0, <3>1
    <3> HIDE DEF overridden
    <3> QED BY <3>2, FiniteRows
  <2>2. OverridesRows(f, t) = UNION {g[n] : n \in MethodNames(t)}
    BY DEF OverridesRows
  <2> HIDE DEF g
  <2> QED BY <1>0, <2>1, <2>2, FiniteFamily
<1>4. IsFiniteSet(CallsRows(f, t))
  <2> DEFINE g == [k \in t.calls |->
                      Rows(f, t, k.in, "calls", k.at, Callees(t, k), Certainty(Callees(t, k)), "tree-sitter")]
  <2>1. \A k \in t.calls : IsFiniteSet(g[k])
    BY <1>0, CalleesAreNames, FiniteRows
  <2>2. CallsRows(f, t) = UNION {g[k] : k \in t.calls}
    BY DEF CallsRows
  <2> HIDE DEF g
  <2> QED BY <1>0, <2>1, <2>2, FiniteFamily
<1>5. IsFiniteSet(FixtureRows(f, t))
  <2> DEFINE S == {q \in t.requests : q.name \in DOMAIN t.fixtures}
             g == [q \in S |-> Rows(f, t, q.in, "calls", q.at, t.fixtures[q.name] \ {q.in}, "AMBIGUOUS",
                                    "pytest-fixture-heuristic")]
  <2>1. IsFiniteSet(S)
    BY <1>0, FS_Subset
  <2>2. ASSUME NEW q \in S PROVE IsFiniteSet(g[q])
    <3>1. t.fixtures[q.name] \ {q.in} \subseteq Names(t)
      BY DEF WellFormed
    <3>2. IsFiniteSet(t.fixtures[q.name] \ {q.in})
      BY <1>0, <3>1
    <3> QED BY <3>2, FiniteRows
  <2>3. FixtureRows(f, t) = UNION {g[q] : q \in S}
    BY DEF FixtureRows
  <2> HIDE DEF S, g
  <2> QED BY <2>1, <2>2, <2>3, FiniteFamily
<1>6. IsFiniteSet(((DefinesRows(f, t) \cup InheritsRows(f, t)) \cup OverridesRows(f, t)) \cup CallsRows(f, t))
  BY <1>1, <1>2, <1>3, <1>4, FS_Union
<1> QED BY <1>5, <1>6, FS_Union DEF LocalRows

LEMMA FiniteItems ==
    ASSUME NEW f, NEW t, WellFormed(t)
    PROVE  IsFiniteSet(DeferredItems(f, t))
<1>0. /\ IsFiniteSet(Classes(t)) /\ IsFiniteSet(t.calls) /\ IsFiniteSet(DOMAIN t.imports)
      /\ IsFiniteSet(MethodNames(t))
  BY FiniteNames DEF WellFormed
<1>1. IsFiniteSet(CallItems(f, t))
  <2> DEFINE plain == {k \in t.calls : /\ k.on = "name" /\ <<k.name>> \notin Names(t)
                                       /\ k.name \in DOMAIN t.imports}
             through == {k \in t.calls : k.on \in DOMAIN t.imports}
             g == [k \in plain |->
                      Item("call", "calls", k.in, k.at, t.imports[k.name], <<k.name>>, "", f, t, NoName)]
             h == [k \in through |->
                      Item("call", "calls", k.in, k.at, Append(t.imports[k.on], k.on), <<k.name>>, "",
                           f, t, NoName)]
  <2>1. IsFiniteSet(plain) /\ IsFiniteSet(through)
    BY <1>0, FS_Subset
  <2>2. CallItems(f, t) = {g[k] : k \in plain} \cup {h[k] : k \in through}
    BY DEF CallItems
  <2> HIDE DEF plain, through, g, h
  <2>3. IsFiniteSet({g[k] : k \in plain}) /\ IsFiniteSet({h[k] : k \in through})
    BY <2>1, FiniteImage
  <2> QED BY <2>2, <2>3, FS_Union
<1>2. IsFiniteSet(InheritItems(f, t))
  <2> DEFINE S == {cb \in Classes(t) \X DOMAIN t.imports : cb[2] \in t.bases[cb[1]] \ Classes(t)}
             g == [cb \in S |->
                     Item("inherit", "inherits", <<cb[1]>>, cb, t.imports[cb[2]], <<cb[2]>>, "", f, t, NoName)]
  <2>1. IsFiniteSet(S)
    <3>1. IsFiniteSet(Classes(t) \X DOMAIN t.imports)
      BY <1>0, FS_Product
    <3> QED BY <3>1, FS_Subset
  <2>2. InheritItems(f, t) = {g[cb] : cb \in S}
    BY DEF InheritItems
  <2> HIDE DEF S, g
  <2> QED BY <2>1, <2>2, FiniteImage
<1>3. IsFiniteSet(OverrideItems(f, t))
  <2> DEFINE bases(n) == (t.bases[n[1]] \ Classes(t)) \cap DOMAIN t.imports
             item(n, b) == Item("override", "overrides", n, n, t.imports[b], <<b>>, n[2], f, t, NoName)
             g == [n \in MethodNames(t) |-> {item(n, b) : b \in bases(n)}]
  <2>1. ASSUME NEW n \in MethodNames(t) PROVE IsFiniteSet(g[n])
    <3> DEFINE h == [b \in bases(n) |-> item(n, b)]
    <3>1. IsFiniteSet(bases(n))
      BY <1>0, FS_Subset
    <3>2. g[n] = {h[b] : b \in bases(n)}
      OBVIOUS
    <3> HIDE DEF g, h, bases
    <3> QED BY <3>1, <3>2, FiniteImage
  <2>2. OverrideItems(f, t) = UNION {g[n] : n \in MethodNames(t)}
    BY DEF OverrideItems
  <2> HIDE DEF g
  <2> QED BY <1>0, <2>1, <2>2, FiniteFamily
<1>4. IsFiniteSet(SelfItems(f, t))
  <2> DEFINE S == {k \in t.calls : k.on = "self" /\ Len(k.in) = 2}
             met(k) == ImportedBases(t, k.in[1], k.name)
             item(k, module, name) == Item("self", "calls", k.in, k.at, module, name, k.name, f, t, <<k.in[1]>>)
             items(k) == IF k.name \in t.methods[k.in[1]] THEN {}
                         ELSE IF met(k) = {} /\ BaseMethods(t, k.in[1], k.name) = {} THEN {item(k, <<>>, NoName)}
                         ELSE {item(k, t.imports[b], <<b>>) : b \in met(k)}
             g == [k \in S |-> items(k)]
  <2>1. IsFiniteSet(S)
    BY <1>0, FS_Subset
  <2>2. ASSUME NEW k \in S PROVE IsFiniteSet(items(k))
    <3> DEFINE h == [b \in met(k) |-> item(k, t.imports[b], <<b>>)]
    <3>1. IsFiniteSet(met(k))
      <4>1. met(k) \in SUBSET DOMAIN t.imports
        BY DEF ImportedBases
      <4> QED BY <1>0, <4>1, FS_Subset
    <3>2. {item(k, t.imports[b], <<b>>) : b \in met(k)} = {h[b] : b \in met(k)}
      OBVIOUS
    <3>3. IsFiniteSet({h[b] : b \in met(k)})
      <4> HIDE DEF h, met
      <4> QED BY <3>1, FiniteImage
    <3> HIDE DEF h, met, item
    <3> QED BY <3>2, <3>3, FS_Singleton, FS_EmptySet
  <2>3. SelfItems(f, t) = UNION {g[k] : k \in S}
    <3>1. SelfItems(f, t) = UNION {items(k) : k \in S}
      BY Zenon DEF SelfItems
    <3>2. {items(k) : k \in S} = {g[k] : k \in S}
      <4> HIDE DEF S, items
      <4> QED OBVIOUS
    <3> QED BY <3>1, <3>2
  <2>4. \A k \in S : IsFiniteSet(g[k])
    BY <2>2
  <2> HIDE DEF S, g
  <2> QED BY <2>1, <2>3, <2>4, FiniteFamily
<1>5. IsFiniteSet((CallItems(f, t) \cup InheritItems(f, t)) \cup OverrideItems(f, t))
  BY <1>1, <1>2, <1>3, FS_Union
<1> QED BY <1>4, <1>5, FS_Union DEF DeferredItems

LEMMA CandidatesAreSymbols ==
    ASSUME NEW ids, NEW item
    PROVE  Candidates(ids, item) \subseteq ids
  BY DEF Candidates, Named, ImportedMethods

LEMMA FiniteRowsOf ==
    ASSUME NEW f \in Files, NEW t \in DOMAIN Text, NEW ids, IsFiniteSet(ids)
    PROVE  IsFiniteSet(DOMAIN RowsOf(f, t, ids))
<1> DEFINE items == Deferred[f][t]
           all == Local[f][t] \cup UNION {Resolved(ids, item) : item \in items}
<1>0. WellFormed(Text[t]) /\ Local[f][t] = LocalRows(f, Text[t]) /\ items = DeferredItems(f, Text[t])
  BY TextAssumption DEF Local, Deferred
<1>1. IsFiniteSet(Local[f][t]) /\ IsFiniteSet(items)
  BY <1>0, FiniteLocalRows, FiniteItems
<1>2. ASSUME NEW item PROVE IsFiniteSet(Resolved(ids, item))
  <2> DEFINE found == Candidates(ids, item)
             g == [i \in found |-> Relation(item.source, i, item.predicate, item.site, Certainty(found),
                                            "tree-sitter")]
  <2>1. IsFiniteSet(found)
    BY CandidatesAreSymbols, FS_Subset
  <2>2. Resolved(ids, item) = {g[i] : i \in found}
    BY DEF Resolved
  <2> HIDE DEF found, g
  <2> QED BY <2>1, <2>2, FiniteImage
<1>3. IsFiniteSet(UNION {Resolved(ids, item) : item \in items})
  <2> DEFINE g == [item \in items |-> Resolved(ids, item)]
  <2>1. {Resolved(ids, item) : item \in items} = {g[item] : item \in items}
    OBVIOUS
  <2>2. \A item \in items : IsFiniteSet(g[item])
    BY <1>2
  <2> HIDE DEF g, items
  <2>3. IsFiniteSet(UNION {g[item] : item \in items})
    BY <1>1, <2>2, FiniteFamily
  <2> QED BY <2>1, <2>3
<1>4. IsFiniteSet(all)
  BY <1>1, <1>3, FS_Union
<1> DEFINE g == [r \in all |-> Key(r)]
<1>5. DOMAIN RowsOf(f, t, ids) = {g[r] : r \in all}
  BY DEF RowsOf, RelationRows
<1> HIDE DEF all, g
<1> QED BY <1>4, <1>5, FiniteImage

-----------------------------------------------------------------------------
(* Differences add up to a rebuild *)

Enriched == {"lsp", "stub"}

\* A row of the text is live and no less certain than the text has it, or it was
\* a candidate, and was retired.
RowKept(d, k, confidence) ==
    \/ k \in Relations(d) /\ Rank(d.relations.live[k].confidence) <= Rank(confidence)
    \/ confidence = "AMBIGUOUS" /\ k \in DOMAIN d.relations.snap

SymbolsFollow(d, f, t) ==
    /\ InFile(d, f) = SymbolIdsOf(f, Text[t])
    /\ \A i \in InFile(d, f) : d.symbols.live[i] = SymbolRows(Symbols(f, Text[t]))[i]

RowsFollow(d, f, t) ==
    LET rows == RowsOf(f, t, SymbolIds(d))
    IN  /\ \A k \in ExtractedBy(d, f) : k \in DOMAIN rows /\ d.relations.live[k] = rows[k]
        /\ \A k \in DOMAIN rows : RowKept(d, k, rows[k].confidence)

\* What index d has of file f is what the text t says.
Follows(d, f, t, known) ==
    IF t = Gone THEN InFile(d, f) = {} /\ ExtractedBy(d, f) = {}
    ELSE SymbolsFollow(d, f, t) /\ (known => RowsFollow(d, f, t))

\* Extraction infers nothing: an inferred row is an answer of a pass.
InferredIsEnriched(d) ==
    \A k \in Relations(d) : d.relations.live[k].confidence = "INFERRED"
                               => d.relations.live[k].provider \in Enriched

FiniteTables(d) == IsFiniteSet(SymbolIds(d)) /\ IsFiniteSet(Relations(d))

Answers(s) ==
    LET answers == {s[i] : i \in DOMAIN s}
    IN  s \in Seq(answers) /\ \A m \in answers : m.fact.provider \in Enriched

HuskIsIndexed ==
    /\ husk # NoFile => husk \in Files /\ indexed[husk] = "husk"
    /\ \A f \in Files : indexed[f] = "husk" => f \in settled

IndexFollows == \A f \in Files : Follows(db, f, indexed[f], f \in settled)

RebuiltInv == /\ IndexFollows /\ InferredIsEnriched(db) /\ FiniteTables(db)
              /\ HuskIsIndexed /\ Answers(merges)

SameCandidates(f, t, before, after) ==
    \A item \in Deferred[f][t] : Candidates(before, item) = Candidates(after, item)

LEMMA Ranks ==
    /\ Rank("EXTRACTED") = 0 /\ Rank("INFERRED") = 1 /\ Rank("AMBIGUOUS") = 2
    /\ \A c : Rank(c) \in Int /\ Rank(c) <= 2
  BY RankBound DEF Rank

\* The file of an index job.
LEMMA CommitFollows ==
    ASSUME NEW d, TablesOK(d), InferredIsEnriched(d), FiniteTables(d),
           NEW f \in Files, NEW t \in DOMAIN Text, NEW prune, NEW e, e = Committed(d, f, t, prune)
    PROVE  /\ SymbolsFollow(e, f, t)
           /\ SameCandidates(f, t, SymbolIds(d), SymbolIds(e)) => RowsFollow(e, f, t)
           /\ InferredIsEnriched(e) /\ FiniteTables(e)
<1> DEFINE symbols == SymbolRows(Symbols(f, Text[t]))
           rows == RowsOf(f, t, SymbolIds(d))
           removed == InFile(d, f) \ DOMAIN symbols
<1>1. /\ SymbolIds(e) = (SymbolIds(d) \cup DOMAIN symbols) \ removed
      /\ \A i \in SymbolIds(e) :
            e.symbols.live[i] = IF i \in DOMAIN symbols THEN symbols[i] ELSE d.symbols.live[i]
      /\ \A k : k \in Relations(e) <=>
            /\ k.target \notin removed
            /\ \/ k \in DOMAIN rows
               \/ /\ k \in Relations(d)
                  /\ \/ k.site.file # f
                     \/ ~prune /\ d.relations.live[k].confidence = "INFERRED"
      /\ \A k \in Relations(e) :
            e.relations.live[k] = IF k \in DOMAIN rows THEN rows[k] ELSE d.relations.live[k]
  BY CommitRows
<1>2. DOMAIN symbols = SymbolIdsOf(f, Text[t])
  BY DEF SymbolRows, SymbolIdsOf
<1>3. \A k \in DOMAIN rows : /\ k.site.file = f
                             /\ rows[k].confidence \in {"EXTRACTED", "AMBIGUOUS"}
                             /\ rows[k].provider \notin Enriched
  BY RowsOfText DEF Enriched
<1>4. SymbolsFollow(e, f, t)
  <2>1. \A i \in DOMAIN symbols : i.file = f
    BY <1>2, SymbolFile
  <2>2. InFile(e, f) = DOMAIN symbols
    BY <1>1, <2>1 DEF InFile
  <2>3. \A i \in InFile(e, f) : e.symbols.live[i] = symbols[i]
    BY <1>1, <2>2 DEF InFile
  <2> QED BY <1>2, <2>2, <2>3 DEF SymbolsFollow
<1>5. ASSUME SameCandidates(f, t, SymbolIds(d), SymbolIds(e)) PROVE RowsFollow(e, f, t)
  <2>1. RowsOf(f, t, SymbolIds(e)) = rows
    BY <1>5, SameCandidatesSameRows DEF SameCandidates
  <2>2. ASSUME NEW k \in ExtractedBy(e, f)
        PROVE  k \in DOMAIN rows /\ e.relations.live[k] = rows[k]
    <3>1. k \in Relations(e) /\ k.site.file = f /\ e.relations.live[k].provider \notin Enriched
      BY DEF ExtractedBy, Enriched
    <3>2. k \notin DOMAIN rows => /\ k \in Relations(d) /\ d.relations.live[k].confidence = "INFERRED"
                                  /\ e.relations.live[k] = d.relations.live[k]
      <4> HIDE DEF rows, removed, symbols
      <4> QED BY <1>1, <3>1
    <3>3. k \in DOMAIN rows
      BY <3>1, <3>2 DEF InferredIsEnriched
    <3> HIDE DEF rows, removed, symbols
    <3> QED BY <1>1, <3>1, <3>3
  <2>3. ASSUME NEW k \in DOMAIN rows
        PROVE  RowKept(e, k, rows[k].confidence)
    <3>1. k.target \in SymbolIds(e) \cup DOMAIN symbols
      BY <1>2, <2>1, RowTargets
    <3>2. k.target \notin removed
      BY <1>1, <3>1
    <3> HIDE DEF rows, removed, symbols
    <3>3. k \in Relations(e) /\ e.relations.live[k] = rows[k]
      BY <1>1, <3>2
    <3> QED BY <3>3, Ranks DEF RowKept
  <2> QED BY <2>1, <2>2, <2>3 DEF RowsFollow
<1>6. InferredIsEnriched(e)
  <2> HIDE DEF rows, removed, symbols
  <2> QED BY <1>1, <1>3 DEF InferredIsEnriched
<1>7. FiniteTables(e)
  <2>1. IsFiniteSet(DOMAIN symbols) /\ IsFiniteSet(DOMAIN rows)
    BY <1>2, FiniteSymbols, FiniteRowsOf, TextAssumption DEF FiniteTables
  <2> HIDE DEF rows, removed, symbols
  <2>2. IsFiniteSet(SymbolIds(d) \cup DOMAIN symbols) /\ IsFiniteSet(Relations(d) \cup DOMAIN rows)
    BY <2>1, FS_Union DEF FiniteTables
  <2>3. SymbolIds(e) \subseteq SymbolIds(d) \cup DOMAIN symbols /\ Relations(e) \subseteq Relations(d) \cup DOMAIN rows
    BY <1>1
  <2> QED BY <2>2, <2>3, FS_Subset DEF FiniteTables
<1> QED BY <1>4, <1>5, <1>6, <1>7

\* Every other file.
LEMMA CommitElsewhere ==
    ASSUME NEW d, TablesOK(d), NEW f \in Files, NEW t \in DOMAIN Text, NEW prune,
           NEW e, e = Committed(d, f, t, prune),
           NEW g \in Files, g # f, NEW u \in DOMAIN Text \cup {Gone},
           NEW known \in BOOLEAN, NEW still \in BOOLEAN, Follows(d, g, u, known),
           still => known /\ (u # Gone => SameCandidates(g, u, SymbolIds(d), SymbolIds(e)))
    PROVE  Follows(e, g, u, still)
<1> DEFINE symbols == SymbolRows(Symbols(f, Text[t]))
           rows == RowsOf(f, t, SymbolIds(d))
           removed == InFile(d, f) \ DOMAIN symbols
<1>1. /\ SymbolIds(e) = (SymbolIds(d) \cup DOMAIN symbols) \ removed
      /\ \A i \in SymbolIds(e) :
            e.symbols.live[i] = IF i \in DOMAIN symbols THEN symbols[i] ELSE d.symbols.live[i]
      /\ \A k : k \in Relations(e) <=>
            /\ k.target \notin removed
            /\ \/ k \in DOMAIN rows
               \/ /\ k \in Relations(d)
                  /\ \/ k.site.file # f
                     \/ ~prune /\ d.relations.live[k].confidence = "INFERRED"
      /\ \A k \in Relations(e) :
            e.relations.live[k] = IF k \in DOMAIN rows THEN rows[k] ELSE d.relations.live[k]
      /\ DOMAIN d.relations.snap \subseteq DOMAIN e.relations.snap
  BY CommitRows
<1>2. DOMAIN symbols = SymbolIdsOf(f, Text[t])
  BY DEF SymbolRows, SymbolIdsOf
<1>3. \A i \in DOMAIN symbols : i.file = f
  BY <1>2, SymbolFile
<1>4. \A k \in DOMAIN rows : k.site.file = f
  BY RowsOfText
<1>5. \A i \in removed : i.file = f
  BY DEF InFile
<1> HIDE DEF rows, removed, symbols
<1>6. InFile(e, g) = InFile(d, g) /\ \A i \in InFile(e, g) : e.symbols.live[i] = d.symbols.live[i]
  BY <1>1, <1>3, <1>5 DEF InFile
<1>7. \A k \in ExtractedBy(e, g) : k \in ExtractedBy(d, g) /\ e.relations.live[k] = d.relations.live[k]
  BY <1>1, <1>4 DEF ExtractedBy
<1>8. CASE u = Gone
  BY <1>6, <1>7, <1>8 DEF Follows
<1>9. CASE u # Gone
  <2>1. SymbolsFollow(e, g, u)
    BY <1>6, <1>9 DEF Follows, SymbolsFollow
  <2>2. ASSUME still PROVE RowsFollow(e, g, u)
    <3> DEFINE own == RowsOf(g, u, SymbolIds(d))
    <3>1. u \in DOMAIN Text /\ RowsFollow(d, g, u)
      BY <1>9, <2>2 DEF Follows
    <3>2. RowsOf(g, u, SymbolIds(e)) = own
      BY <1>9, <2>2, SameCandidatesSameRows DEF SameCandidates
    <3>3. \A k \in ExtractedBy(e, g) : k \in DOMAIN own /\ e.relations.live[k] = own[k]
      BY <1>7, <3>1 DEF RowsFollow
    <3>4. ASSUME NEW k \in DOMAIN own PROVE RowKept(e, k, own[k].confidence)
      <4>1. RowKept(d, k, own[k].confidence)
        BY <3>1 DEF RowsFollow
      <4>2. k.site.file = g
        BY <3>1, RowsOfText
      <4>3. k.target \in SymbolIds(e) \cup SymbolIdsOf(g, Text[u])
        BY <3>1, <3>2, RowTargets
      <4>4. k.target \notin removed
        BY <1>1, <1>5, <4>3, SymbolFile
      <4>5. k \in Relations(d) => k \in Relations(e) /\ e.relations.live[k] = d.relations.live[k]
        BY <1>1, <1>4, <4>2, <4>4
      <4> QED BY <1>1, <4>1, <4>5 DEF RowKept
    <3> QED BY <3>2, <3>3, <3>4 DEF RowsFollow
  <2> QED BY <1>9, <2>1, <2>2 DEF Follows
<1> QED BY <1>8, <1>9

\* e is d after an answer that is not refused, of a pass; after the removal of
\* a candidate; after the removal of the module of a deleted file.
Merged(d, e, k, row) ==
    /\ DOMAIN row = {k} /\ row[k].provider \in Enriched
    /\ k \in Relations(d) => ~(Rank(row[k].confidence) > Rank(d.relations.live[k].confidence))
    /\ e.symbols = d.symbols /\ e.relations = Put(d.relations, row)
Retired(d, e, k) ==
    /\ k \in Relations(d) /\ d.relations.live[k].confidence = "AMBIGUOUS"
    /\ e.symbols = d.symbols /\ e.relations = Drop(d.relations, {k})
Cleared(d, e, f) ==
    /\ \A i \in InFile(d, f) : i.kind = "module"
    /\ e = [symbols |-> Drop(d.symbols, InFile(d, f)), relations |-> d.relations]

LEMMA MergeFollows ==
    ASSUME NEW d, TablesOK(d), NEW k, NEW row, NEW e, Merged(d, e, k, row),
           NEW g \in Files, NEW u, NEW known \in BOOLEAN, Follows(d, g, u, known)
    PROVE  Follows(e, g, u, known)
<1>1. /\ SymbolIds(e) = SymbolIds(d)
      /\ Relations(e) = Relations(d) \cup {k}
      /\ e.relations.live[k] = row[k]
      /\ \A l \in Relations(d) \ {k} : e.relations.live[l] = d.relations.live[l]
      /\ DOMAIN d.relations.snap \subseteq DOMAIN e.relations.snap
  BY PutTable DEF Merged, TablesOK, SymbolIds, Relations
<1>2. InFile(e, g) = InFile(d, g)
  BY <1>1 DEF InFile
<1>3. \A l \in ExtractedBy(e, g) : l \in ExtractedBy(d, g) /\ e.relations.live[l] = d.relations.live[l]
  BY <1>1 DEF ExtractedBy, Enriched, Merged
<1>4. ASSUME RowsFollow(d, g, u) PROVE RowsFollow(e, g, u)
  <2> DEFINE own == RowsOf(g, u, SymbolIds(d))
  <2>1. \A l \in ExtractedBy(e, g) : l \in DOMAIN own /\ e.relations.live[l] = own[l]
    BY <1>3, <1>4 DEF RowsFollow
  <2>2. ASSUME NEW l \in DOMAIN own PROVE RowKept(e, l, own[l].confidence)
    <3>1. RowKept(d, l, own[l].confidence)
      BY <1>4 DEF RowsFollow
    <3> HIDE DEF own
    <3>2. CASE l # k
      BY <1>1, <3>1, <3>2 DEF RowKept
    <3>3. CASE l = k
      BY <1>1, <3>1, <3>3, Ranks DEF RowKept, Merged
    <3> QED BY <3>2, <3>3
  <2> QED BY <1>1, <2>1, <2>2 DEF RowsFollow
<1> QED BY <1>1, <1>2, <1>3, <1>4 DEF Follows, SymbolsFollow, Merged

LEMMA RetireFollows ==
    ASSUME NEW d, TablesOK(d), NEW k, NEW e, Retired(d, e, k),
           NEW g \in Files, NEW u \in DOMAIN Text \cup {Gone}, NEW known \in BOOLEAN,
           Follows(d, g, u, known)
    PROVE  Follows(e, g, u, known)
<1>1. /\ SymbolIds(e) = SymbolIds(d)
      /\ Relations(e) = Relations(d) \ {k}
      /\ \A l \in Relations(e) : e.relations.live[l] = d.relations.live[l]
      /\ e.relations.snap = d.relations.snap
  BY RetireRow DEF Retired
<1>2. InFile(e, g) = InFile(d, g)
  BY <1>1 DEF InFile
<1>3. \A l \in ExtractedBy(e, g) : l \in ExtractedBy(d, g) /\ e.relations.live[l] = d.relations.live[l]
  BY <1>1 DEF ExtractedBy
<1>4. ASSUME u \in DOMAIN Text, RowsFollow(d, g, u) PROVE RowsFollow(e, g, u)
  <2> DEFINE own == RowsOf(g, u, SymbolIds(d))
  <2>1. \A l \in ExtractedBy(e, g) : l \in DOMAIN own /\ e.relations.live[l] = own[l]
    BY <1>3, <1>4 DEF RowsFollow
  <2>2. ASSUME NEW l \in DOMAIN own PROVE RowKept(e, l, own[l].confidence)
    <3>1. RowKept(d, l, own[l].confidence)
      BY <1>4 DEF RowsFollow
    <3>2. own[l].confidence \in {"EXTRACTED", "AMBIGUOUS"}
      BY <1>4, RowsOfText
    <3> HIDE DEF own
    <3>3. CASE l # k
      BY <1>1, <3>1, <3>3 DEF RowKept
    <3>4. CASE l = k
      <4>1. k \in DOMAIN d.relations.snap
        BY DEF Retired, TablesOK, TableOK, Relations
      <4> QED BY <1>1, <3>1, <3>2, <3>4, <4>1, Ranks DEF Retired, RowKept
    <3> QED BY <3>3, <3>4
  <2> QED BY <1>1, <2>1, <2>2 DEF RowsFollow
<1> QED BY <1>1, <1>2, <1>3, <1>4 DEF Follows, SymbolsFollow, Retired

\* No other file's rows depend on the module of a deleted file.
LEMMA ClearFollows ==
    ASSUME NEW d, TablesOK(d), NEW f \in Files, NEW e, Cleared(d, e, f)
    PROVE  /\ RowsFollow(d, f, "husk") => InFile(e, f) = {} /\ ExtractedBy(e, f) = {}
           /\ \A g \in Files \ {f} : \A u, known :
                 Follows(d, g, u, known) => Follows(e, g, u, known)
<1>1. /\ SymbolIds(e) = SymbolIds(d) \ InFile(d, f)
      /\ \A i \in SymbolIds(e) : e.symbols.live[i] = d.symbols.live[i]
      /\ e.relations = d.relations /\ Relations(e) = Relations(d)
  BY ClearModule DEF Cleared
<1>2. \A g : ExtractedBy(e, g) = ExtractedBy(d, g)
  BY <1>1 DEF ExtractedBy
<1>3. ASSUME RowsFollow(d, f, "husk") PROVE InFile(e, f) = {} /\ ExtractedBy(e, f) = {}
  <2>1. ExtractedBy(d, f) = {}
    BY <1>3, EmptyTextHasNoRows DEF RowsFollow
  <2>2. InFile(e, f) = {}
    BY <1>1 DEF InFile
  <2> QED BY <1>2, <2>1, <2>2
<1>4. ASSUME NEW g \in Files \ {f}, NEW u, NEW known, Follows(d, g, u, known)
      PROVE  Follows(e, g, u, known)
  <2>1. InFile(e, g) = InFile(d, g) /\ \A i \in InFile(e, g) : e.symbols.live[i] = d.symbols.live[i]
    BY <1>1 DEF InFile
  <2>2. RowsOf(g, u, SymbolIds(e)) = RowsOf(g, u, SymbolIds(d))
    <3> DEFINE gone == InFile(d, f)
    <3>1. SymbolIds(e) = SymbolIds(d) \ gone /\ \A i \in gone : i.kind = "module"
      BY <1>1 DEF Cleared
    <3> HIDE DEF gone
    <3>2. ASSUME NEW item PROVE Candidates(SymbolIds(e), item) = Candidates(SymbolIds(d), item)
      BY <3>1, CandidatesAreNoModules
    <3> QED BY <3>2, SameCandidatesSameRows
  <2>3. RowsFollow(d, g, u) => RowsFollow(e, g, u)
    BY <1>1, <1>2, <2>2 DEF RowsFollow, RowKept
  <2> QED BY <1>2, <1>4, <2>1, <2>3 DEF Follows, SymbolsFollow
<1> QED BY <1>3, <1>4

LEMMA OrderedIsSeq ==
    ASSUME NEW S, IsFiniteSet(S)
    PROVE  Ordered(S) \in Seq(S)
<1> DEFINE n == Cardinality(S)
<1>1. n \in Nat /\ Surjection(1..n, S) # {}
  BY FS_CardinalityType DEF ExistsBijection, Bijection
<1>2. PICK s \in Surjection(1..n, S) : TRUE
  BY <1>1
<1>3. \E s1 \in [1..n -> S] : \A x \in S : \E i \in DOMAIN s1 : s1[i] = x
  BY <1>2 DEF Surjection
<1>4. Ordered(S) \in [1..n -> S]
  BY <1>3 DEF Ordered
<1> QED BY <1>1, <1>4

LEMMA AnswersFrom ==
    ASSUME NEW T, NEW s \in Seq(T), \A m \in T : m.fact.provider \in Enriched
    PROVE  Answers(s)
<1>1. s \in [1..Len(s) -> T] /\ Len(s) \in Nat /\ DOMAIN s = 1..Len(s)
  OBVIOUS
<1> DEFINE answers == {s[i] : i \in DOMAIN s}
<1>2. s \in [1..Len(s) -> answers]
  BY <1>1
<1>3. s \in Seq(answers)
  BY <1>1, <1>2
<1>4. \A m \in answers : m \in T
  BY <1>1
<1> QED BY <1>3, <1>4 DEF Answers

LEMMA AnswersConcat ==
    ASSUME NEW s, Answers(s), NEW T, NEW u \in Seq(T), \A m \in T : m.fact.provider \in Enriched
    PROVE  Answers(s \o u)
<1> DEFINE answers == {s[i] : i \in DOMAIN s}
<1>1. s \in Seq(answers) /\ \A m \in answers \cup T : m.fact.provider \in Enriched
  BY DEF Answers
<1> HIDE DEF answers
<1>2. s \in Seq(answers \cup T) /\ u \in Seq(answers \cup T)
  BY <1>1
<1>3. s \o u \in Seq(answers \cup T)
  BY <1>2, ConcatProperties
<1> QED BY <1>1, <1>3, AnswersFrom

LEMMA AnswersAppend ==
    ASSUME NEW s, Answers(s), NEW m, m.fact.provider \in Enriched
    PROVE  Answers(Append(s, m))
<1> DEFINE answers == {s[i] : i \in DOMAIN s}
<1>1. s \in Seq(answers) /\ \A x \in answers \cup {m} : x.fact.provider \in Enriched
  BY DEF Answers
<1> HIDE DEF answers
<1>2. s \in Seq(answers \cup {m})
  BY <1>1
<1>3. Append(s, m) \in Seq(answers \cup {m})
  BY <1>2, AppendProperties
<1> QED BY <1>1, <1>3, AnswersFrom

LEMMA AnswersTail ==
    ASSUME NEW s, Answers(s), s # <<>>
    PROVE  Answers(Tail(s)) /\ Head(s).fact.provider \in Enriched
<1> DEFINE answers == {s[i] : i \in DOMAIN s}
<1>1. s \in Seq(answers) /\ \A x \in answers : x.fact.provider \in Enriched
  BY DEF Answers
<1> HIDE DEF answers
<1>2. Head(s) \in answers /\ Tail(s) \in Seq(answers)
  BY <1>1, HeadTailProperties
<1> QED BY <1>1, <1>2, AnswersFrom

\* What a pass submits without the server is finite, and says that it is a pass's.
LEMMA StubMergesAreAnswers ==
    ASSUME NEW d, FiniteTables(d), NEW files
    PROVE  IsFiniteSet(StubMerges(d, files)) /\ \A m \in StubMerges(d, files) : m.fact.provider \in Enriched
<1> DEFINE calls == {k \in CallsIn(d, files) : IsStub(d, k.target)}
           impls(k) == Implementations(d, k.target)
           merge(k, i) == Merge([k EXCEPT !.target = i], Fact(Guess(impls(k)), "stub"), FALSE, {}, TRUE)
           g == [k \in calls |-> {merge(k, i) : i \in impls(k)}]
<1>1. IsFiniteSet(calls)
  <2>1. calls \in SUBSET Relations(d)
    BY DEF CallsIn
  <2> QED BY <2>1, FS_Subset DEF FiniteTables
<1>2. StubMerges(d, files) = UNION {g[k] : k \in calls}
  <2>1. StubMerges(d, files) = UNION {{merge(k, i) : i \in impls(k)} : k \in calls}
    BY Zenon DEF StubMerges
  <2>2. {{merge(k, i) : i \in impls(k)} : k \in calls} = {g[k] : k \in calls}
    <3> HIDE DEF calls, impls, merge
    <3> QED OBVIOUS
  <2> QED BY <2>1, <2>2
<1>3. ASSUME NEW k \in calls PROVE IsFiniteSet(g[k])
  <2> DEFINE h == [i \in impls(k) |-> merge(k, i)]
  <2>1. impls(k) \in SUBSET SymbolIds(d)
    BY DEF Implementations, Member, Named
  <2>2. IsFiniteSet(impls(k))
    BY <2>1, FS_Subset DEF FiniteTables
  <2>3. g[k] = {h[i] : i \in impls(k)}
    <3> HIDE DEF calls, impls, merge
    <3> QED OBVIOUS
  <2> HIDE DEF g, h, impls
  <2> QED BY <2>2, <2>3, FiniteImage
<1>4. \A k, i : merge(k, i).fact.provider \in Enriched
  BY DEF Merge, Fact, Enriched
<1>5. \A k \in calls : \A m \in g[k] : m.fact.provider \in Enriched
  <2> HIDE DEF calls, impls, merge
  <2> QED BY <1>4
<1> HIDE DEF calls, g
<1>6. IsFiniteSet(UNION {g[k] : k \in calls})
  BY <1>1, <1>3, FiniteFamily
<1> QED BY <1>2, <1>5, <1>6

LEMMA MixinMergesAreAnswers ==
    ASSUME FiniteTables(db), NEW s
    PROVE  LET found == Composed(db, s)
               T == {Merge(KeyAt(s, i), Fact(Guess(found), "lsp"), TRUE, found, FALSE) : i \in found}
           IN  IsFiniteSet(T) /\ \A m \in T : m.fact.provider \in Enriched
<1> DEFINE found == Composed(db, s)
           merge(i) == Merge(KeyAt(s, i), Fact(Guess(found), "lsp"), TRUE, found, FALSE)
           h == [i \in found |-> merge(i)]
           T == {merge(i) : i \in found}
<1>1. found \in SUBSET SymbolIds(db)
  BY DEF Composed, Member, Named
<1>2. IsFiniteSet(found)
  BY <1>1, FS_Subset DEF FiniteTables
<1>3. T = {h[i] : i \in found}
  <2> HIDE DEF found, merge
  <2> QED OBVIOUS
<1>4. \A i : merge(i).fact.provider \in Enriched
  BY DEF Merge, Fact, Enriched
<1>5. IsFiniteSet(T)
  <2> HIDE DEF T, h, found
  <2> QED BY <1>2, <1>3, FiniteImage
<1>6. \A m \in T : m.fact.provider \in Enriched
  <2> HIDE DEF found, merge
  <2> QED BY <1>4
<1> QED BY <1>5, <1>6

LEMMA IndexRebuilds ==
    ASSUME TypeOK, RebuiltInv,
           NEW f \in Files, NEW t \in DOMAIN Text, NEW prune \in BOOLEAN, IndexFile(f, t, prune)
    PROVE  RebuiltInv'
<1>1. /\ TablesOK(db) /\ settled \subseteq Files
      /\ \A g \in Files : indexed[g] \in DOMAIN Text \cup {Gone}
      /\ t # Gone
  BY HuskAssumption DEF TypeOK, TablesOK, Gone
<1>2. /\ db' = Committed(db, f, t, prune)
      /\ husk' = IF t = "husk" THEN f ELSE NoFile
      /\ indexed' = [indexed EXCEPT ![f] = t]
      /\ settled' = Settling(f, t, SymbolIds(db), SymbolIds(db'))
      /\ merges' = merges
  BY DEF IndexFile
<1>3. indexed'[f] = t /\ \A g \in Files \ {f} : indexed'[g] = indexed[g]
  BY <1>2 DEF TypeOK
<1>4. /\ IndexFollows /\ InferredIsEnriched(db) /\ FiniteTables(db)
      /\ HuskIsIndexed /\ Answers(merges)
  BY DEF RebuiltInv
<1>5. /\ SymbolsFollow(db', f, t)
      /\ SameCandidates(f, t, SymbolIds(db), SymbolIds(db')) => RowsFollow(db', f, t)
      /\ InferredIsEnriched(db') /\ FiniteTables(db')
  BY <1>1, <1>2, <1>4, CommitFollows
<1>6. f \in settled' => SameCandidates(f, t, SymbolIds(db), SymbolIds(db'))
  BY <1>1, <1>2 DEF Settling, SameCandidates
<1>7. ASSUME NEW g \in Files \ {f}, g \in settled'
      PROVE  g \in settled /\ (indexed[g] # Gone =>
                                  SameCandidates(g, indexed[g], SymbolIds(db), SymbolIds(db')))
  BY <1>2, <1>7 DEF Settling, SameCandidates
<1>8. Follows(db', f, t, f \in settled')
  BY <1>1, <1>5, <1>6 DEF Follows
<1>9. ASSUME NEW g \in Files \ {f} PROVE Follows(db', g, indexed[g], g \in settled')
  <2>1. Follows(db, g, indexed[g], g \in settled)
    BY <1>4 DEF IndexFollows
  <2> DEFINE e == db'
             known == g \in settled
             still == g \in settled'
  <2>2. /\ still => known /\ (indexed[g] # Gone => SameCandidates(g, indexed[g], SymbolIds(db), SymbolIds(e)))
        /\ known \in BOOLEAN /\ still \in BOOLEAN
    BY <1>7
  <2>3. e = Committed(db, f, t, prune) /\ Follows(db, g, indexed[g], known)
    BY <1>2, <2>1
  <2> HIDE DEF e, known, still
  <2>4. Follows(e, g, indexed[g], still)
    BY <1>1, <2>2, <2>3, CommitElsewhere
  <2> QED BY <2>4 DEF e, still
<1>10. IndexFollows'
  BY <1>3, <1>8, <1>9 DEF IndexFollows
<1>11. HuskIsIndexed'
  <2>1. husk' # NoFile => husk' \in Files /\ indexed'[husk'] = "husk"
    BY <1>2, <1>3
  <2>2. ASSUME NEW g \in Files, indexed'[g] = "husk" PROVE g \in settled'
    <3>1. g \in settled \cup {f}
      BY <1>3, <1>4, <2>2 DEF HuskIsIndexed
    <3>2. "husk" = IF g = f THEN t ELSE indexed[g]
      BY <1>3, <2>2
    <3>3. Deferred[g]["husk"] = {}
      BY EmptyTextHasNoRows
    <3> QED BY <1>2, <3>1, <3>2, <3>3 DEF Settling
  <2> QED BY <2>1, <2>2 DEF HuskIsIndexed
<1> QED BY <1>2, <1>4, <1>5, <1>10, <1>11 DEF RebuiltInv

LEMMA ClearRebuilds ==
    ASSUME TypeOK, HuskIsModule, RebuiltInv, ClearHusk
    PROVE  RebuiltInv'
<1>1. /\ TablesOK(db) /\ husk # NoFile /\ husk' = NoFile
      /\ db' = [symbols |-> Drop(db.symbols, InFile(db, husk)), relations |-> db.relations]
      /\ indexed' = [indexed EXCEPT ![husk] = Gone]
      /\ settled' = settled /\ merges' = merges
  BY DEF ClearHusk, TypeOK, TablesOK
<1>2. /\ IndexFollows /\ InferredIsEnriched(db) /\ FiniteTables(db)
      /\ HuskIsIndexed /\ Answers(merges)
  BY DEF RebuiltInv
<1>3. husk \in Files /\ indexed[husk] = "husk" /\ husk \in settled
  BY <1>1, <1>2 DEF HuskIsIndexed
<1>4. indexed'[husk] = Gone /\ \A g \in Files \ {husk} : indexed'[g] = indexed[g]
  BY <1>1, <1>3 DEF TypeOK
<1>5. RowsFollow(db, husk, "husk")
  BY <1>2, <1>3 DEF IndexFollows, Follows, Gone
<1>6. Cleared(db, db', husk)
  BY <1>1 DEF HuskIsModule, Cleared
<1>7. InFile(db', husk) = {} /\ ExtractedBy(db', husk) = {}
  BY <1>1, <1>3, <1>5, <1>6, ClearFollows
<1>8. \A g \in Files \ {husk} : Follows(db', g, indexed[g], g \in settled)
  <2>1. \A g \in Files \ {husk} : \A u, known : Follows(db, g, u, known) => Follows(db', g, u, known)
    BY <1>1, <1>3, <1>6, ClearFollows
  <2> QED BY <1>2, <2>1 DEF IndexFollows
<1>9. IndexFollows'
  BY <1>1, <1>4, <1>7, <1>8 DEF IndexFollows, Follows
<1>10. HuskIsIndexed'
  BY <1>1, <1>2, <1>4 DEF HuskIsIndexed, Gone
<1>11. /\ db'.relations = db.relations /\ Relations(db') = Relations(db)
       /\ SymbolIds(db') \subseteq SymbolIds(db)
  BY <1>1, ClearModule
<1>12. InferredIsEnriched(db') /\ FiniteTables(db')
  BY <1>2, <1>11, FS_Subset DEF InferredIsEnriched, FiniteTables
<1> QED BY <1>1, <1>2, <1>9, <1>10, <1>12 DEF RebuiltInv

LEMMA MergeRebuilds ==
    ASSUME TypeOK, RebuiltInv, ApplyMerge
    PROVE  RebuiltInv'
<1> DEFINE m == Head(merges)
<1>1. /\ TablesOK(db) /\ merges # <<>>
      /\ UNCHANGED <<husk, indexed, settled>> /\ merges' = Tail(merges)
  BY DEF ApplyMerge, TypeOK, TablesOK
<1>2. /\ IndexFollows /\ InferredIsEnriched(db) /\ FiniteTables(db)
      /\ HuskIsIndexed /\ Answers(merges)
  BY DEF RebuiltInv
<1>3. Answers(merges') /\ m.fact.provider \in Enriched
  BY <1>1, <1>2, AnswersTail
<1>4. HuskIsIndexed'
  BY <1>1, <1>2 DEF HuskIsIndexed
<1>5. CASE Refused(db, m)
  <2>1. db' = db
    BY <1>5 DEF ApplyMerge
  <2> QED BY <1>1, <1>2, <1>3, <1>4, <2>1 DEF RebuiltInv, IndexFollows
<1>6. CASE ~Refused(db, m)
  <2> DEFINE k == m.key
             row == [l \in {k} |-> m.fact]
  <2>1. /\ DOMAIN row = {k} /\ row[k] = m.fact
        /\ db'.symbols = db.symbols /\ db'.relations = Put(db.relations, row)
    BY <1>6 DEF ApplyMerge
  <2>2. row[k].provider \in Enriched /\ Merged(db, db', k, row)
    BY <1>3, <1>6, <2>1 DEF Refused, Merged
  <2> HIDE DEF m, k, row
  <2>3. ASSUME NEW g \in Files PROVE Follows(db', g, indexed[g], g \in settled)
    <3> DEFINE known == g \in settled
               u == indexed[g]
    <3>1. Follows(db, g, u, known) /\ known \in BOOLEAN
      BY <1>2 DEF IndexFollows
    <3> HIDE DEF known, u
    <3>2. Follows(db', g, u, known)
      BY <1>1, <2>2, <3>1, MergeFollows
    <3> QED BY <3>2 DEF known, u
  <2>4. /\ SymbolIds(db') = SymbolIds(db)
        /\ Relations(db') = Relations(db) \cup {k}
        /\ db'.relations.live[k] = row[k]
        /\ \A l \in Relations(db) \ {k} : db'.relations.live[l] = db.relations.live[l]
    BY <1>1, <2>1, PutTable DEF TablesOK, SymbolIds, Relations
  <2>5. InferredIsEnriched(db')
    BY <1>2, <2>2, <2>4 DEF InferredIsEnriched
  <2>6. FiniteTables(db')
    BY <1>2, <2>4, FS_AddElement DEF FiniteTables
  <2>7. IndexFollows'
    BY <1>1, <2>3 DEF IndexFollows
  <2> QED BY <1>3, <1>4, <2>5, <2>6, <2>7 DEF RebuiltInv
<1> QED BY <1>5, <1>6

LEMMA RetireRebuilds ==
    ASSUME TypeOK, CertainInv, RebuiltInv, NEW k \in retire, RetireSibling(k)
    PROVE  RebuiltInv'
<1>1. /\ TablesOK(db) /\ k \in Relations(db)
      /\ UNCHANGED <<husk, indexed, settled, merges>>
      /\ db'.symbols = db.symbols /\ db'.relations = Drop(db.relations, {k})
      /\ \A g \in Files : indexed[g] \in DOMAIN Text \cup {Gone}
  BY DEF RetireSibling, TypeOK, TablesOK
<1>2. Retired(db, db', k)
  BY <1>1 DEF Retired, CertainInv, RivalsKeepAnswer
<1>3. /\ IndexFollows /\ InferredIsEnriched(db) /\ FiniteTables(db)
      /\ HuskIsIndexed /\ Answers(merges)
  BY DEF RebuiltInv
<1>4. ASSUME NEW g \in Files PROVE Follows(db', g, indexed[g], g \in settled)
  <2> DEFINE known == g \in settled
             u == indexed[g]
  <2>1. Follows(db, g, u, known) /\ known \in BOOLEAN /\ u \in DOMAIN Text \cup {Gone}
    BY <1>1, <1>3 DEF IndexFollows
  <2> HIDE DEF known, u
  <2>2. Follows(db', g, u, known)
    BY <1>1, <1>2, <2>1, RetireFollows
  <2> QED BY <2>2 DEF known, u
<1>5. /\ SymbolIds(db') = SymbolIds(db) /\ Relations(db') \subseteq Relations(db)
      /\ \A l \in Relations(db') : db'.relations.live[l] = db.relations.live[l]
  BY <1>1, RetireRow
<1>6. InferredIsEnriched(db') /\ FiniteTables(db')
  BY <1>3, <1>5, FS_Subset DEF InferredIsEnriched, FiniteTables
<1> QED BY <1>1, <1>3, <1>4, <1>6 DEF RebuiltInv, IndexFollows, HuskIsIndexed

LEMMA PassRebuilds ==
    ASSUME RebuiltInv, PassStep
    PROVE  RebuiltInv'
<1>1. UNCHANGED <<db, husk, indexed, settled>>
  BY DEF PassStep, PassStarts, NoServer, ListSites, ConnectionLost, PassEnds, Ask, NoAnswer, Mixin
<1>2. FiniteTables(db) /\ Answers(merges)
  BY DEF RebuiltInv
<1>3. Answers(merges')
  <2>1. ASSUME NEW f \in Files, NEW t \in DOMAIN Text \cup {Gone}, PassStarts(f, t)
        PROVE  Answers(merges')
    <3> DEFINE files == {g \in Files : [indexed EXCEPT ![f] = t][g] \notin {Gone, "husk"}}
               T == StubMerges(db, files)
    <3>1. merges' = merges \o Ordered(T)
      BY <2>1 DEF PassStarts
    <3> HIDE DEF files
    <3>2. IsFiniteSet(T) /\ \A m \in T : m.fact.provider \in Enriched
      BY <1>2, StubMergesAreAnswers
    <3> HIDE DEF T
    <3>3. Ordered(T) \in Seq(T)
      BY <3>2, OrderedIsSeq
    <3> QED BY <1>2, <3>1, <3>2, <3>3, AnswersConcat
  <2>2. ASSUME NEW s \in pass.todo, Ask(s) PROVE Answers(merges')
    <3>1. PICK i : merges' = Append(merges, Merge(KeyAt(s, i), Fact("INFERRED", "lsp"), FALSE, {}, FALSE))
      BY <2>2 DEF Ask
    <3> DEFINE m == Merge(KeyAt(s, i), Fact("INFERRED", "lsp"), FALSE, {}, FALSE)
    <3>2. m.fact.provider \in Enriched
      BY DEF Merge, Fact, Enriched
    <3>3. merges' = Append(merges, m)
      BY <3>1
    <3> HIDE DEF m
    <3> QED BY <1>2, <3>2, <3>3, AnswersAppend
  <2>3. ASSUME NEW s \in pass.todo, Mixin(s) PROVE Answers(merges')
    <3> DEFINE found == Composed(db, s)
               T == {Merge(KeyAt(s, i), Fact(Guess(found), "lsp"), TRUE, found, FALSE) : i \in found}
    <3>1. merges' = merges \o Ordered(T)
      BY <2>3 DEF Mixin
    <3>2. IsFiniteSet(T) /\ \A m \in T : m.fact.provider \in Enriched
      BY <1>2, MixinMergesAreAnswers
    <3> HIDE DEF T
    <3>3. Ordered(T) \in Seq(T)
      BY <3>2, OrderedIsSeq
    <3> QED BY <1>2, <3>1, <3>2, <3>3, AnswersConcat
  <2>4. CASE NoServer \/ ListSites \/ ConnectionLost \/ PassEnds \/ \E s \in pass.todo : NoAnswer(s)
    <3>1. merges' = merges
      BY <2>4 DEF NoServer, ListSites, ConnectionLost, PassEnds, NoAnswer
    <3> QED BY <1>2, <3>1
  <2> QED BY <2>1, <2>2, <2>3, <2>4 DEF PassStep
<1> QED BY <1>1, <1>3 DEF RebuiltInv, IndexFollows, HuskIsIndexed

LEMMA RebuiltStep ==
    TypeOK /\ CertainInv /\ DanglingInv /\ RebuiltInv /\ [Next]_vars => RebuiltInv'
<1> SUFFICES ASSUME TypeOK, CertainInv, DanglingInv, RebuiltInv, [Next]_vars PROVE RebuiltInv'
  OBVIOUS
<1>1. CASE Index
  BY <1>1, IndexRebuilds DEF Index
<1>2. CASE Failure
  <2>1. UNCHANGED <<db, husk, indexed, settled, merges>>
    BY <1>2 DEF Failure, IndexFails, AfterFailure
  <2> QED BY <2>1 DEF RebuiltInv, IndexFollows, HuskIsIndexed
<1>3. CASE ClearHusk
  BY <1>3, ClearRebuilds DEF DanglingInv
<1>4. CASE Merging
  BY <1>4, MergeRebuilds, RetireRebuilds DEF Merging
<1>5. CASE PassStep
  BY <1>5, PassRebuilds
<1>6. CASE Crash
  <2>1. UNCHANGED <<db, indexed, settled>> /\ husk' = NoFile /\ merges' = <<>>
    BY <1>6 DEF Crash
  <2>2. Answers(<<>>)
    BY DEF Answers
  <2>3. IndexFollows' /\ InferredIsEnriched(db') /\ FiniteTables(db') /\ HuskIsIndexed'
    BY <2>1 DEF RebuiltInv, IndexFollows, HuskIsIndexed
  <2> QED BY <2>1, <2>2, <2>3 DEF RebuiltInv
<1>7. CASE MergeFails
  <2>1. UNCHANGED <<db, husk, indexed, settled>>
    BY <1>7 DEF MergeFails
  <2>2. Answers(merges')
    BY <1>7, AnswersTail DEF MergeFails, RebuiltInv
  <2> QED BY <2>1, <2>2 DEF RebuiltInv, IndexFollows, HuskIsIndexed
<1>8. CASE UNCHANGED vars
  BY <1>8 DEF vars, RebuiltInv, IndexFollows, HuskIsIndexed
<1> QED BY <1>1, <1>2, <1>3, <1>4, <1>5, <1>6, <1>7, <1>8 DEF Next

LEMMA RebuiltSuffices == RebuiltInv => LikeRebuilt
<1> SUFFICES ASSUME RebuiltInv, NEW f \in Files
    PROVE  LET t == indexed[f]
               rows == RowsOf(f, t, SymbolIds(db))
           IN  IF t = Gone THEN InFile(db, f) = {} /\ ExtractedBy(db, f) = {}
               ELSE /\ Only(db.symbols.live, InFile(db, f)) = SymbolRows(Symbols(f, Text[t]))
                    /\ f \in settled =>
                         /\ Only(db.relations.live, ExtractedBy(db, f)) = Only(rows, ExtractedBy(db, f))
                         /\ \A k \in DOMAIN rows :
                               \/ k \in Relations(db)
                               \/ rows[k].confidence = "AMBIGUOUS" /\ k \in DOMAIN db.relations.snap
  BY DEF LikeRebuilt
<1> DEFINE t == indexed[f]
           rows == RowsOf(f, t, SymbolIds(db))
           symbols == SymbolRows(Symbols(f, Text[t]))
<1>1. Follows(db, f, t, f \in settled)
  BY DEF RebuiltInv, IndexFollows
<1>2. CASE t = Gone
  BY <1>1, <1>2 DEF Follows
<1>3. CASE t # Gone
  <2>1. SymbolsFollow(db, f, t) /\ (f \in settled => RowsFollow(db, f, t))
    BY <1>1, <1>3 DEF Follows
  <2>2. Only(db.symbols.live, InFile(db, f)) = symbols
    <3>1. DOMAIN symbols = InFile(db, f) /\ symbols = [i \in DOMAIN symbols |-> symbols[i]]
      BY <2>1 DEF SymbolsFollow, SymbolRows, SymbolIdsOf
    <3>2. \A i \in InFile(db, f) : db.symbols.live[i] = symbols[i]
      BY <2>1 DEF SymbolsFollow
    <3>3. InFile(db, f) \subseteq DOMAIN db.symbols.live
      BY DEF InFile, SymbolIds
    <3> HIDE DEF symbols
    <3> QED BY <3>1, <3>2, <3>3 DEF Only
  <2>3. ASSUME f \in settled
        PROVE  /\ Only(db.relations.live, ExtractedBy(db, f)) = Only(rows, ExtractedBy(db, f))
               /\ \A k \in DOMAIN rows :
                     \/ k \in Relations(db)
                     \/ rows[k].confidence = "AMBIGUOUS" /\ k \in DOMAIN db.relations.snap
    <3>1. /\ \A k \in ExtractedBy(db, f) : k \in DOMAIN rows /\ db.relations.live[k] = rows[k]
          /\ \A k \in DOMAIN rows : RowKept(db, k, rows[k].confidence)
      BY <2>1, <2>3 DEF RowsFollow
    <3> DEFINE own == ExtractedBy(db, f)
    <3>2. own \subseteq DOMAIN db.relations.live
      BY DEF ExtractedBy, Relations
    <3>3. \A k \in own : k \in DOMAIN rows /\ db.relations.live[k] = rows[k]
      BY <3>1
    <3> HIDE DEF rows, own
    <3>4. DOMAIN db.relations.live \cap own = DOMAIN rows \cap own
      BY <3>2, <3>3
    <3>5. Only(db.relations.live, own) = Only(rows, own)
      BY <3>3, <3>4 DEF Only
    <3> QED BY <3>1, <3>5 DEF own, RowKept
  <2> QED BY <1>3, <2>2, <2>3
<1> QED BY <1>2, <1>3

\* Indexing one file at a time, with failed jobs, crashes and the merges of
\* passes between, leaves in the index of each file what indexing that file's
\* text from nothing would (indexer.index_file, reconcile; merge_policy).
THEOREM DifferencesAddUp == Spec => []LikeRebuilt
<1>1. Init => TypeOK /\ PassIsRecord
  BY BoundsAssumption DEF Init, EmptyTable, TypeOK, TableOK, Idle, Walked, Relations, PassIsRecord
<1>2. Init => CertainInv
  BY DEF Init, CertainInv, RivalsKeepAnswer
<1>3. Init => DanglingInv
  BY DEF Init, DanglingInv, DanglingOnlyByLateMerge, HuskIsModule, EmptyTable, Relations, SymbolIds
<1>4. Init => RebuiltInv
  <2> SUFFICES ASSUME Init PROVE RebuiltInv
    OBVIOUS
  <2>1. SymbolIds(db) = {} /\ Relations(db) = {}
    BY DEF Init, EmptyTable, SymbolIds, Relations
  <2>2. IndexFollows
    BY <2>1 DEF Init, IndexFollows, Follows, InFile, ExtractedBy
  <2>3. InferredIsEnriched(db) /\ FiniteTables(db)
    BY <2>1, FS_EmptySet DEF InferredIsEnriched, FiniteTables
  <2>4. HuskIsIndexed /\ Answers(merges)
    BY DEF Init, HuskIsIndexed, Gone, Answers
  <2> QED BY <2>2, <2>3, <2>4 DEF RebuiltInv
<1> QED BY <1>1, <1>2, <1>3, <1>4, StepTypes, StepPass, CertainStep, DanglingStep, RebuiltStep,
           RebuiltSuffices, PTL DEF Spec
================================================================================
