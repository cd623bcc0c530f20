------------------------------ MODULE IndexStore ------------------------------
(***************************************************************************)
(* The index of one worktree (storage/symbol_store.py, relation_store.py)  *)
(* and the two kinds of job that write it, on one connection and one after *)
(* the other (WriteQueue): index jobs (indexer.py, watcher.py), which      *)
(* bring the rows of one file to what its text says, and merge jobs        *)
(* (daemon/merge_policy.py), which add one relation that an enrichment     *)
(* pass (daemon/lsp_enrichment.py) found.                                  *)
(*                                                                         *)
(* An index job is one transaction: nobody sees it before it commits, and  *)
(* it resolves what its text defers against the symbols as they were when  *)
(* it began.  A merge job commits its row and then, one by one, the        *)
(* removal of the rivals it makes obsolete.  A pass reads what is          *)
(* committed at several moments while index jobs go on, and its answers    *)
(* wait in the queue, so that they may be written when the symbols they    *)
(* name, or their call sites, are gone.                                    *)
(*                                                                         *)
(* A job with a syntax error in its text changes nothing and is left out.  *)
(* The generation, which only index jobs count, is part of Pages.          *)
(***************************************************************************)
EXTENDS Extraction

CONSTANTS
    Files,
    Dotted,      \* [Files -> segments of the dotted path of the file]
    Text,        \* [text ids -> texts (Extraction)], "husk" -> EmptyText among them
    TextsOf,     \* [Files -> the ids of the texts the file may have]
    Definition,  \* the language server: [positions of calls -> the symbols the index may
                 \* have at the place of its answer]
    MaxJobs,     \* bound: index jobs
    MaxPasses,   \* bound: enrichment passes
    MaxCrashes   \* bound: ends of the daemon in the middle of something

ASSUME TextAssumption == \A t \in DOMAIN Text : WellFormed(Text[t])
ASSUME FilesAssumption == TextsOf \in [Files -> SUBSET DOMAIN Text] /\ "husk" \in DOMAIN Text
ASSUME HuskAssumption == Text["husk"] = EmptyText /\ "gone" \notin DOMAIN Text
ASSUME BoundsAssumption == MaxJobs \in Nat /\ MaxPasses \in Nat /\ MaxCrashes \in Nat

VARIABLES
    db,        \* what is committed: the tables symbols and relations
    husk,      \* the deleted file whose module symbol is still to be cleared, or NoFile
    retire,    \* keys of the rivals the running merge job has still to remove
    merges,    \* merge jobs in the queue, oldest first
    pass,      \* the enrichment pass: its stage, the texts it walked, its sites
    indexed,   \* history: the text each file's rows were last written from
    settled,   \* history: files whose deferred items still have the candidates
               \* they had when the file was indexed
    late,      \* history: keys a merge job wrote after their target was removed
    jobs, passes, crashes

vars == <<db, husk, retire, merges, pass, indexed, settled, late, jobs, passes, crashes>>

NoFile == "none"
Gone == "gone"   \* the text id of a file that is not indexed

-----------------------------------------------------------------------------
(* Tables *)

\* live is the live table; snap holds for each key the last row its history
\* has for it, and tomb the keys whose last history row is a tombstone.
EmptyTable == [live |-> <<>>, snap |-> <<>>, tomb |-> {}]

Without(f, keys) == [k \in DOMAIN f \ keys |-> f[k]]
Only(f, keys) == [k \in DOMAIN f \cap keys |-> f[k]]
Over(f, g) == [k \in DOMAIN f \cup DOMAIN g |-> IF k \in DOMAIN f THEN f[k] ELSE g[k]]

\* Mutant: a row is compared with the history instead of the live table.
PutComparedWithHistory(table, rows) ==
    LET changed == {k \in DOMAIN rows : IF k \in DOMAIN table.snap
                                        THEN table.snap[k] # rows[k] ELSE TRUE}
    IN  [live |-> Over(rows, table.live),
         snap |-> Over(Only(rows, changed), table.snap),
         tomb |-> table.tomb \ changed]

\* upsert: a row goes into the history only when it differs from the live one.
Put(table, rows) ==
    LET changed == {k \in DOMAIN rows : IF k \in DOMAIN table.live
                                        THEN table.live[k] # rows[k] ELSE TRUE}
    IN  [live |-> Over(rows, table.live),
         snap |-> Over(Only(rows, changed), table.snap),
         tomb |-> table.tomb \ changed]

Drop(table, keys) == [live |-> Without(table.live, keys),
                      snap |-> table.snap,
                      tomb |-> table.tomb \cup keys]

Key(r) == [source |-> r.source, target |-> r.target, predicate |-> r.predicate, site |-> r.site]
Fact(confidence, provider) == [confidence |-> confidence, provider |-> provider]

\* Of two rows with one key the one that is written last remains.
RelationRows(rows) ==
    [k \in {Key(r) : r \in rows} |->
        LET last == CHOOSE r \in rows : Key(r) = k IN Fact(last.confidence, last.provider)]

SymbolRows(symbols) ==
    [i \in {s.id : s \in symbols} |-> (CHOOSE s \in symbols : s.id = i).stub]

Rank(confidence) == CASE confidence = "EXTRACTED" -> 0
                      [] confidence = "INFERRED" -> 1
                      [] OTHER -> 2

-----------------------------------------------------------------------------
(* Resolution of deferred items *)

Matches(file, module) ==
    LET d == Dotted[file]
        skipped == Len(d) - Len(module)
    IN  module # <<>> /\ skipped >= 0 /\ SubSeq(d, skipped + 1, Len(d)) = module

Named(ids, name, kind) == {i \in ids : i.name = name /\ i.kind = kind}

ImportedMethods(ids, item) ==
    LET bases == {b \in Named(ids, item.name, "class") : Matches(b.file, item.module)}
    IN  {i \in Named(ids, Append(item.name, item.member), "method") :
            \E b \in bases : b.file = i.file}

Candidates(ids, item) ==
    CASE item.name = NoName -> {}
      [] item.kind = "call" -> {i \in Named(ids, item.name, "function") : Matches(i.file, item.module)}
      [] item.kind = "inherit" -> {i \in Named(ids, item.name, "class") : Matches(i.file, item.module)}
      [] OTHER -> ImportedMethods(ids, item)

Resolved(ids, item) ==
    LET found == Candidates(ids, item)
    IN  {Relation(item.source, i, item.predicate, item.site, Certainty(found), "tree-sitter") : i \in found}

Deferred == [f \in Files |-> [t \in DOMAIN Text |-> DeferredItems(f, Text[t])]]
Local == [f \in Files |-> [t \in DOMAIN Text |-> LocalRows(f, Text[t])]]

\* All relations of text t of file f, when the index has the symbols ids.
RowsOf(f, t, ids) ==
    RelationRows(Local[f][t] \cup UNION {Resolved(ids, item) : item \in Deferred[f][t]})

SymbolIds(d) == DOMAIN d.symbols.live
Relations(d) == DOMAIN d.relations.live
InFile(d, f) == {i \in SymbolIds(d) : i.file = f}

-----------------------------------------------------------------------------
(* Index jobs *)

\* Mutant: only relations of the file itself go with its symbols.
ReconciledLocally(d, f, t, prune) ==
    LET symbols == SymbolRows(Symbols(f, Text[t]))
        rows == RowsOf(f, t, SymbolIds(d))
        prior == {k \in Relations(d) : /\ k.site.file = f
                                       /\ prune \/ d.relations.live[k].confidence # "INFERRED"}
    IN  <<[symbols |-> Drop(Put(d.symbols, symbols), InFile(d, f) \ DOMAIN symbols),
           relations |-> Drop(Put(d.relations, rows), prior \ DOMAIN rows)]>>

\* The database after each statement group of the transaction of an index job;
\* the last one is what it commits.
Reconciled(d, f, t, prune) ==
    LET symbols == SymbolRows(Symbols(f, Text[t]))
        rows == RowsOf(f, t, SymbolIds(d))
        removed == InFile(d, f) \ DOMAIN symbols
        prior == {k \in Relations(d) : /\ k.site.file = f
                                       /\ prune \/ d.relations.live[k].confidence # "INFERRED"}
        put == Put(d.symbols, symbols)
        upserted == Put(d.relations, rows)
        dropped == Drop(put, removed)
        pruned == Drop(upserted, prior \ DOMAIN rows)
        crossing == {k \in DOMAIN pruned.live : k.target \in removed}
        both(s, r) == [symbols |-> s, relations |-> r]
    IN  <<both(put, d.relations), both(put, upserted), both(dropped, upserted),
          both(dropped, pruned), both(dropped, Drop(pruned, crossing))>>

Committed(d, f, t, prune) == LET steps == Reconciled(d, f, t, prune) IN steps[Len(steps)]

\* Mutant: what a failed job wrote is left for the next commit.
KeepPartial(partial, committed) == partial

\* The rollback of a failed job, before the connection serves the next one.
AfterFailure(partial, committed) == committed

\* A file that is gone is indexed as an empty text if it has any symbol.
Indexable(f, t, prune) == t \in TextsOf[f] \/ (t = "husk" /\ prune /\ InFile(db, f) # {})

\* Mutant: an index job runs between the commits of a merge job.
WriterIsShared == husk = NoFile

WriterIsFree == husk = NoFile /\ retire = {}

\* history of an index job of f that changed the symbols from before to after
Settling(f, t, before, after) ==
    {g \in settled \cup {f} :
        LET text == IF g = f THEN t ELSE indexed[g]
        IN  text # Gone => \A item \in Deferred[g][text] :
                              Candidates(before, item) = Candidates(after, item)}

\* prune is FALSE for the check before a query (tier 4), which must not remove
\* what only a pass can find again.
IndexFile(f, t, prune) ==
    /\ WriterIsFree /\ jobs < MaxJobs /\ Indexable(f, t, prune)
    /\ db' = Committed(db, f, t, prune)
    /\ husk' = IF t = "husk" THEN f ELSE NoFile
    /\ indexed' = [indexed EXCEPT ![f] = t]
    /\ settled' = Settling(f, t, SymbolIds(db), SymbolIds(db'))
    /\ late' = {k \in late \cap Relations(db') : k.target \notin SymbolIds(db')}
    /\ jobs' = jobs + 1
    /\ UNCHANGED <<retire, merges, pass, passes, crashes>>

\* The job raises after some of its statements.
IndexFails(f, t, prune) ==
    /\ WriterIsFree /\ jobs < MaxJobs /\ Indexable(f, t, prune)
    /\ LET steps == Reconciled(db, f, t, prune)
       IN  \E n \in DOMAIN steps : db' = AfterFailure(steps[n], db)
    /\ jobs' = jobs + 1
    /\ UNCHANGED <<husk, retire, merges, pass, indexed, settled, late, passes, crashes>>

\* What is left of the file, its module, goes in a commit of its own.
ClearHusk ==
    /\ husk # NoFile
    /\ db' = [symbols |-> Drop(db.symbols, InFile(db, husk)), relations |-> db.relations]
    /\ indexed' = [indexed EXCEPT ![husk] = Gone]
    /\ husk' = NoFile
    /\ UNCHANGED <<retire, merges, pass, settled, late, jobs, passes, crashes>>

-----------------------------------------------------------------------------
(* Merge jobs *)

\* scoped says whether the pass knows all targets of the site, which are then
\* in targets; preserve is set by the stub resolution, which only adds.
Merge(key, fact, scoped, targets, preserve) ==
    [key |-> key, fact |-> fact, scoped |-> scoped, targets |-> targets, preserve |-> preserve]

SameSite(k, l) == k.source = l.source /\ k.predicate = l.predicate /\ k.site = l.site

\* _retire_stale_siblings
StaleSiblings(d, m) ==
    {k \in Relations(d) :
        /\ ~m.preserve
        /\ m.fact.confidence # "AMBIGUOUS" \/ m.scoped
        /\ SameSite(k, m.key) /\ k.target # m.key.target
        /\ d.relations.live[k].confidence = "AMBIGUOUS"
        /\ m.fact.confidence # "AMBIGUOUS" \/ k.target \notin m.targets}

\* Mutant: an answer replaces whatever is there.
RefusedNever(d, m) == FALSE

\* A row that is there must not become less certain.
Refused(d, m) ==
    /\ m.key \in Relations(d)
    /\ Rank(m.fact.confidence) > Rank(d.relations.live[m.key].confidence)

ApplyMerge ==
    /\ WriterIsFree /\ merges # <<>>
    /\ LET m == Head(merges)
       IN  IF Refused(db, m) THEN UNCHANGED <<db, retire, late>>
           ELSE /\ db' = [symbols |-> db.symbols,
                          relations |-> Put(db.relations, [k \in {m.key} |-> m.fact])]
                /\ retire' = StaleSiblings(db', m)
                /\ late' = late \cup {k \in {m.key} : k.target \notin SymbolIds(db)}
    /\ merges' = Tail(merges)
    /\ UNCHANGED <<husk, pass, indexed, settled, jobs, passes, crashes>>

RetireSibling(k) ==
    /\ k \in retire
    /\ db' = [symbols |-> db.symbols, relations |-> Drop(db.relations, {k})]
    /\ retire' = retire \ {k}
    /\ late' = late \ {k}
    /\ UNCHANGED <<husk, merges, pass, indexed, settled, jobs, passes, crashes>>

\* The running merge job raises, before it has written anything or between the
\* commits with which it retires rivals.  A failure inside one of its transactions,
\* between the live table and the history, which nobody rolls back, is left out.
MergeFails ==
    /\ husk = NoFile /\ (retire # {} \/ merges # <<>>)
    /\ merges' = IF retire = {} THEN Tail(merges) ELSE merges
    /\ retire' = {}
    /\ UNCHANGED <<db, husk, pass, indexed, settled, late, jobs, passes, crashes>>

-----------------------------------------------------------------------------
(* Enrichment passes *)

Idle == [stage |-> "idle", walked |-> <<>>, todo |-> {}]
Walked == DOMAIN pass.walked

\* A set in the order its sort gives it.
Ordered(S) == CHOOSE s \in [1..Cardinality(S) -> S] : \A x \in S : \E i \in DOMAIN s : s[i] = x

CallsIn(d, files) == {k \in Relations(d) : k.predicate = "calls" /\ k.site.file \in files}

\* Live classes, and the method m of class c.
IsClass(d, i) == i \in SymbolIds(d) /\ i.kind = "class"
Member(d, c, m) ==
    {i \in Named(SymbolIds(d), Append(c.name, m), "method") : i.file = c.file}

\* _declaring_classes_for_stub: by the defines relations, or else by name.
Declaring(d, i) ==
    LET defining == {k.source : k \in {k \in Relations(d) : k.predicate = "defines" /\ k.target = i}}
        classes == {c \in defining : IsClass(d, c) /\ c.file = i.file}
        named == {c \in Named(SymbolIds(d), <<i.name[1]>>, "class") : c.file = i.file}
    IN  IF classes # {} THEN classes ELSE named

Inheriting(d, c) ==
    {k.source : k \in {k \in Relations(d) : k.predicate = "inherits" /\ k.target = c}}
Bases(d, c) ==
    {k.target : k \in {k \in Relations(d) : k.predicate = "inherits" /\ k.source = c}}

IsStub(d, i) == i \in SymbolIds(d) /\ d.symbols.live[i] /\ Len(i.name) = 2

Implementations(d, stub) ==
    {i \in UNION {Member(d, c, stub.name[2]) :
                    c \in {c \in UNION {Inheriting(d, b) \ {b} : b \in Declaring(d, stub)} :
                              IsClass(d, c)}} : ~d.symbols.live[i]}

\* One candidate is inferred, several are candidates.
Guess(found) == IF Cardinality(found) = 1 THEN "INFERRED" ELSE "AMBIGUOUS"

\* _resolve_protocol_stub_calls: from a call of a stub to its implementations.
StubMerges(d, files) ==
    UNION {LET found == Implementations(d, k.target)
           IN  {Merge([k EXCEPT !.target = i], Fact(Guess(found), "stub"), FALSE, {}, TRUE) :
                   i \in found} :
           k \in {k \in CallsIn(d, files) : IsStub(d, k.target)}}

\* The pass walks a tree in which one file may have changed since it was indexed.
PassStarts(f, t) ==
    /\ pass.stage = "idle" /\ passes < MaxPasses
    /\ t \in TextsOf[f] \cup {Gone}
    /\ LET texts == [indexed EXCEPT ![f] = t]
           files == {g \in Files : texts[g] \notin {Gone, "husk"}}
       IN  /\ pass' = [stage |-> "stubs", walked |-> Only(texts, files), todo |-> {}]
           /\ merges' = merges \o Ordered(StubMerges(db, files))
    /\ passes' = passes + 1
    /\ UNCHANGED <<db, husk, retire, indexed, settled, late, jobs, crashes>>

\* A call site to ask the server about, or to search among the classes that are
\* composed with the one it stands in.
AskSite(source, predicate, site) ==
    [how |-> "ask", source |-> source, predicate |-> predicate, site |-> site,
     member |-> "", within |-> NoName]
MixinSite(item) ==
    [how |-> "mixin", source |-> item.source, predicate |-> "calls", site |-> item.site,
     member |-> item.member, within |-> item.within]

AmbiguousSites(d) ==
    {AskSite(k.source, k.predicate, k.site) :
        k \in {k \in Relations(d) :
                  /\ k.site.file \in Walked /\ k.predicate \in {"calls", "inherits"}
                  /\ d.relations.live[k].confidence = "AMBIGUOUS"
                  /\ d.relations.live[k].provider # "stub"}}

Worklist(d) ==
    LET items == UNION {Deferred[f][pass.walked[f]] : f \in Walked}
        unresolved == {item \in items : /\ item.kind # "override"
                                        /\ Candidates(SymbolIds(d), item) = {}}
        place(x) == <<x.source, x.site>>
        answered == {place(r) : r \in {r \in UNION {Local[f][pass.walked[f]] : f \in Walked} :
                                          r.predicate = "calls"}}
                    \cup {place(i) : i \in {i \in items \ unresolved : i.kind = "self"}}
        mixins == {MixinSite(i) : i \in {i \in unresolved : i.kind = "self" /\ place(i) \notin answered}}
        asks == AmbiguousSites(d)
                \cup {AskSite(i.source, i.predicate, i.site) : i \in {i \in unresolved : i.kind # "self"}}
    IN  mixins \cup {a \in asks : place(a) \notin {place(x) : x \in mixins}}

\* No server, or none that gives definitions: only the stubs are resolved.
NoServer ==
    /\ pass.stage = "stubs"
    /\ pass' = [pass EXCEPT !.stage = "sites"]
    /\ UNCHANGED <<db, husk, retire, merges, indexed, settled, late, jobs, passes, crashes>>

ListSites ==
    /\ pass.stage = "stubs"
    /\ pass' = [pass EXCEPT !.stage = "sites", !.todo = Worklist(db)]
    /\ UNCHANGED <<db, husk, retire, merges, indexed, settled, late, jobs, passes, crashes>>

\* The sites are taken in the order of their sort, those to ask about first.
IsNext(s) == s = CHOOSE x \in pass.todo : x.how = "ask" \/ \A y \in pass.todo : y.how = "mixin"

SiteDone(s) == pass' = [pass EXCEPT !.todo = @ \ {s}]
KeyAt(s, target) == [source |-> s.source, target |-> target, predicate |-> s.predicate, site |-> s.site]

\* The server's definition, if the index has a symbol at its place.
Ask(s) ==
    /\ IsNext(s) /\ s.how = "ask" /\ s.site.at \in DOMAIN Definition
    /\ \E i \in Definition[s.site.at] \cap SymbolIds(db) :
          merges' = Append(merges, Merge(KeyAt(s, i), Fact("INFERRED", "lsp"), FALSE, {}, FALSE))
    /\ SiteDone(s)
    /\ UNCHANGED <<db, husk, retire, indexed, settled, late, jobs, passes, crashes>>

\* An error, a late answer or none the index can use.
NoAnswer(s) ==
    /\ IsNext(s) /\ s.how = "ask"
    /\ SiteDone(s)
    /\ UNCHANGED <<db, husk, retire, merges, indexed, settled, late, jobs, passes, crashes>>

ConnectionLost ==
    /\ \E s \in pass.todo : s.how = "ask"
    /\ pass' = [pass EXCEPT !.todo = {}]
    /\ UNCHANGED <<db, husk, retire, merges, indexed, settled, late, jobs, passes, crashes>>

\* _composition_method_candidates: the methods of the other bases of the classes
\* that inherit from the one the call stands in.
Composed(d, s) ==
    LET here == Id(s.site.file, s.within, "class")
    IN  UNION {Member(d, b, s.member) :
                  b \in {b \in UNION {Bases(d, c) : c \in Inheriting(d, here)} :
                            b # here /\ b \in SymbolIds(d)}}

Mixin(s) ==
    /\ IsNext(s) /\ s.how = "mixin"
    /\ LET found == Composed(db, s)
       IN  merges' = merges \o Ordered({Merge(KeyAt(s, i), Fact(Guess(found), "lsp"), TRUE, found, FALSE) :
                                            i \in found})
    /\ SiteDone(s)
    /\ UNCHANGED <<db, husk, retire, indexed, settled, late, jobs, passes, crashes>>

\* The pass waits for the last of its merge jobs.
PassEnds ==
    /\ pass.stage = "sites" /\ pass.todo = {} /\ merges = <<>> /\ retire = {}
    /\ pass' = Idle
    /\ UNCHANGED <<db, husk, retire, merges, indexed, settled, late, jobs, passes, crashes>>

\* The daemon dies: what it had not committed is gone.
Crash ==
    /\ crashes < MaxCrashes
    /\ husk # NoFile \/ retire # {} \/ merges # <<>> \/ pass.stage # "idle"
    /\ husk' = NoFile /\ retire' = {} /\ merges' = <<>> /\ pass' = Idle
    /\ crashes' = crashes + 1
    /\ UNCHANGED <<db, indexed, settled, late, jobs, passes>>

-----------------------------------------------------------------------------

Init ==
    /\ db = [symbols |-> EmptyTable, relations |-> EmptyTable]
    /\ husk = NoFile /\ retire = {} /\ merges = <<>> /\ pass = Idle
    /\ indexed = [f \in Files |-> Gone] /\ settled = {} /\ late = {}
    /\ jobs = 0 /\ passes = 0 /\ crashes = 0

Index == \E f \in Files, t \in DOMAIN Text, prune \in BOOLEAN : IndexFile(f, t, prune)
Failure == \E f \in Files, t \in DOMAIN Text, prune \in BOOLEAN : IndexFails(f, t, prune)
Merging == ApplyMerge \/ \E k \in retire : RetireSibling(k)
PassStep ==
    \/ \E f \in Files, t \in DOMAIN Text \cup {Gone} : PassStarts(f, t)
    \/ NoServer \/ ListSites \/ ConnectionLost \/ PassEnds
    \/ \E s \in pass.todo : Ask(s) \/ NoAnswer(s) \/ Mixin(s)

Next == Index \/ Failure \/ ClearHusk \/ Merging \/ MergeFails \/ PassStep \/ Crash

Spec == Init /\ [][Next]_vars

-----------------------------------------------------------------------------
(* Properties *)

TableOK(table) ==
    /\ table.tomb \subseteq DOMAIN table.snap
    /\ DOMAIN table.live \subseteq DOMAIN table.snap

TypeOK ==
    /\ TableOK(db.symbols) /\ TableOK(db.relations)
    /\ husk \in Files \cup {NoFile} /\ retire \subseteq Relations(db)
    /\ late \subseteq Relations(db) /\ settled \subseteq Files
    /\ indexed \in [Files -> DOMAIN Text \cup {Gone}]
    /\ pass.stage \in {"idle", "stubs", "sites"} /\ Walked \subseteq Files
    /\ jobs \in 0..MaxJobs /\ passes \in 0..MaxPasses /\ crashes \in 0..MaxCrashes

\* The append-only history and the live table say the same: a row is live with
\* its latest content exactly when the last history row of its key is no
\* tombstone (is_tombstoned), however often it was removed and written again.
HistoryTells(table) == table.live = Without(table.snap, table.tomb)
HistoryTellsLive == HistoryTells(db.symbols) /\ HistoryTells(db.relations)

\* A relation points at a symbol the index has, whichever file removed its
\* target (indexer.py, the cross-file invalidation).  For the predicates the
\* module has there are two exceptions: a merge job that was still in the queue
\* when its target was removed, and a module whose file is gone, which ClearHusk
\* removes without its relations.  Rows of imports, which name dotted paths and
\* never symbols (extract_relations.py:1001-1013), are outside.
DanglingOnlyByLateMerge ==
    \A k \in Relations(db) :
        k.target \in SymbolIds(db) \/ k \in late \/ k.target.kind = "module"

\* What index_file's docstring says of every relation whose target was in the
\* index when it was written: it goes with its target.
RemovedTargetsInvalidated ==
    husk = NoFile => \A k \in Relations(db) : k.target \in SymbolIds(db) \/ k \in late

\* Writing differences one file at a time, with whatever a pass wrote between
\* and whatever failed, leaves what indexing from nothing would give: each file
\* has the symbols of its text, and, while its deferred items have the
\* candidates they had, its extracted relations are those of its text.
ExtractedBy(d, f) ==
    {k \in Relations(d) : /\ k.site.file = f
                          /\ d.relations.live[k].provider \notin {"lsp", "stub"}}

LikeRebuilt ==
    \A f \in Files :
        LET t == indexed[f]
            rows == RowsOf(f, t, SymbolIds(db))
        IN  IF t = Gone THEN InFile(db, f) = {} /\ ExtractedBy(db, f) = {}
            ELSE /\ Only(db.symbols.live, InFile(db, f)) = SymbolRows(Symbols(f, Text[t]))
                 /\ f \in settled =>
                      /\ Only(db.relations.live, ExtractedBy(db, f)) = Only(rows, ExtractedBy(db, f))
                      /\ \A k \in DOMAIN rows :
                            \/ k \in Relations(db)
                            \/ rows[k].confidence = "AMBIGUOUS" /\ k \in DOMAIN db.relations.snap

\* Enrichment never takes certainty away: except in an index job, every live
\* row stays, at least as certain, or it was one of several candidates and its
\* site keeps an answer at least as certain.
KeepsCertainty ==
    jobs' # jobs \/ \A k \in Relations(db) :
          LET was == Rank(db.relations.live[k].confidence)
              is(l) == Rank(db'.relations.live[l].confidence)
          IN  \/ k \in Relations(db') /\ is(k) <= was
              \/ /\ was = 2
                 /\ \E l \in Relations(db') : SameSite(l, k) /\ is(l) <= was

NeverLessCertain == [][KeepsCertainty]_vars
===============================================================================
