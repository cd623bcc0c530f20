------------------------------ MODULE Extraction ------------------------------
(***************************************************************************)
(* What one source file says by itself (adapters/python): its symbols, the *)
(* relations between them, and the references that only the whole index    *)
(* can resolve, which the extraction hands over as deferred items.         *)
(*                                                                         *)
(* A text is a record of what the walks of the syntax tree find:           *)
(*   imports   alias -> the dotted path it is imported from, as segments   *)
(*   bases     class name -> the names of its bases                        *)
(*   methods   class name -> the names of its methods                      *)
(*   stubs     the qualified names of the Protocol and ABC stub methods    *)
(*   functions the names of the top-level functions                        *)
(*   calls     [in, on, name, at]: in the body of the symbol named in, a   *)
(*             call of name() (on = "name"), self.name() (on = "self") or  *)
(*             alias.name() (on = the alias), at position at               *)
(*   fixtures  public name -> the names of the pytest fixtures that have   *)
(*             it and are visible in the whole file                        *)
(*   requests  [in, name, at]: a mandatory parameter of a test or fixture  *)
(* A qualified name is a sequence: <<>> for the module, <<c>>, <<c, m>>.   *)
(* A name has one definition in a text (no ordinals), so that a name of a  *)
(* file is ambiguous only through several bases.                           *)
(*                                                                         *)
(* Left out: the fixtures of one class; the rows of references; and those  *)
(* of imports, whose targets are the dotted paths themselves and never     *)
(* symbols, so that they come and go with their own file only.             *)
(***************************************************************************)
EXTENDS Naturals, Sequences, FiniteSets

EmptyText == [imports |-> <<>>, bases |-> <<>>, methods |-> <<>>, stubs |-> {},
              functions |-> {}, calls |-> {}, fixtures |-> <<>>, requests |-> {}]

Classes(t) == DOMAIN t.bases

\* A symbol's id: path, qualified name and kind.
Id(file, name, kind) == [file |-> file, name |-> name, kind |-> kind]

NameKind(t, name) == IF name = <<>> THEN "module"
                     ELSE IF Len(name) = 2 THEN "method"
                     ELSE IF name[1] \in Classes(t) THEN "class" ELSE "function"

IdIn(file, t, name) == Id(file, name, NameKind(t, name))

MethodNames(t) == UNION {{<<c, m>> : m \in t.methods[c]} : c \in Classes(t)}

Names(t) == {<<>>} \cup {<<c>> : c \in Classes(t)} \cup {<<f>> : f \in t.functions}
                   \cup MethodNames(t)

\* A text is finite, and the names it refers to as its own are its own.
WellFormed(t) ==
    /\ IsFiniteSet(Classes(t)) /\ \A c \in Classes(t) : IsFiniteSet(t.methods[c])
    /\ IsFiniteSet(t.functions) /\ IsFiniteSet(DOMAIN t.imports)
    /\ IsFiniteSet(t.calls) /\ IsFiniteSet(t.requests)
    /\ \A k \in t.calls : k.on = "self" /\ Len(k.in) = 2 => k.in[1] \in Classes(t)
    /\ \A n \in DOMAIN t.fixtures : t.fixtures[n] \subseteq Names(t)

Symbols(file, t) ==
    {[id |-> IdIn(file, t, n), stub |-> n \in t.stubs] : n \in Names(t)}

Relation(source, target, predicate, site, confidence, provider) ==
    [source |-> source, target |-> target, predicate |-> predicate, site |-> site,
     confidence |-> confidence, provider |-> provider]

\* resolve: one candidate is a fact, several are candidates.
Certainty(candidates) ==
    IF Cardinality(candidates) = 1 THEN "EXTRACTED" ELSE "AMBIGUOUS"

\* The rows of one site, one for each of its candidates.
Rows(file, t, source, predicate, at, candidates, confidence, provider) ==
    {Relation(IdIn(file, t, source), IdIn(file, t, c), predicate,
              [file |-> file, at |-> at], confidence, provider) : c \in candidates}

-----------------------------------------------------------------------------
(* Methods of bases *)

\* The classes the walk from class c expands in search of method m: c itself,
\* and each base of an expanded class, unless it defines m.
Expanded(t, c, m) ==
    LET step[n \in 0..Cardinality(Classes(t))] ==
            IF n = 0 THEN {c}
            ELSE step[n - 1] \cup
                 {b \in Classes(t) : /\ m \notin t.methods[b]
                                     /\ \E d \in step[n - 1] : b \in t.bases[d]}
    IN  step[Cardinality(Classes(t))]

BasesMet(t, c, m) == UNION {t.bases[d] : d \in Expanded(t, c, m)}

\* The nearest definition of m on each branch above c.  The walk does not
\* come back to c, where it began because c has no m of its own.
BaseMethods(t, c, m) ==
    {<<b, m>> : b \in {b \in Classes(t) \cap BasesMet(t, c, m) : m \in t.methods[b]}}

\* The imported bases the walk meets, for the indexer to look into.
ImportedBases(t, c, m) == (BasesMet(t, c, m) \ Classes(t)) \cap DOMAIN t.imports

SelfMethods(t, c, m) == IF m \in t.methods[c] THEN {<<c, m>>} ELSE BaseMethods(t, c, m)

-----------------------------------------------------------------------------
(* Relations of the file alone *)

DefinesRows(file, t) ==
    UNION {Rows(file, t, IF Len(n) = 2 THEN <<n[1]>> ELSE <<>>, "defines", n, {n},
                "EXTRACTED", "tree-sitter") : n \in Names(t) \ {<<>>}}

LocalBases(t, c) == t.bases[c] \cap Classes(t)

InheritsRows(file, t) ==
    UNION {UNION {Rows(file, t, <<c>>, "inherits", <<c, b>>, {<<b>>}, "EXTRACTED", "tree-sitter") :
                     b \in LocalBases(t, c)} : c \in Classes(t)}

\* Only immediate bases; their candidates are counted together.
OverridesRows(file, t) ==
    UNION {LET overridden == {<<b, n[2]>> : b \in {b \in LocalBases(t, n[1]) :
                                                      n[2] \in t.methods[b]}}
           IN  Rows(file, t, n, "overrides", n, overridden, Certainty(overridden),
                    "tree-sitter") : n \in MethodNames(t)}

Callees(t, call) ==
    CASE call.on = "name" -> {<<call.name>>} \cap Names(t)
      [] call.on = "self" -> IF Len(call.in) = 2 THEN SelfMethods(t, call.in[1], call.name)
                                                 ELSE {}
      [] OTHER -> {}

CallsRows(file, t) ==
    UNION {Rows(file, t, k.in, "calls", k.at, Callees(t, k), Certainty(Callees(t, k)),
                "tree-sitter") : k \in t.calls}

\* pytest's injection by name: a guess, and AMBIGUOUS even when it is the only one.
FixtureRows(file, t) ==
    UNION {Rows(file, t, q.in, "calls", q.at, t.fixtures[q.name] \ {q.in}, "AMBIGUOUS",
                "pytest-fixture-heuristic") :
              q \in {q \in t.requests : q.name \in DOMAIN t.fixtures}}

\* What a file says of its own symbols; its imports and references are left out.
LocalRows(file, t) == DefinesRows(file, t) \cup InheritsRows(file, t)
    \cup OverridesRows(file, t) \cup CallsRows(file, t) \cup FixtureRows(file, t)

-----------------------------------------------------------------------------
(* Deferred items *)

\* kind: call, inherit, override or self.  name is looked up in the files that
\* module names; an override or self item wants its member method.  within is
\* the class a self item stands in.
Item(kind, predicate, source, at, module, name, member, file, t, within) ==
    [kind |-> kind, predicate |-> predicate, source |-> IdIn(file, t, source),
     site |-> [file |-> file, at |-> at], module |-> module, name |-> name,
     member |-> member, within |-> within]

NoName == <<>>   \* a self item that met no imported base

\* A plain call of an imported name, and a call through an imported module.
CallItems(file, t) ==
    {Item("call", "calls", k.in, k.at, t.imports[k.name], <<k.name>>, "", file, t, NoName) :
        k \in {k \in t.calls : /\ k.on = "name" /\ <<k.name>> \notin Names(t)
                               /\ k.name \in DOMAIN t.imports}}
    \cup
    {Item("call", "calls", k.in, k.at, Append(t.imports[k.on], k.on), <<k.name>>, "",
          file, t, NoName) : k \in {k \in t.calls : k.on \in DOMAIN t.imports}}

InheritItems(file, t) ==
    {Item("inherit", "inherits", <<cb[1]>>, cb, t.imports[cb[2]], <<cb[2]>>, "", file, t, NoName) :
        cb \in {cb \in Classes(t) \X DOMAIN t.imports :
                   cb[2] \in t.bases[cb[1]] \ Classes(t)}}

OverrideItems(file, t) ==
    UNION {{Item("override", "overrides", n, n, t.imports[b], <<b>>, n[2], file, t, NoName) :
               b \in (t.bases[n[1]] \ Classes(t)) \cap DOMAIN t.imports} : n \in MethodNames(t)}

\* A self call whose own class has no such method: an item for each imported
\* base met, and one without a base when the walk found nothing at all.
SelfItems(file, t) ==
    UNION {LET c == k.in[1]
               met == ImportedBases(t, c, k.name)
               item(module, name) == Item("self", "calls", k.in, k.at, module, name, k.name,
                                          file, t, <<c>>)
           IN  IF k.name \in t.methods[c] THEN {}
               ELSE IF met = {} /\ BaseMethods(t, c, k.name) = {} THEN {item(<<>>, NoName)}
               ELSE {item(t.imports[b], <<b>>) : b \in met} :
           k \in {k \in t.calls : k.on = "self" /\ Len(k.in) = 2}}

DeferredItems(file, t) == CallItems(file, t) \cup InheritItems(file, t)
                              \cup OverrideItems(file, t) \cup SelfItems(file, t)
===============================================================================
