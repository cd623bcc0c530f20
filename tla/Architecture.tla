----------------------------- MODULE Architecture -----------------------------
(***************************************************************************)
(* The import cycles of tools/architecture.py: imports resolved to files   *)
(* by the suffixes of their dotted names, and an iterative depth-first     *)
(* search (Tarjan) for the strongly connected components of what results.  *)
(*                                                                         *)
(* The order in which files and their neighbours come is that of Python    *)
(* sets of strings, which changes with every process: any order.           *)
(***************************************************************************)
EXTENDS Integers, Sequences, SequencesExt

CONSTANTS
    Modules,     \* the indexed files
    DottedName,  \* [Modules -> names]: a name is a sequence of its segments
    ImportNames, \* the names that imports have as their targets
    Roots        \* the prefixes a caller may give as root

ASSUME ModulesAssumption == IsFiniteSet(Modules)
ASSUME NamesAssumption == \A n \in ImportNames : n # <<>>

VARIABLES
    scope,       \* the files under the root the caller gave
    fileEdges,   \* <<importing file, imported file>>
    phase,       \* searching or done
    index,       \* a function of the files visited so far
    lowlink,     \* likewise
    component,   \* the stack of files whose component is open
    path,        \* the stack of the search: a file and the neighbours it has still to look at
    cycles

archVars == <<scope, fileEdges, phase, index, lowlink, component, path, cycles>>

-----------------------------------------------------------------------------
(* Edges *)

\* Every suffix of a file's dotted name stands for it.
FilesNamed(name) == {f \in Modules : IsSuffix(name, DottedName[f])}

\* An import of a name in a file has the file's name one segment up.
ImportTargets(name) ==
    IF FilesNamed(name) # {} \/ Len(name) = 1 THEN FilesNamed(name)
    ELSE FilesNamed(Front(name))

\* A root is a directory, and no file is named like one with .py behind it.
InScope(root) == {f \in Modules : IsPrefix(root, DottedName[f])}

\* imports are the targets of the imports relations of each file; those that lead
\* out of the scope are no edges.
FileEdges(files, imports) ==
    {e \in files \X files : \E name \in imports[e[1]] : e[2] \in ImportTargets(name)}

Neighbours(f) == {g \in scope : <<f, g>> \in fileEdges}

-----------------------------------------------------------------------------
(* The search *)

ArchInit ==
    /\ \E root \in Roots, imports \in [Modules -> SUBSET ImportNames] :
           scope = InScope(root) /\ fileEdges = FileEdges(scope, imports)
    /\ phase = "searching"
    /\ index = <<>> /\ lowlink = <<>>
    /\ component = <<>> /\ path = <<>> /\ cycles = {}

Visited == DOMAIN index
Lesser(a, b) == IF a < b THEN a ELSE b

\* A file gets the next index, opens a component and goes on the stack.
Open(f, below) ==
    /\ index' = [g \in Visited \cup {f} |-> IF g = f THEN Cardinality(Visited) ELSE index[g]]
    /\ lowlink' = [g \in Visited \cup {f} |-> IF g = f THEN Cardinality(Visited) ELSE lowlink[g]]
    /\ component' = Append(component, f)
    /\ path' = Append(below, [file |-> f, rest |-> Neighbours(f)])
    /\ UNCHANGED <<scope, fileEdges, phase, cycles>>

Start(f) == path = <<>> /\ f \in scope \ Visited /\ Open(f, <<>>)

Top == Last(path)
TopWithout(g) == Append(Front(path), [Top EXCEPT !.rest = @ \ {g}])

\* Mutant: a file whose component is closed still counts.
IsOpenEver(g) == TRUE

IsOpen(g) == g \in ToSet(component)

LookAt(g) ==
    /\ path # <<>> /\ g \in Top.rest
    /\ IF g \notin Visited THEN Open(g, TopWithout(g))
       ELSE /\ path' = TopWithout(g)
            /\ lowlink' = IF IsOpen(g)
                          THEN [lowlink EXCEPT ![Top.file] = Lesser(@, index[g])]
                          ELSE lowlink
            /\ UNCHANGED <<scope, fileEdges, phase, index, component, cycles>>

IsRoot(f) == lowlink[f] = index[f]

\* The files above f on the stack of components, and f.
Above(f) == SubSeq(component, CHOOSE i \in DOMAIN component : component[i] = f, Len(component))

IsCycle(members) ==
    Cardinality(members) > 1 \/ \E f \in members : <<f, f>> \in fileEdges

\* The file's lowlink goes to the file it was visited from if its component is
\* still open.
Pop ==
    LET f == Top.file
        below == Front(path)
        members == ToSet(Above(f))
    IN
    /\ path # <<>> /\ Top.rest = {}
    /\ path' = below
    /\ component' = IF IsRoot(f) THEN SubSeq(component, 1, Len(component) - Cardinality(members))
                    ELSE component
    /\ cycles' = IF IsRoot(f) /\ IsCycle(members) THEN cycles \cup {members} ELSE cycles
    /\ lowlink' = IF below # <<>> /\ ~IsRoot(f)
                  THEN [lowlink EXCEPT ![Last(below).file] = Lesser(@, lowlink[f])]
                  ELSE lowlink
    /\ UNCHANGED <<scope, fileEdges, phase, index>>

Finish ==
    /\ phase = "searching" /\ path = <<>> /\ scope \subseteq Visited
    /\ phase' = "done"
    /\ UNCHANGED <<scope, fileEdges, index, lowlink, component, path, cycles>>

ArchNext == (\E f \in scope : Start(f) \/ LookAt(f)) \/ Pop \/ Finish
ArchSpec == ArchInit /\ [][ArchNext]_archVars

-----------------------------------------------------------------------------
(* Properties *)

\* What a file reaches through files whose imports name each other: the least set
\* that has the neighbours of the file and those of its own members.
Reached(f) ==
    {g \in scope : \A S \in SUBSET scope :
        Neighbours(f) \subseteq S /\ (\A h \in S : Neighbours(h) \subseteq S) => g \in S}

\* The files of a cycle with f: those that it reaches and that reach it.
CycleOf(f) == {g \in Reached(f) : f \in Reached(g)}

\* The search reports no cycle before it is whole, and in the end all of them.
CyclesAreComponents ==
    LET all == {CycleOf(f) : f \in scope} \ {{}}
    IN  cycles \subseteq all /\ (phase = "done" => cycles = all)
===============================================================================
