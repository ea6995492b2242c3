-------------------------- MODULE DependencyCycles --------------------------
(***************************************************************************)
(* The search for import cycles of the quality gate (cycle_errors of       *)
(* src/aiflow/quality/architecture.py, called by the checker's             *)
(* _architecture): a depth-first visit of the modules in their sorted      *)
(* order.  The imports of a module are a Python set: they are visited in   *)
(* an order that changes from process to process.                          *)
(*                                                                         *)
(* A name is a sequence of parts.  What a module imports may be a module,  *)
(* something in one, or something that is not there.                       *)
(***************************************************************************)
EXTENDS Naturals, Sequences, FiniteSets

CONSTANTS
    Names,      \* what may be imported
    Modules,    \* the files that are checked
    Sorted      \* the modules in their order

(* What NamesAssumption says of the three is what the caller passes.       *)
NamesAssumption ==
    /\ Names \subseteq Seq(STRING)
    /\ Modules \subseteq Names
    /\ Sorted \in Seq(Modules)
    /\ \A m \in Modules : \E i \in DOMAIN Sorted : Sorted[i] = m

VARIABLES
    imports,    \* the graph: what each module imports
    next,       \* the root the loop over the sorted modules comes to
    stack,      \* the calls of visit: module (together, active) and what of
                \* its imports is to be visited
    visited,    \* the set of that name, in the order it is filled
    errors      \* the cycles found

searchVars == <<imports, next, stack, visited, errors>>

(* The loop that takes parts off the end of a name until it is a module,   *)
(* or nothing is left.                                                     *)
Known(name) == {SubSeq(name, 1, k) : k \in 1..Len(name)} \cap Modules
Resolved(name) ==
    IF Known(name) = {} THEN <<>>
    ELSE CHOOSE p \in Known(name) : \A q \in Known(name) : Len(q) <= Len(p)
Resolves(name) == Resolved(name) \in Modules

(* Faulty variant: only whole modules, not what is in them.                *)
FaultyDependencies(m) == imports[m] \cap Modules
Dependencies(m) == imports[m]

Active(m) == \E i \in DOMAIN stack : stack[i].module = m
Visited(m) == \E i \in DOMAIN visited : visited[i] = m

(* The part of the active modules from m on, and m again.                  *)
CycleFrom(i) ==
    [j \in 1..(Len(stack) - i + 2) |->
        IF j = Len(stack) - i + 2 THEN stack[i].module ELSE stack[i + j - 1].module]
----------------------------------------------------------------------------
SearchInit ==
    /\ imports \in [Modules -> SUBSET Names]
    /\ next = 1 /\ stack = <<>> /\ visited = <<>> /\ errors = {}

Frame(m) == [module |-> m, todo |-> Dependencies(m)]

(* The loop over sorted(graph).                                            *)
VisitRoot ==
    /\ stack = <<>> /\ next \in DOMAIN Sorted
    /\ next' = next + 1
    /\ stack' = IF Visited(Sorted[next]) THEN <<>> ELSE <<Frame(Sorted[next])>>
    /\ UNCHANGED <<imports, visited, errors>>

Rest(name) == [stack EXCEPT ![Len(stack)].todo = @ \ {name}]

Pending(name) == stack # <<>> /\ name \in stack[Len(stack)].todo

(* visit() of what is active reports the cycle ...                         *)
Report(name) ==
    /\ Pending(name) /\ Resolves(name) /\ Active(Resolved(name))
    /\ \E i \in DOMAIN stack :
         /\ stack[i].module = Resolved(name)
         /\ errors' = errors \cup {CycleFrom(i)}
    /\ stack' = Rest(name)
    /\ UNCHANGED <<imports, next, visited>>

(* ... of what was visited returns; a name that is no module is not        *)
(* visited ...                                                             *)
Skip(name) ==
    /\ Pending(name)
    /\ Resolves(name) => ~Active(Resolved(name)) /\ Visited(Resolved(name))
    /\ stack' = Rest(name)
    /\ UNCHANGED <<imports, next, visited, errors>>

(* ... and goes on to the imports of anything else.                        *)
Descend(name) ==
    /\ Pending(name) /\ Resolves(name)
    /\ ~Active(Resolved(name)) /\ ~Visited(Resolved(name))
    /\ stack' = Append(Rest(name), Frame(Resolved(name)))
    /\ UNCHANGED <<imports, next, visited, errors>>

Return ==
    /\ stack # <<>> /\ stack[Len(stack)].todo = {}
    /\ visited' = Append(visited, stack[Len(stack)].module)
    /\ stack' = SubSeq(stack, 1, Len(stack) - 1)
    /\ UNCHANGED <<imports, next, errors>>

SearchNext ==
    \/ VisitRoot \/ Return
    \/ \E name \in Names : Report(name) \/ Skip(name) \/ Descend(name)

SearchSpec == SearchInit /\ [][SearchNext]_searchVars
----------------------------------------------------------------------------
Edge(m, d) == \E name \in imports[m] : Resolves(name) /\ d = Resolved(name)

(* There is an order in which no module comes before one that it imports.  *)
Acyclic ==
    \E rank \in [Modules -> 0..Cardinality(Modules)] :
        \A m, d \in Modules : Edge(m, d) => rank[d] < rank[m]

Done == stack = <<>> /\ next \notin DOMAIN Sorted

ClosedPath(path) ==
    /\ Len(path) > 1 /\ path[1] = path[Len(path)]
    /\ \A i \in 1..(Len(path) - 1) : Edge(path[i], path[i + 1])

(* Whatever order Python's sets are visited in, so that each process gets  *)
(* the same verdict: when cycle_errors reports nothing there is no cycle,  *)
(* and each cycle it reports is one of imports.                            *)
VerdictIsRight ==
    /\ \A path \in errors : ClosedPath(path)
    /\ Done /\ errors = {} => Acyclic
=============================================================================
