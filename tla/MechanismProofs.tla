--------------------------- MODULE MechanismProofs ---------------------------
(***************************************************************************)
(* Proofs about three mechanisms that stand alone: the directory locks,    *)
(* the search for import cycles, and the event stream that a page follows. *)
(***************************************************************************)
EXTENDS DirectoryLock, DependencyCycles, EventStream,
        FiniteSetTheorems, SequenceTheorems, TLAPS
----------------------------------------------------------------------------
(* The directory locks.                                                    *)
(*                                                                         *)
(* Mutual exclusion, for any number of processes on any number of machines,*)
(* any crashes, failures and delays and any number of waiters breaking the *)
(* lock together, until one of them breaks the lock of a live process.     *)

(* Alive and somewhere between making the directory and leaving it.        *)
Engaged(p) == p \in alive /\ pc[p] \in Creating \cup Holding

(* The inductive invariant.  Mutual exclusion says nothing of a process    *)
(* that is still creating or already removing the directory; those must be *)
(* alone as well, and the directory must show that they are there: a       *)
(* breaker that passes them by then hits a directory whose process is dead.*)
(* The first two hold even after a lock was stolen.                        *)
EmptyWhenAbsent == ~present => owner = NoOwner /\ temps = {} /\ ~aged
TemporaryThere ==
    \A p \in alive : pc[p] = "temporary" <=> p \in temps
EngagedAlone == \A p, q \in Processes : Engaged(p) /\ Engaged(q) => p = q
EngagedPresent ==
    \A p \in alive :
        /\ Engaged(p) => present
        /\ pc[p] \in Creating \cup {"rmdir"} => owner = NoOwner
        /\ pc[p] \in {"critical", "unlink"} => owner = p

DirectoryInv ==
    /\ LockTypeOK
    /\ EmptyWhenAbsent
    /\ TemporaryThere
    /\ ~stolen => EngagedAlone /\ EngagedPresent

LEMMA DirectoryInit == LockInit => DirectoryInv
  BY LockAssumption
  DEF LockInit, DirectoryInv, LockTypeOK, EmptyWhenAbsent, TemporaryThere, EngagedAlone,
      EngagedPresent, Engaged, Creating, Holding, Breaking

LEMMA DirectoryStep ==
  ASSUME DirectoryInv, [LockNext]_lockVars
  PROVE  DirectoryInv'
<1> USE LockAssumption
    DEF DirectoryInv, LockTypeOK, EmptyWhenAbsent, TemporaryThere, EngagedAlone,
        EngagedPresent, Engaged, Creating, Holding, Breaking, At, Goto, directory
<1>1. ASSUME NEW p \in Processes, Begin(p) PROVE DirectoryInv'
  BY <1>1 DEF Begin
<1>2. ASSUME NEW p \in Processes, MakeDirectory(p) PROVE DirectoryInv'
  <2>1. CASE present
    BY <1>2, <2>1 DEF MakeDirectory
  <2>2. CASE ~present
    <3>1. owner = NoOwner /\ temps = {}
      BY <2>2
    <3>2. ~stolen => \A q \in Processes : ~Engaged(q)
      BY <2>2
    <3>3. LockTypeOK' /\ EmptyWhenAbsent' /\ TemporaryThere'
      BY <1>2, <2>2 DEF MakeDirectory
    <3>4. ~stolen' => EngagedAlone'
      BY <1>2, <2>2, <3>2 DEF MakeDirectory
    <3>5. ~stolen' => EngagedPresent'
      BY <1>2, <2>2, <3>1, <3>2 DEF MakeDirectory
    <3> QED
      BY <3>3, <3>4, <3>5
  <2> QED
    BY <2>1, <2>2
<1>3. ASSUME NEW p \in Processes, EnsureDirectory(p) PROVE DirectoryInv'
  BY <1>3 DEF EnsureDirectory
<1>4. ASSUME NEW p \in Processes, MakeTemporary(p) PROVE DirectoryInv'
  <2>1. CASE present
    <3>1. pc' = [pc EXCEPT ![p] = "temporary"] /\ temps' = temps \cup {p} /\ aged' = FALSE
      BY <1>4, <2>1 DEF MakeTemporary
    <3>2. UNCHANGED <<kind, present, owner, alive, stolen>> /\ pc[p] = "ensured"
      BY <1>4, <2>1 DEF MakeTemporary
    <3>3. LockTypeOK' /\ EmptyWhenAbsent' /\ TemporaryThere'
      BY <2>1, <3>1, <3>2
    <3>4. ~stolen' => EngagedAlone' /\ EngagedPresent'
      BY <3>1, <3>2
    <3> QED
      BY <3>3, <3>4
  <2>2. CASE ~present
    BY <1>4, <2>2 DEF MakeTemporary
  <2> QED
    BY <2>1, <2>2
<1>5. ASSUME NEW p \in Processes, PublishOwner(p) PROVE DirectoryInv'
  <2>1. pc[p] = "temporary" /\ p \in temps /\ present
    <3>1. pc[p] = "temporary" /\ p \in alive
      BY <1>5 DEF PublishOwner
    <3>2. p \in temps
      BY <3>1
    <3>3. temps # {}
      BY <3>2
    <3> QED
      BY <3>1, <3>2, <3>3
  <2>2. LockTypeOK' /\ EmptyWhenAbsent' /\ TemporaryThere'
    BY <1>5, <2>1 DEF PublishOwner
  <2>3. ~stolen => \A q \in Processes : Engaged(q) => q = p
    BY <1>5, <2>1 DEF PublishOwner
  <2>4. ~stolen' => EngagedAlone'
    BY <1>5, <2>3 DEF PublishOwner
  <2>5. ~stolen' => EngagedPresent'
    BY <1>5, <2>1, <2>3 DEF PublishOwner
  <2> QED
    BY <2>2, <2>4, <2>5
<1>6. ASSUME NEW p \in Processes, DecideToBreak(p) PROVE DirectoryInv'
  BY <1>6 DEF DecideToBreak, Breakable, KnownDead
<1>7. ASSUME NEW p \in Processes, KeepWaiting(p) \/ Timeout(p) PROVE DirectoryInv'
  BY <1>7 DEF KeepWaiting, Timeout
<1>8. ASSUME NEW p \in Processes, BreakUnlink(p) PROVE DirectoryInv'
  <2>1. CASE owner = NoOwner
    BY <1>8, <2>1 DEF BreakUnlink
  <2>2. CASE owner # NoOwner
    <3>1. LockTypeOK' /\ EmptyWhenAbsent' /\ TemporaryThere'
      <4>1. owner' = NoOwner /\ aged' = FALSE /\ UNCHANGED <<kind, present, temps, alive>>
            /\ stolen' \in BOOLEAN
        BY <1>8, <2>2 DEF BreakUnlink
      <4>2. pc' = [pc EXCEPT ![p] = "breakRmdir"] /\ pc[p] = "breakUnlink"
        BY <1>8, <2>2 DEF BreakUnlink
      <4>3. LockTypeOK' /\ EmptyWhenAbsent'
        BY <4>1, <4>2
      <4>4. TemporaryThere'
        BY <4>1, <4>2
      <4> QED
        BY <4>3, <4>4
    <3>2. ~stolen' => owner \notin alive /\ ~stolen
      BY <1>8, <2>2 DEF BreakUnlink
    <3>3. ~stolen' => \A q \in Processes : ~Engaged(q)
      BY <2>2, <3>2
    <3>4. ~stolen' => EngagedAlone' /\ EngagedPresent'
      BY <1>8, <2>2, <3>3 DEF BreakUnlink
    <3> QED
      BY <3>1, <3>4
  <2> QED
    BY <2>1, <2>2
<1>9. ASSUME NEW p \in Processes, BreakRmdir(p) PROVE DirectoryInv'
  <2>1. CASE Removable
    <3>1. LockTypeOK' /\ EmptyWhenAbsent' /\ TemporaryThere'
      BY <1>9, <2>1 DEF BreakRmdir, RemoveIfEmpty, Removable
    <3>2. ~stolen' => ~stolen /\ \A q \in alive : pc[q] \notin {"created", "ensured", "rmdir"}
      BY <1>9, <2>1 DEF BreakRmdir
    <3>3. \A q \in alive : pc[q] # "temporary"
      <4>1. temps = {}
        BY <2>1 DEF Removable
      <4>2. \A q \in alive : q \notin temps
        BY <4>1
      <4> QED
        BY <4>2
    <3>4. ~stolen' => \A q \in Processes : ~Engaged(q)
      BY <2>1, <3>2, <3>3 DEF Removable
    <3>5. ~stolen' => EngagedAlone' /\ EngagedPresent'
      BY <1>9, <3>4 DEF BreakRmdir
    <3> QED
      BY <3>1, <3>5
  <2>2. CASE ~Removable
    <3>1. UNCHANGED <<kind, directory, alive, stolen>>
      BY <1>9, <2>2 DEF BreakRmdir, RemoveIfEmpty
    <3>2. pc' = [pc EXCEPT ![p] = "mkdir"] /\ pc[p] = "breakRmdir"
      BY <1>9 DEF BreakRmdir
    <3> QED
      BY <3>1, <3>2
  <2> QED
    BY <2>1, <2>2
<1>10. ASSUME NEW p \in Processes, BeginRelease(p) PROVE DirectoryInv'
  BY <1>10 DEF BeginRelease
<1>11. ASSUME NEW p \in Processes, ReleaseUnlink(p) PROVE DirectoryInv'
  BY <1>11 DEF ReleaseUnlink
<1>12. ASSUME NEW p \in Processes, ReleaseRmdir(p) PROVE DirectoryInv'
  BY <1>12 DEF ReleaseRmdir, RemoveIfEmpty, Removable
<1>13. ASSUME NEW p \in Processes, Crash(p) PROVE DirectoryInv'
  BY <1>13 DEF Crash
<1>16. ASSUME NEW p \in Processes, Fails(p) PROVE DirectoryInv'
  BY <1>16 DEF Fails
<1>14. ASSUME GracePasses PROVE DirectoryInv'
  BY <1>14 DEF GracePasses
<1>15. ASSUME UNCHANGED lockVars PROVE DirectoryInv'
  BY <1>15 DEF lockVars
<1> QED
  BY <1>1, <1>2, <1>3, <1>4, <1>5, <1>6, <1>7, <1>8, <1>9, <1>10, <1>11, <1>12,
     <1>13, <1>14, <1>15, <1>16 DEF LockNext, Step

LEMMA DirectoryInvImplies == DirectoryInv => ExclusiveUnlessStolen /\ OwnerFileTruthful
  BY DEF DirectoryInv, LockTypeOK, EngagedAlone, EngagedPresent, Engaged, Creating, Holding,
         Breaking, MutualExclusion, ExclusiveUnlessStolen, OwnerFileTruthful

(* Two live processes are inside a directory lock together only after a    *)
(* waiter has removed the owner file or the directory of a live process:   *)
(* state/locks.py and RunStore._lock, for every set of processes and       *)
(* machines.                                                               *)
THEOREM LockIsExclusive == LockSpec => []ExclusiveUnlessStolen
<1>1. DirectoryInv /\ [LockNext]_lockVars => DirectoryInv'
  BY DirectoryStep
<1> QED
  BY DirectoryInit, <1>1, DirectoryInvImplies, PTL DEF LockSpec

(* Until then whoever is inside reads its own name in OWNER.json, so that  *)
(* nobody who judges the lock by that file breaks it under a live holder.  *)
THEOREM OwnerIsNamed == LockSpec => []OwnerFileTruthful
<1>1. DirectoryInv /\ [LockNext]_lockVars => DirectoryInv'
  BY DirectoryStep
<1> QED
  BY DirectoryInit, <1>1, DirectoryInvImplies, PTL DEF LockSpec
----------------------------------------------------------------------------
(* The search for import cycles.                                           *)
(*                                                                         *)
(* Its verdict is right for every set of modules and every import graph.   *)
(* The order in which modules are finished is the witness that there is no *)
(* cycle: while none is reported, what a finished module imports was       *)
(* finished before it.                                                     *)

Call == [module : Modules, todo : SUBSET Names]

Shape ==
    /\ imports \in [Modules -> SUBSET Names]
    /\ next \in 1..(Len(Sorted) + 1)
    /\ stack \in Seq(Call)
    /\ visited \in Seq(Modules)

(* The active calls are a path, each with imports of its own to visit.     *)
ActivePath ==
    /\ \A i \in 1..(Len(stack) - 1) : Edge(stack[i].module, stack[i + 1].module)
    /\ \A i \in DOMAIN stack : stack[i].todo \subseteq imports[stack[i].module]

(* A module is visited once.                                               *)
Once ==
    /\ \A i, j \in DOMAIN visited : visited[i] = visited[j] => i = j
    /\ \A i, j \in DOMAIN stack : stack[i].module = stack[j].module => i = j
    /\ \A i \in DOMAIN stack : ~Visited(stack[i].module)

Sound == \A path \in errors : ClosedPath(path)

(* Whatever is no longer to be visited was, or is what is visited now.     *)
Explored ==
    errors = {} =>
        \A i \in DOMAIN stack :
            \A name \in imports[stack[i].module] \ stack[i].todo :
                Resolves(name) =>
                    \/ Visited(Resolved(name))
                    \/ i < Len(stack) /\ stack[i + 1].module = Resolved(name)

Ordered ==
    errors = {} =>
        \A i \in DOMAIN visited : \A d \in Modules :
            Edge(visited[i], d) => \E j \in 1..(i - 1) : visited[j] = d

Rooted ==
    \A k \in 1..(next - 1) :
        \/ Visited(Sorted[k])
        \/ stack # <<>> /\ stack[1].module = Sorted[k]

SearchInv == Shape /\ ActivePath /\ Once /\ Sound /\ Explored /\ Ordered /\ Rooted
----------------------------------------------------------------------------
LEMMA SearchInvInit ==
  ASSUME NamesAssumption
  PROVE  SearchInit => SearchInv
  BY DEF NamesAssumption, SearchInit, SearchInv, Shape, ActivePath, Once, Sound, Explored,
     Ordered, Rooted

(* Crossing a name off changes nothing else of the calls.                  *)
LEMMA RestIsStack ==
  ASSUME Shape, NEW name, Pending(name)
  PROVE  /\ Rest(name) \in Seq(Call)
         /\ Len(Rest(name)) = Len(stack)
         /\ \A i \in DOMAIN stack : Rest(name)[i].module = stack[i].module
         /\ \A i \in DOMAIN stack : i # Len(stack) => Rest(name)[i] = stack[i]
         /\ Rest(name)[Len(stack)].todo = stack[Len(stack)].todo \ {name}
<1>1. Len(stack) \in DOMAIN stack
  BY DEF Shape, Pending
<1>2. stack[Len(stack)] \in Call
  BY <1>1 DEF Shape
<1>. QED  BY <1>1, <1>2 DEF Rest, Shape, Call

LEMMA CrossedOff ==
  ASSUME Shape, ActivePath, Once, Rooted, NEW name, Pending(name),
         stack' = Rest(name), UNCHANGED <<imports, next, visited>>
  PROVE  /\ Shape' /\ ActivePath' /\ Once' /\ Rooted'
         /\ DOMAIN stack' = DOMAIN stack /\ Len(stack') = Len(stack)
<1>. DEFINE n == Len(stack)
<1>1. /\ stack' \in Seq(Call) /\ Len(stack') = n /\ n \in Nat
      /\ DOMAIN stack' = 1..n /\ DOMAIN stack = 1..n
      /\ \A k \in 1..n : stack'[k].module = stack[k].module
      /\ \A k \in 1..n : stack'[k].todo \subseteq stack[k].todo
  BY RestIsStack DEF Shape
<1>2. \A a, d : Edge(a, d)' <=> Edge(a, d)
  BY DEF Edge
<1>3. \A d : Visited(d)' <=> Visited(d)
  BY DEF Visited
<1>4. Shape'
  BY <1>1 DEF Shape
<1>5. ActivePath'
  <2>1. \A k \in 1..(n - 1) : k \in 1..n /\ k + 1 \in 1..n
    BY <1>1
  <2>. QED  BY <1>1, <1>2, <2>1 DEF ActivePath
<1>6. Once'
  BY <1>1, <1>3 DEF Once
<1>7. Rooted'
  BY <1>1, <1>3 DEF Rooted
<1>. QED  BY <1>1, <1>4, <1>5, <1>6, <1>7

LEMMA RootStep ==
  ASSUME NamesAssumption, SearchInv, VisitRoot
  PROVE  SearchInv'
<1>. USE DEF SearchInv, VisitRoot, Frame, Dependencies
<1>0. Sorted \in Seq(Modules) /\ Sorted[next] \in Modules
  BY DEF NamesAssumption
<1>1. Shape'
  <2>1. Frame(Sorted[next]) \in Call
    BY <1>0 DEF Shape, Call
  <2>2. next + 1 \in 1..(Len(Sorted) + 1)
    BY <1>0
  <2>. QED  BY <2>1, <2>2 DEF Shape
<1>2. ActivePath'
  BY <1>0 DEF ActivePath
<1>3. Once'
  BY <1>0 DEF Once, Visited
<1>4. Sound'
  BY DEF Sound, ClosedPath, Edge
<1>5. Explored'
  BY DEF Explored
<1>6. Ordered'
  BY DEF Ordered, Edge
<1>7. Rooted'
  <2>1. next \in Nat \ {0} /\ next' = next + 1 /\ visited' = visited
    BY <1>0 DEF Shape
  <2>2. \A k \in 1..(next - 1) : Visited(Sorted[k])
    BY DEF Rooted
  <2>3. \A m : Visited(m)' <=> Visited(m)
    BY <2>1 DEF Visited
  <2>4. ASSUME NEW k \in 1..(next' - 1)
        PROVE  \/ Visited(Sorted[k])'
               \/ stack' # <<>> /\ stack'[1].module = Sorted[k]
    <3>1. CASE k = next
      <4>1. ~Visited(Sorted[next]) => stack'[1].module = Sorted[next] /\ stack' # <<>>
        OBVIOUS
      <4>. QED  BY <3>1, <4>1, <2>3
    <3>2. CASE k # next
      BY <2>1, <2>2, <2>3, <3>2
    <3>. QED  BY <3>1, <3>2
  <2>. QED  BY <2>4 DEF Rooted
<1>. QED  BY <1>1, <1>2, <1>3, <1>4, <1>5, <1>6, <1>7

LEMMA ReportStep ==
  ASSUME SearchInv, NEW name, Report(name)
  PROVE  SearchInv'
<1>. USE DEF SearchInv
<1>1. PICK i \in DOMAIN stack : /\ stack[i].module = Resolved(name)
                                /\ errors' = errors \cup {CycleFrom(i)}
  BY DEF Report
<1>2. /\ Shape' /\ ActivePath' /\ Once' /\ Rooted'
  BY CrossedOff DEF Report
<1>4. CycleFrom(i) \in errors'
  BY <1>1
<1>8. Sound'
  <2>1. ClosedPath(CycleFrom(i))
    <3>. DEFINE n == Len(stack) - i + 2  p == CycleFrom(i)
    <3>1. n \in Nat /\ n > 1 /\ i \in 1..Len(stack) /\ Len(stack) \in Nat
      BY DEF Shape
    <3>2. Len(p) = n /\ p[1] = stack[i].module /\ p[n] = stack[i].module
      BY <3>1 DEF CycleFrom
    <3>3. ASSUME NEW k \in 1..(n - 1)
          PROVE  Edge(p[k], p[k + 1])
      <4>1. CASE k = n - 1
        <5>1. p[k] = stack[Len(stack)].module /\ p[k + 1] = Resolved(name)
          BY <1>1, <3>1, <3>2, <4>1 DEF CycleFrom
        <5>2. name \in imports[stack[Len(stack)].module] /\ Resolves(name)
          BY DEF Report, Pending, ActivePath, Shape
        <5>. QED  BY <5>1, <5>2 DEF Edge
      <4>2. CASE k # n - 1
        <5>1. p[k] = stack[i + k - 1].module /\ p[k + 1] = stack[i + k].module
          BY <3>1, <4>2 DEF CycleFrom
        <5>2. i + k - 1 \in 1..(Len(stack) - 1) /\ (i + k - 1) + 1 = i + k
          BY <3>1, <4>2
        <5>. QED  BY <5>1, <5>2 DEF ActivePath
      <4>. QED  BY <4>1, <4>2
    <3>. QED  BY <3>1, <3>2, <3>3 DEF ClosedPath
  <2>2. \A a, d : Edge(a, d)' <=> Edge(a, d)
    BY DEF Report, Edge
  <2>3. \A path : ClosedPath(path)' <=> ClosedPath(path)
    BY <2>2 DEF ClosedPath
  <2>. QED  BY <1>1, <2>1, <2>3 DEF Sound
<1>9. Explored' /\ Ordered'
  BY <1>4 DEF Explored, Ordered
<1>. QED  BY <1>2, <1>8, <1>9

LEMMA SkipStep ==
  ASSUME SearchInv, NEW name, Skip(name)
  PROVE  SearchInv'
<1>. USE DEF SearchInv
<1>1. /\ Rest(name) \in Seq(Call) /\ Len(Rest(name)) = Len(stack)
      /\ \A k \in DOMAIN stack : Rest(name)[k].module = stack[k].module
      /\ \A k \in DOMAIN stack : k # Len(stack) => Rest(name)[k] = stack[k]
      /\ Rest(name)[Len(stack)].todo = stack[Len(stack)].todo \ {name}
  BY RestIsStack DEF Skip
<1>2. /\ stack' = Rest(name) /\ visited' = visited /\ next' = next
      /\ imports' = imports /\ errors' = errors /\ DOMAIN stack' = DOMAIN stack
  BY <1>1 DEF Skip, Shape
<1>3. Shape' /\ ActivePath' /\ Once' /\ Rooted'
  BY CrossedOff DEF Skip
<1>6. Sound' /\ Ordered'
  BY <1>2 DEF Sound, ClosedPath, Edge, Ordered
<1>7. Explored'
  <2>. SUFFICES ASSUME errors = {}, NEW k \in DOMAIN stack,
                       NEW n \in imports[stack[k].module] \ stack'[k].todo,
                       Resolves(n)
                PROVE  \/ Visited(Resolved(n))
                       \/ k < Len(stack) /\ stack[k + 1].module = Resolved(n)
    BY <1>1, <1>2 DEF Explored, Visited, Shape
  <2>1. CASE n \notin stack[k].todo
    BY <2>1 DEF Explored
  <2>2. CASE n \in stack[k].todo
    <3>1. n = name
      BY <1>1, <1>2, <2>2
    <3>. QED  BY <3>1 DEF Skip
  <2>. QED  BY <2>1, <2>2
<1>. QED  BY <1>3, <1>6, <1>7

LEMMA DescendStep ==
  ASSUME SearchInv, NEW name, Descend(name)
  PROVE  SearchInv'
<1>. USE DEF SearchInv
<1>. DEFINE m == Resolved(name)  n == Len(stack)
<1>1. /\ Rest(name) \in Seq(Call) /\ Len(Rest(name)) = n
      /\ \A k \in DOMAIN stack : Rest(name)[k].module = stack[k].module
      /\ \A k \in DOMAIN stack : k # n => Rest(name)[k] = stack[k]
      /\ Rest(name)[n].todo = stack[n].todo \ {name}
  BY RestIsStack DEF Descend
<1>2. /\ m \in Modules /\ Frame(m) \in Call /\ n \in Nat \ {0}
      /\ ~Visited(m) /\ ~Active(m)
      /\ name \in stack[n].todo /\ name \in imports[stack[n].module]
  BY DEF Descend, Pending, Resolves, Frame, Dependencies, Call, Shape, ActivePath
<1>3. /\ stack' = Append(Rest(name), Frame(m)) /\ visited' = visited /\ next' = next
      /\ imports' = imports /\ errors' = errors
  BY DEF Descend
<1>4. /\ stack' \in Seq(Call) /\ Len(stack') = n + 1 /\ DOMAIN stack' = 1..(n + 1)
      /\ DOMAIN stack = 1..n
      /\ \A k \in 1..n : stack'[k] = Rest(name)[k] /\ stack'[k].module = stack[k].module
      /\ stack'[n + 1].module = m /\ stack'[n + 1].todo = imports[m]
  BY <1>1, <1>2, <1>3 DEF Shape, Frame, Dependencies
<1>5. Shape'
  BY <1>3, <1>4 DEF Shape
<1>6. ActivePath'
  <2>1. Edge(stack[n].module, m)
    BY <1>2 DEF Edge, Resolves
  <2>2. ASSUME NEW k \in 1..n
        PROVE  Edge(stack'[k].module, stack'[k + 1].module)
    <3>1. CASE k = n
      BY <1>4, <2>1, <3>1
    <3>2. CASE k # n
      <4>1. k \in 1..(n - 1) /\ k + 1 \in 1..n
        BY <1>2, <3>2
      <4>. QED  BY <1>4, <4>1 DEF ActivePath
    <3>. QED  BY <3>1, <3>2
  <2>3. \A a, d : Edge(a, d)' <=> Edge(a, d)
    BY <1>3 DEF Edge
  <2>4. \A k \in 1..(n + 1) : stack'[k].todo \subseteq imports[stack'[k].module]
    BY <1>1, <1>2, <1>4 DEF ActivePath
  <2>. QED  BY <1>2, <1>3, <1>4, <2>2, <2>3, <2>4 DEF ActivePath
<1>7. Once'
  <2>1. \A k \in 1..n : stack[k].module # m
    BY <1>2, <1>4 DEF Active
  <2>. QED  BY <1>2, <1>3, <1>4, <2>1 DEF Once, Visited
<1>8. Sound' /\ Ordered'
  BY <1>3 DEF Sound, ClosedPath, Edge, Ordered
<1>9. Explored'
  <2>. SUFFICES ASSUME errors = {}, NEW k \in 1..(n + 1),
                       NEW x \in imports[stack'[k].module] \ stack'[k].todo,
                       Resolves(x)
                PROVE  \/ Visited(Resolved(x))
                       \/ k < n + 1 /\ stack'[k + 1].module = Resolved(x)
    BY <1>3, <1>4 DEF Explored, Visited
  <2>1. k \in 1..n
    BY <1>2, <1>4
  <2>2. CASE x \in stack[k].todo
    <3>1. x = name /\ k = n
      BY <1>1, <1>4, <2>1, <2>2
    <3>. QED  BY <1>2, <1>4, <3>1
  <2>3. CASE x \notin stack[k].todo
    <3>1. \/ Visited(Resolved(x))
          \/ k < n /\ stack[k + 1].module = Resolved(x)
      BY <1>4, <2>1, <2>3 DEF Explored
    <3>. QED  BY <1>2, <1>4, <2>1, <3>1
  <2>. QED  BY <2>2, <2>3
<1>10. Rooted'
  BY <1>2, <1>3, <1>4 DEF Rooted, Visited
<1>. QED  BY <1>5, <1>6, <1>7, <1>8, <1>9, <1>10

LEMMA ReturnStep ==
  ASSUME SearchInv, Return
  PROVE  SearchInv'
<1>. USE DEF SearchInv
<1>. DEFINE n == Len(stack)  v == Len(visited)  m == stack[n].module
<1>1. /\ n \in Nat \ {0} /\ v \in Nat /\ m \in Modules
      /\ DOMAIN stack = 1..n /\ DOMAIN visited = 1..v
  <2>1. Len(stack) \in DOMAIN stack
    BY DEF Return, Shape
  <2>2. stack[Len(stack)] \in Call
    BY <2>1 DEF Shape
  <2>. QED  BY <2>1, <2>2 DEF Shape, Call
<1>2. /\ stack' = SubSeq(stack, 1, n - 1) /\ visited' = Append(visited, m)
      /\ next' = next /\ imports' = imports /\ errors' = errors /\ stack[n].todo = {}
  BY DEF Return
<1>3. /\ stack' \in Seq(Call) /\ DOMAIN stack' = 1..(n - 1) /\ Len(stack') = n - 1
      /\ \A k \in 1..(n - 1) : stack'[k] = stack[k]
  BY <1>1, <1>2 DEF Shape
<1>4. /\ visited' \in Seq(Modules) /\ DOMAIN visited' = 1..(v + 1)
      /\ \A k \in 1..v : visited'[k] = visited[k]
      /\ visited'[v + 1] = m
  BY <1>1, <1>2 DEF Shape
<1>5. \A d : Visited(d)' <=> Visited(d) \/ d = m
  BY <1>1, <1>4 DEF Visited
<1>6. \A a, d : Edge(a, d)' <=> Edge(a, d)
  BY <1>2 DEF Edge
<1>7. Shape'
  BY <1>2, <1>3, <1>4 DEF Shape
<1>8. ActivePath'
  BY <1>1, <1>2, <1>3, <1>6 DEF ActivePath
<1>9. Once'
  <2>1. \A k \in 1..v : visited[k] # m
    BY <1>1 DEF Once, Visited
  <2>2. \A k \in 1..(n - 1) : stack[k].module # m
    BY <1>1 DEF Once
  <2>3. \A i, j \in 1..(v + 1) : visited'[i] = visited'[j] => i = j
    BY <1>1, <1>4, <2>1 DEF Once
  <2>4. \A i, j \in 1..(n - 1) : stack'[i].module = stack'[j].module => i = j
    BY <1>1, <1>3 DEF Once
  <2>5. \A i \in 1..(n - 1) : ~Visited(stack[i].module)'
    BY <1>1, <1>3, <1>5, <2>2 DEF Once
  <2>. QED  BY <1>3, <1>4, <2>3, <2>4, <2>5 DEF Once
<1>10. Sound'
  BY <1>2, <1>6 DEF Sound, ClosedPath
<1>11. Explored'
  <2>. SUFFICES ASSUME errors = {}, NEW k \in 1..(n - 1),
                       NEW x \in imports[stack[k].module] \ stack[k].todo,
                       Resolves(x)
                PROVE  \/ Visited(Resolved(x))'
                       \/ k < n - 1 /\ stack'[k + 1].module = Resolved(x)
    BY <1>2, <1>3, <1>5 DEF Explored
  <2>1. \/ Visited(Resolved(x))
        \/ k < n /\ stack[k + 1].module = Resolved(x)
    BY <1>1 DEF Explored
  <2>2. CASE k = n - 1
    BY <1>1, <1>5, <2>1, <2>2
  <2>3. CASE k # n - 1
    <3>1. n \in Nat
      BY <1>1
    <3>. HIDE DEF n
    <3>2. k < n - 1 /\ k + 1 \in 1..(n - 1)
      BY <2>3, <3>1
    <3>. QED  BY <1>3, <1>5, <2>1, <3>2
  <2>. QED  BY <2>2, <2>3
<1>12. Ordered'
  <2>. SUFFICES ASSUME errors = {}, NEW i \in 1..(v + 1), NEW d \in Modules,
                       Edge(visited'[i], d)
                PROVE  \E j \in 1..(i - 1) : visited'[j] = d
    BY <1>2, <1>4, <1>6 DEF Ordered
  <2>1. CASE i = v + 1
    <3>1. PICK x \in imports[m] : Resolves(x) /\ d = Resolved(x)
      BY <1>4, <2>1 DEF Edge
    <3>2. x \in imports[stack[n].module] \ stack[n].todo /\ n \in DOMAIN stack
      BY <1>1, <1>2, <3>1
    <3>3. Visited(d)
      BY <1>1, <3>1, <3>2 DEF Explored
    <3>. QED  BY <1>1, <1>4, <2>1, <3>3 DEF Visited
  <2>2. CASE i # v + 1
    <3>1. i \in 1..v
      BY <1>1, <2>2
    <3>2. PICK j \in 1..(i - 1) : visited[j] = d
      BY <1>1, <1>4, <3>1 DEF Ordered
    <3>. QED  BY <1>1, <1>4, <3>1, <3>2
  <2>. QED  BY <2>1, <2>2
<1>13. Rooted'
  <2>. SUFFICES ASSUME NEW k \in 1..(next - 1)
                PROVE  \/ Visited(Sorted[k])'
                       \/ stack' # <<>> /\ stack'[1].module = Sorted[k]
    BY <1>2 DEF Rooted
  <2>1. Visited(Sorted[k]) \/ stack[1].module = Sorted[k]
    BY DEF Rooted
  <2>2. CASE n = 1
    BY <1>5, <2>1, <2>2
  <2>3. CASE n # 1
    BY <1>1, <1>3, <1>5, <2>1, <2>3
  <2>. QED  BY <2>2, <2>3
<1>. QED  BY <1>7, <1>8, <1>9, <1>10, <1>11, <1>12, <1>13

LEMMA SearchInvStep ==
  ASSUME NamesAssumption
  PROVE  SearchInv /\ [SearchNext]_searchVars => SearchInv'
<1>. SUFFICES ASSUME SearchInv, [SearchNext]_searchVars PROVE SearchInv'
  OBVIOUS
<1>1. CASE UNCHANGED searchVars
  <2>1. \A a, d : Edge(a, d)' <=> Edge(a, d)
    BY <1>1 DEF searchVars, Edge
  <2>2. \A path : ClosedPath(path)' <=> ClosedPath(path)
    BY <2>1 DEF ClosedPath
  <2>3. \A d : Visited(d)' <=> Visited(d)
    BY <1>1 DEF searchVars, Visited
  <2>4. Shape' /\ ActivePath' /\ Once' /\ Sound'
    BY <1>1, <2>1, <2>2, <2>3 DEF searchVars, SearchInv, Shape, ActivePath, Once, Sound
  <2>5. Explored' /\ Ordered' /\ Rooted'
    BY <1>1, <2>1, <2>3 DEF searchVars, SearchInv, Explored, Ordered, Rooted
  <2>. QED  BY <2>4, <2>5 DEF SearchInv
<1>. QED
  BY <1>1, RootStep, ReportStep, SkipStep, DescendStep, ReturnStep DEF SearchNext

(* No more modules than there are can have been finished.                  *)
LEMMA RankInRange ==
  ASSUME NamesAssumption, Shape, Once
  PROVE  Cardinality(Modules) \in Nat /\ Len(visited) <= Cardinality(Modules)
<1>1. IsFiniteSet(Modules)
  <2>1. Sorted \in Surjection(1..Len(Sorted), Modules)
    BY DEF NamesAssumption, Surjection
  <2>2. IsFiniteSet(1..Len(Sorted))
    BY FS_Interval DEF NamesAssumption
  <2>. QED  BY <2>1, <2>2, FS_Surjection
<1>2. visited \in Injection(1..Len(visited), Modules)
  BY DEF Injection, IsInjective, Shape, Once
<1>3. Cardinality(1..Len(visited)) = Len(visited) /\ Len(visited) \in Nat
  <2>1. Len(visited) \in Nat
    BY DEF Shape
  <2>. QED  BY <2>1, FS_Interval
<1>. QED  BY <1>1, <1>2, <1>3, FS_Injection, FS_CardinalityType

LEMMA FinishedIsAcyclic ==
  ASSUME NamesAssumption, SearchInv, Done, errors = {}
  PROVE  Acyclic
<1>. USE DEF SearchInv
<1>. DEFINE rank == [m \in Modules |-> CHOOSE i \in DOMAIN visited : visited[i] = m]
<1>1. ASSUME NEW m \in Modules
      PROVE  rank[m] \in DOMAIN visited /\ visited[rank[m]] = m
  <2>1. PICK k \in DOMAIN Sorted : Sorted[k] = m
    BY DEF NamesAssumption
  <2>2. k \in 1..(next - 1)
    BY DEF NamesAssumption, Done, Shape
  <2>3. Visited(m)
    BY <2>1, <2>2 DEF Rooted, Done
  <2>. QED  BY <2>3 DEF Visited
<1>. HIDE DEF rank
<1>4. DOMAIN visited = 1..Len(visited) /\ Len(visited) \in Nat
  BY DEF Shape
<1>2. rank \in [Modules -> 0..Cardinality(Modules)]
  <2>1. \A m \in Modules : rank[m] \in 0..Cardinality(Modules)
    BY <1>1, <1>4, RankInRange
  <2>. QED  BY <2>1 DEF rank
<1>3. ASSUME NEW m \in Modules, NEW d \in Modules, Edge(m, d)
      PROVE  rank[d] < rank[m]
  <2>1. PICK j \in 1..(rank[m] - 1) : visited[j] = d
    <3>1. rank[m] \in DOMAIN visited /\ Edge(visited[rank[m]], d)
      BY <1>1, <1>3
    <3>. QED  BY <3>1 DEF Ordered
  <2>2. j \in DOMAIN visited
    BY <1>1, <1>4
  <2>3. rank[d] = j
    BY <1>1, <2>1, <2>2 DEF Once
  <2>. QED  BY <1>1, <1>4, <2>3
<1>. QED  BY <1>2, <1>3 DEF Acyclic

(* Whatever the import graph and the order in which sets are visited: when *)
(* cycle_errors reports nothing there is no cycle, and what it reports is  *)
(* one.  The modules are sequences of parts and all of them are sorted.    *)
THEOREM VerdictOfTheSearch ==
  ASSUME NamesAssumption
  PROVE  SearchSpec => []VerdictIsRight
<1>1. SearchInv => VerdictIsRight
  BY FinishedIsAcyclic DEF SearchInv, Sound, VerdictIsRight
<1>. QED  BY <1>1, SearchInvInit, SearchInvStep, PTL DEF SearchSpec
----------------------------------------------------------------------------
(* The event stream.                                                       *)
(*                                                                         *)
(* A page that follows the stream misses no event, for any number of runs  *)
(* and pages, any retention limit, and any cuts, slow pages and restarts.  *)

(* The shape of what the invariant speaks about: pages, and the threads    *)
(* that serve them.                                                        *)
Follower ==
    [view : Listings \cup {None}, error : BOOLEAN, last : Nat, heard : Nat,
     old : BOOLEAN, asked : Seq(Listings \cup {None}), overtaken : Nat,
     outrun : BOOLEAN, connected : BOOLEAN, attempts : Nat, polls : Nat]
Thread ==
    [at : {"none", "list", "publish", "read"}, first : BOOLEAN, cursor : Nat,
     listed : Listings \cup {None}, sent : Seq(Message)]
StreamTyped ==
    /\ store \in Listings
    /\ published \in Nat
    /\ page \in [Pages -> Follower]
    /\ stream \in [Pages -> Thread]

(* What is on the way to a page that has last heard of event `last`: at    *)
(* most one "open", and first; then events without a gap, that begin right *)
(* after the page's last one; then, perhaps, a reset and the end.  A       *)
(* thread that goes on has sent no end, and its cursor is the number of    *)
(* the last event it has sent on, or else the one the page asked with.     *)
Events(sent) == {i \in 1..Len(sent) : sent[i].kind = "run"}
OpenFirst(sent) ==
    /\ \A i \in 1..Len(sent) : sent[i].kind = "open" => i = 1
    /\ \A j \in Events(sent) : \A i \in 1..(j - 1) : sent[i].kind \in {"open", "run"}
NoGap(last, sent) ==
    \A i \in Events(sent) :
        /\ i - 1 \in Events(sent) => sent[i].id = sent[i - 1].id + 1
        /\ i - 1 \notin Events(sent) /\ last # 0 => sent[i].id = last + 1
NoEnd(sent) == \A i \in 1..Len(sent) : sent[i].kind \in {"open", "run"}
LastSent(last, sent) ==
    IF Len(sent) \in Events(sent) THEN sent[Len(sent)].id ELSE last
CursorKept(last, s) ==
    s.at # "none" =>
        /\ NoEnd(s.sent)
        /\ s.first => s.sent = <<>>
        /\ s.cursor = LastSent(last, s.sent)
InOrder(last, s) ==
    OpenFirst(s.sent) /\ NoGap(last, s.sent) /\ CursorKept(last, s)

StreamInv ==
    \A p \in Pages :
        /\ page[p].heard \in {0, page[p].last}
        /\ InOrder(page[p].last, stream[p])

(* What StreamContiguous says of one step.                                 *)
NextHeard ==
    \A p \in Pages :
        page[p].last # 0 /\ page'[p].last # page[p].last =>
            page'[p].last \in {0, page[p].last + 1}
----------------------------------------------------------------------------
LEMMA IntervalBounds ==
  ASSUME NEW a \in Nat, NEW b \in Nat, a <= b
  PROVE  Min(a..b) = a /\ Max(a..b) = b /\ Cardinality(a..b) = b - a + 1
<1>1. \A x \in a..b : (\A y \in a..b : x <= y) <=> x = a
  OBVIOUS
<1>2. \A x \in a..b : (\A y \in a..b : x >= y) <=> x = b
  OBVIOUS
<1>3. Min(a..b) = a
  BY <1>1 DEF Min
<1>4. Max(a..b) = b
  BY <1>2 DEF Max
<1>5. Cardinality(a..b) = b - a + 1
  BY FS_Interval
<1> QED
  BY <1>3, <1>4, <1>5

(* _replay_locked: unless the cursor calls for a reset, what it is served  *)
(* are the events right after it, up to the newest; without a cursor, all  *)
(* that are retained.                                                      *)
LEMMA ReplayIsNext ==
  ASSUME published \in Nat, NEW cursor \in Nat, ~MustReset(cursor),
         Replay(cursor) # {}
  PROVE  \E first \in 1..published :
            /\ Replay(cursor) = first..published
            /\ cursor # 0 => first = cursor + 1
<1> USE EventStreamAssumption
<1> DEFINE oldest == IF published > Limit THEN published - Limit + 1 ELSE 1
           first == IF cursor >= oldest THEN cursor + 1 ELSE oldest
<1>1. oldest \in Nat \ {0} /\ first \in Nat \ {0}
  OBVIOUS
<1>2. Retained = oldest..published
  BY DEF Retained
<1>3. Replay(cursor) = first..published
  BY <1>2 DEF Replay
<1>4. first <= published /\ oldest <= published /\ Retained # {}
  BY <1>1, <1>3 DEF Replay
<1> HIDE DEF oldest
<1>5. Min(Retained) = oldest
  BY <1>1, <1>2, <1>4, IntervalBounds
<1>6. cursor # 0 => cursor + 1 >= oldest
  BY <1>1, <1>4, <1>5 DEF MustReset
<1>7. cursor # 0 => first = cursor + 1
  BY <1>1, <1>6
<1> HIDE DEF first
<1> QED
  BY <1>1, <1>3, <1>4, <1>7

LEMMA MessageKinds ==
  ASSUME NEW message \in Message
  PROVE  /\ message.kind \in {"open", "closed", "run", "reset"}
         /\ message.kind = "run" => message.id \in Nat \ {0}
         /\ message.kind = "reset" => message.view \in Listings
  BY DEF Message

(* The events of one round of the loop continue what was sent before.      *)
LEMMA EventsFollow ==
  ASSUME NEW last \in Nat, NEW sent \in Seq(Message), NEW more \in Seq(Message),
         NEW first \in Nat \ {0}, more # <<>>,
         OpenFirst(sent), NoGap(last, sent), NoEnd(sent),
         LastSent(last, sent) # 0 => first = LastSent(last, sent) + 1,
         \A i \in 1..Len(more) : more[i].kind = "run" /\ more[i].id = first + i - 1
  PROVE  /\ sent \o more \in Seq(Message)
         /\ OpenFirst(sent \o more) /\ NoGap(last, sent \o more) /\ NoEnd(sent \o more)
         /\ LastSent(last, sent \o more) = first + Len(more) - 1
<1> DEFINE cursor == LastSent(last, sent)
           n == Len(more)
<1>1. n \in Nat \ {0} /\ (cursor # 0 => first = cursor + 1)
      /\ \A i \in 1..n : more[i].kind = "run" /\ more[i].id = first + i - 1
  OBVIOUS
<1>2. /\ cursor = IF Len(sent) \in Events(sent) THEN sent[Len(sent)].id ELSE last
      /\ \A i \in 1..Len(sent) : sent[i].kind \in {"open", "run"}
  BY DEF LastSent, NoEnd
<1> HIDE DEF cursor
<1> DEFINE whole == sent \o more
<1>3. /\ whole \in Seq(Message) /\ Len(whole) = Len(sent) + n
      /\ \A i \in 1..(Len(sent) + n) :
            whole[i] = IF i <= Len(sent) THEN sent[i] ELSE more[i - Len(sent)]
  BY ConcatProperties
<1> HIDE DEF n
<1>4. Len(sent) \in Nat
  OBVIOUS
<1>5. \A i \in 1..Len(sent) : whole[i] = sent[i]
  BY <1>3, <1>4
<1>6. ASSUME NEW i \in (Len(sent) + 1)..(Len(sent) + n)
      PROVE  whole[i].kind = "run" /\ whole[i].id = first + (i - Len(sent)) - 1
  <2>1. i - Len(sent) \in 1..n /\ ~(i <= Len(sent)) /\ i \in 1..(Len(sent) + n)
    BY <1>1, <1>4
  <2>2. whole[i] = more[i - Len(sent)]
    BY <1>3, <2>1
  <2>3. /\ more[i - Len(sent)].kind = "run"
        /\ more[i - Len(sent)].id = first + (i - Len(sent)) - 1
    BY <1>1, <2>1
  <2> QED
    BY <2>2, <2>3
<1> HIDE DEF whole
<1>7. ASSUME NEW i \in 1..Len(whole)
      PROVE  i \in 1..Len(sent) \/ i \in (Len(sent) + 1)..(Len(sent) + n)
  BY <1>3, <1>4
<1>8. Events(whole) = Events(sent) \cup (Len(sent) + 1)..(Len(sent) + n)
  <2>1. \A i \in 1..Len(sent) : i \in 1..Len(whole)
    BY <1>1, <1>3, <1>4
  <2>2. \A i \in (Len(sent) + 1)..(Len(sent) + n) : i \in 1..Len(whole)
    BY <1>1, <1>3, <1>4
  <2>3. \A i \in (Len(sent) + 1)..(Len(sent) + n) : whole[i].kind = "run"
    BY <1>6
  <2> QED
    BY <1>5, <1>7, <2>1, <2>2, <2>3 DEF Events
<1>9. \A i \in 1..Len(whole) : whole[i].kind \in {"open", "run"}
  BY <1>2, <1>5, <1>6, <1>7
<1>10. OpenFirst(whole)
  <2>1. ASSUME NEW i \in 1..Len(whole), whole[i].kind = "open" PROVE i = 1
    BY <1>5, <1>6, <1>7, <2>1 DEF OpenFirst
  <2>2. ASSUME NEW j \in Events(whole), NEW i \in 1..(j - 1)
        PROVE  whole[i].kind \in {"open", "run"}
    <3>1. i \in 1..Len(whole)
      BY <2>2, <1>3, <1>4 DEF Events
    <3> QED
      BY <1>9, <3>1
  <2> QED
    BY <2>1, <2>2 DEF OpenFirst
<1>11. NoGap(last, whole)
  <2> SUFFICES ASSUME NEW i \in Events(whole)
               PROVE  /\ i - 1 \in Events(whole) => whole[i].id = whole[i - 1].id + 1
                      /\ i - 1 \notin Events(whole) /\ last # 0 => whole[i].id = last + 1
    BY DEF NoGap
  <2>0. i \in 1..Len(whole) /\ i \in Nat
    BY DEF Events
  <2>1. CASE i \in 1..Len(sent)
    <3>1. i \in Events(sent)
      BY <1>4, <1>8, <2>1
    <3>2. i - 1 \in Events(whole) <=> i - 1 \in Events(sent)
      BY <1>4, <1>8, <2>1
    <3>3. i - 1 \in Events(sent) => i - 1 \in 1..Len(sent)
      BY DEF Events
    <3>4. i - 1 \in Events(sent) => whole[i - 1] = sent[i - 1]
      BY <1>5, <3>3
    <3> QED
      BY <1>5, <2>1, <3>1, <3>2, <3>4 DEF NoGap
  <2>2. CASE i = Len(sent) + 1
    <3>1. whole[i].id = first
      <4>1. i \in (Len(sent) + 1)..(Len(sent) + n)
        BY <1>1, <1>4, <2>2
      <4>2. whole[i].id = first + (i - Len(sent)) - 1
        BY <1>6, <4>1
      <4> QED
        BY <4>2, <2>2, <1>4
    <3>2. i - 1 = Len(sent)
      BY <1>4, <2>2
    <3>3. Len(sent) \in Events(whole) <=> Len(sent) \in Events(sent)
      BY <1>4, <1>8
    <3>4. CASE Len(sent) \in Events(sent)
      <4>1. Len(sent) \in 1..Len(sent) /\ sent[Len(sent)].kind = "run"
        BY <3>4 DEF Events
      <4>2. sent[Len(sent)] \in Message
        BY <4>1
      <4>3. cursor = sent[Len(sent)].id /\ cursor # 0
        BY <1>2, <3>4, <4>1, <4>2, MessageKinds
      <4> QED
        BY <1>1, <1>5, <3>1, <3>2, <3>3, <3>4, <4>1, <4>3
    <3>5. CASE Len(sent) \notin Events(sent)
      BY <1>1, <1>2, <3>1, <3>2, <3>3, <3>5
    <3> QED
      BY <3>4, <3>5
  <2>3. CASE i \notin 1..Len(sent) /\ i # Len(sent) + 1
    <3>1. /\ i \in (Len(sent) + 1)..(Len(sent) + n)
          /\ i - 1 \in (Len(sent) + 1)..(Len(sent) + n)
      BY <1>3, <1>4, <2>0, <2>3
    <3>2. whole[i].id = first + (i - Len(sent)) - 1
      BY <1>6, <3>1
    <3>3. whole[i - 1].id = first + ((i - 1) - Len(sent)) - 1
      BY <1>6, <3>1
    <3>4. i - 1 \in Events(whole)
      BY <1>8, <3>1
    <3> QED
      BY <1>4, <2>0, <3>2, <3>3, <3>4
  <2> QED
    BY <2>1, <2>2, <2>3
<1>12. Len(whole) \in Events(whole) /\ whole[Len(whole)].id = first + n - 1
  <2>1. Len(whole) \in (Len(sent) + 1)..(Len(sent) + n)
    BY <1>1, <1>3, <1>4
  <2>2. whole[Len(whole)].id = first + (Len(whole) - Len(sent)) - 1
    BY <1>6, <2>1
  <2>3. Len(whole) - Len(sent) = n
    BY <1>1, <1>3, <1>4
  <2> QED
    BY <1>8, <2>1, <2>2, <2>3
<1> QED
  BY <1>3, <1>9, <1>10, <1>11, <1>12 DEF whole, n, NoEnd, LastSent

(* What the route sends when it opens the stream.                          *)
LEMMA OpeningInOrder ==
  ASSUME NEW last \in Nat, NEW s \in Thread, InOrder(last, s), s.at # "none",
         NEW opened, s.first => opened = s.sent \o <<[kind |-> "open"]>>,
         ~s.first => opened = s.sent
  PROVE  /\ opened \in Seq(Message)
         /\ OpenFirst(opened) /\ NoGap(last, opened)
         /\ NoEnd(opened) /\ s.cursor = LastSent(last, opened)
         /\ ~s.first => opened = s.sent
<1>0. s.sent \in Seq(Message)
  BY DEF Thread
<1>1. CASE s.first
  <2>1. s.sent = <<>> /\ s.cursor = last
    BY <1>1 DEF InOrder, CursorKept, LastSent, Events
  <2> DEFINE opening == [kind |-> "open"]
  <2>2. opened = <<opening>>
    BY <1>1, <2>1
  <2>3. opening \in Message /\ opening.kind = "open"
    BY DEF Message
  <2> HIDE DEF opening
  <2>4. opened \in Seq(Message) /\ Len(opened) = 1 /\ opened[1] = opening
    BY <2>2, <2>3
  <2>5. opened[1].kind = "open" /\ opened[1].kind # "run"
    BY <2>3, <2>4
  <2>6. \A i \in 1..Len(opened) : i = 1
    BY <2>4
  <2>7. Events(opened) = {}
    BY <2>5, <2>6 DEF Events
  <2> QED
    BY <1>1, <2>1, <2>4, <2>5, <2>6, <2>7 DEF OpenFirst, NoGap, NoEnd, LastSent
<1>2. CASE ~s.first
  <2>1. opened = s.sent
    BY <1>0, <1>2
  <2> QED
    BY <1>0, <1>2, <2>1 DEF InOrder, CursorKept
<1> QED
  BY <1>1, <1>2

(* A reset and the end take nothing of what was sent before.               *)
LEMMA ResetFollows ==
  ASSUME NEW last \in Nat, NEW sent \in Seq(Message), NEW view \in Listings,
         OpenFirst(sent), NoGap(last, sent),
         NoEnd(sent), NEW whole,
         whole = sent \o <<[kind |-> "reset", view |-> view], [kind |-> "closed"]>>
  PROVE  whole \in Seq(Message) /\ OpenFirst(whole) /\ NoGap(last, whole)
<1> DEFINE end == <<[kind |-> "reset", view |-> view], [kind |-> "closed"]>>
<1>1. [kind |-> "reset", view |-> view] \in Message /\ [kind |-> "closed"] \in Message
  BY DEF Message
<1>2. end \in Seq(Message) /\ Len(end) = 2 /\ end[1].kind = "reset" /\ end[2].kind = "closed"
  BY <1>1
<1> HIDE DEF end
<1>3. /\ whole \in Seq(Message) /\ Len(whole) = Len(sent) + 2
      /\ \A i \in 1..(Len(sent) + 2) :
            whole[i] = IF i <= Len(sent) THEN sent[i] ELSE end[i - Len(sent)]
  <2>1. whole = sent \o end
    BY DEF end
  <2>2. /\ sent \o end \in Seq(Message)
        /\ Len(sent \o end) = Len(sent) + Len(end)
        /\ \A i \in 1..(Len(sent) + Len(end)) :
              (sent \o end)[i] = IF i <= Len(sent) THEN sent[i] ELSE end[i - Len(sent)]
    BY <1>2, ConcatProperties
  <2> QED
    BY <1>2, <2>1, <2>2
<1>4. Len(sent) \in Nat
  OBVIOUS
<1>5. \A i \in 1..Len(sent) : whole[i] = sent[i]
  BY <1>3, <1>4
<1>6. whole[Len(sent) + 1].kind = "reset" /\ whole[Len(sent) + 2].kind = "closed"
  <2>1. whole[Len(sent) + 1] = end[1]
    BY <1>3, <1>4
  <2>2. whole[Len(sent) + 2] = end[2]
    BY <1>3, <1>4
  <2> QED
    BY <1>2, <2>1, <2>2
<1>7. ASSUME NEW i \in 1..Len(whole)
      PROVE  i \in 1..Len(sent) \/ i = Len(sent) + 1 \/ i = Len(sent) + 2
  BY <1>3, <1>4
<1>8. Events(whole) = Events(sent)
  <2>1. ASSUME NEW i \in Events(whole) PROVE i \in Events(sent)
    BY <1>5, <1>6, <1>7, <2>1 DEF Events
  <2>2. ASSUME NEW i \in Events(sent) PROVE i \in Events(whole)
    BY <1>3, <1>4, <1>5, <2>2 DEF Events
  <2> QED
    BY <2>1, <2>2
<1>9. OpenFirst(whole)
  <2>1. ASSUME NEW i \in 1..Len(whole), whole[i].kind = "open" PROVE i = 1
    BY <1>5, <1>6, <1>7, <2>1 DEF OpenFirst
  <2>2. ASSUME NEW j \in Events(whole), NEW i \in 1..(j - 1)
        PROVE  whole[i].kind \in {"open", "run"}
    <3>1. j \in Events(sent) /\ i \in 1..Len(sent)
      BY <1>4, <1>8, <2>2 DEF Events
    <3> QED
      BY <1>5, <3>1 DEF NoEnd
  <2> QED
    BY <2>1, <2>2 DEF OpenFirst
<1>10. NoGap(last, whole)
  <2>1. \A i \in Events(sent) : whole[i] = sent[i]
    BY <1>5 DEF Events
  <2> QED
    BY <1>8, <2>1 DEF NoGap
<1> QED
  BY <1>3, <1>9, <1>10

(* What the page has received is off the stream; after an event the next   *)
(* one due is the one after it.                                            *)
LEMMA RestInOrder ==
  ASSUME NEW last \in Nat, NEW after \in Nat, NEW s \in Thread, NEW t \in Thread,
         s.sent # <<>>, InOrder(last, s),
         t.sent = Tail(s.sent), t.at = s.at, t.first = s.first, t.cursor = s.cursor,
         s.sent[1].kind = "run" => after = s.sent[1].id,
         s.sent[1].kind = "open" => after = last
  PROVE  /\ InOrder(after, t)
         /\ s.sent[1].kind = "run" /\ last # 0 => s.sent[1].id = last + 1
<1> DEFINE sent == s.sent
           rest == t.sent
<1>0. sent \in Seq(Message) /\ sent # <<>>
  BY DEF Thread
<1>1. /\ rest \in Seq(Message) /\ Len(rest) = Len(sent) - 1
      /\ Len(sent) \in Nat \ {0}
      /\ \A i \in 1..Len(rest) : rest[i] = sent[i + 1]
  BY <1>0, HeadTailProperties
<1>2. OpenFirst(sent) /\ NoGap(last, sent) /\ CursorKept(last, s)
  BY DEF InOrder
<1> HIDE DEF sent, rest
<1>3. \A i \in 1..Len(rest) : i \in Nat /\ i + 1 \in 1..Len(sent) /\ i + 1 # 1
  BY <1>1
<1>4. \A i \in 1..Len(rest) : rest[i].kind # "open"
  BY <1>1, <1>2, <1>3 DEF OpenFirst
<1>5. \A i \in 1..Len(rest) : i \in Events(rest) <=> i + 1 \in Events(sent)
  BY <1>1, <1>3 DEF Events
<1>6. OpenFirst(rest)
  <2>1. ASSUME NEW j \in Events(rest), NEW i \in 1..(j - 1)
        PROVE  rest[i].kind \in {"open", "run"}
    <3>1. j \in 1..Len(rest) /\ j + 1 \in Events(sent)
      BY <1>5 DEF Events
    <3>2. i \in 1..Len(rest) /\ i + 1 \in 1..((j + 1) - 1)
      BY <1>1, <3>1
    <3> QED
      BY <1>1, <1>2, <3>1, <3>2 DEF OpenFirst
  <2> QED
    BY <1>4, <2>1 DEF OpenFirst
<1>7. NoGap(after, rest)
  <2> SUFFICES ASSUME NEW i \in Events(rest)
               PROVE  /\ i - 1 \in Events(rest) => rest[i].id = rest[i - 1].id + 1
                      /\ i - 1 \notin Events(rest) /\ after # 0 => rest[i].id = after + 1
    BY DEF NoGap
  <2>1. i \in 1..Len(rest) /\ i + 1 \in Events(sent) /\ rest[i] = sent[i + 1]
    BY <1>1, <1>5 DEF Events
  <2>2. 1 \in 1..Len(sent) /\ sent[1].kind \in {"open", "run"}
    <3>1. 1 \in 1..((i + 1) - 1)
      BY <2>1
    <3> QED
      BY <1>1, <1>2, <2>1, <3>1 DEF OpenFirst
  <2>3. CASE i = 1
    <3>1. i - 1 \notin Events(rest)
      BY <2>3 DEF Events
    <3>2. CASE sent[1].kind = "run"
      <4>1. (i + 1) - 1 \in Events(sent) /\ (i + 1) - 1 = 1
        BY <2>2, <2>3, <3>2 DEF Events
      <4>2. sent[i + 1].id = sent[1].id + 1
        BY <1>2, <2>1, <4>1 DEF NoGap
      <4> QED
        BY <2>1, <3>1, <3>2, <4>2 DEF sent
    <3>3. CASE sent[1].kind = "open"
      <4>1. (i + 1) - 1 = 1 /\ 1 \notin Events(sent)
        BY <2>3, <3>3 DEF Events
      <4>2. last # 0 => sent[i + 1].id = last + 1
        BY <1>2, <2>1, <4>1 DEF NoGap
      <4> QED
        BY <2>1, <3>1, <3>3, <4>2 DEF sent
    <3> QED
      BY <2>2, <3>2, <3>3
  <2>4. CASE i # 1
    <3>1. i - 1 \in 1..Len(rest) /\ (i - 1) + 1 = i /\ (i + 1) - 1 = i
      BY <1>1, <2>1, <2>4
    <3>2. rest[i - 1] = sent[i]
      BY <1>1, <3>1
    <3>3. rest[i - 1].kind = "run"
      <4>1. i \in 1..((i + 1) - 1) /\ i \in 1..Len(sent)
        BY <1>1, <2>1
      <4>2. sent[i].kind \in {"open", "run"}
        BY <1>2, <2>1, <4>1 DEF OpenFirst
      <4> QED
        BY <1>4, <3>1, <3>2, <4>2
    <3>4. i - 1 \in Events(rest) /\ i \in Events(sent)
      <4>1. i \in 1..Len(sent)
        BY <1>1, <2>1
      <4> QED
        BY <3>1, <3>2, <3>3, <4>1 DEF Events
    <3>5. sent[i + 1].id = sent[i].id + 1
      BY <1>2, <2>1, <3>1, <3>4 DEF NoGap
    <3> QED
      BY <2>1, <3>2, <3>4, <3>5
  <2> QED
    BY <2>3, <2>4
<1>8. CursorKept(after, t)
  <2> SUFFICES ASSUME s.at # "none"
               PROVE  /\ \A i \in 1..Len(rest) : rest[i].kind \in {"open", "run"}
                      /\ ~t.first
                      /\ s.cursor = LastSent(after, rest)
    BY DEF CursorKept, NoEnd, rest
  <2>1. /\ \A i \in 1..Len(sent) : sent[i].kind \in {"open", "run"}
        /\ ~s.first
        /\ s.cursor = LastSent(last, sent)
    BY <1>0, <1>2 DEF CursorKept, NoEnd, sent
  <2>2. \A i \in 1..Len(rest) : rest[i].kind = "run"
    BY <1>1, <1>3, <1>4, <2>1
  <2>3. CASE Len(rest) = 0
    <3>1. Len(sent) = 1 /\ Len(rest) \notin Events(rest)
      <4>1. Len(rest) = Len(sent) - 1 /\ Len(sent) \in Nat
        BY <1>1
      <4>2. Len(sent) = 1
        BY <2>3, <4>1
      <4>3. Len(rest) \notin 1..Len(rest)
        BY <2>3
      <4> QED
        BY <4>2, <4>3 DEF Events
    <3>2. 1 \in 1..Len(sent) /\ sent[1].kind \in {"open", "run"}
      BY <2>1, <3>1
    <3>3. CASE sent[1].kind = "run"
      <4>1. 1 \in Events(sent)
        BY <3>2, <3>3 DEF Events
      <4> QED
        BY <2>1, <2>2, <3>1, <3>3, <4>1 DEF sent, LastSent
    <3>4. CASE sent[1].kind = "open"
      <4>1. 1 \notin Events(sent)
        BY <3>4 DEF Events
      <4> QED
        BY <2>1, <2>2, <3>1, <3>4, <4>1 DEF sent, LastSent
    <3> QED
      BY <3>2, <3>3, <3>4
  <2>4. CASE Len(rest) # 0
    <3>1. /\ Len(rest) \in 1..Len(rest) /\ Len(rest) + 1 = Len(sent)
      BY <1>1, <2>4
    <3>2. Len(rest) \in Events(rest) /\ rest[Len(rest)] = sent[Len(sent)]
      BY <1>1, <2>2, <3>1 DEF Events
    <3>3. Len(sent) \in Events(sent)
      BY <1>5, <3>1, <3>2
    <3> QED
      BY <2>1, <2>2, <3>2, <3>3 DEF LastSent
  <2> QED
    BY <2>3, <2>4
<1>9. s.sent[1].kind = "run" /\ last # 0 => s.sent[1].id = last + 1
  <2> SUFFICES ASSUME sent[1].kind = "run", last # 0 PROVE sent[1].id = last + 1
    BY DEF sent
  <2>1. 1 \in Events(sent)
    BY <1>1 DEF Events
  <2>2. 1 - 1 \notin Events(sent)
    BY DEF Events
  <2> QED
    BY <1>2, <2>1, <2>2 DEF NoGap
<1> QED
  BY <1>6, <1>7, <1>8, <1>9 DEF InOrder, rest
----------------------------------------------------------------------------
LEMMA ClosedInOrder ==
  ASSUME NEW last \in Nat PROVE Closed \in Thread /\ InOrder(last, Closed)
<1>1. Closed.sent = <<>> /\ Closed.at = "none"
  BY DEF Closed
<1>2. Events(Closed.sent) = {}
  BY <1>1 DEF Events
<1>3. Closed \in Thread
  BY DEF Closed, Thread
<1> QED
  BY <1>1, <1>2, <1>3 DEF InOrder, OpenFirst, NoGap, CursorKept

LEMMA SameInOrder ==
  ASSUME NEW last, NEW s \in Thread, NEW t \in Thread, InOrder(last, s),
         t.sent = s.sent, t.first = s.first, t.cursor = s.cursor, s.at # "none"
  PROVE  InOrder(last, t)
  BY DEF InOrder, CursorKept

(* A step that concerns one page and the thread that serves it.            *)
LEMMA OnePage ==
  ASSUME StreamTyped, StreamInv, NEW p \in Pages,
         NEW follower \in Follower, NEW thread \in Thread,
         page[p].last # 0 /\ follower.last # page[p].last =>
            follower.last \in {0, page[p].last + 1},
         follower.heard \in {0, follower.last}, InOrder(follower.last, thread),
         page' = [page EXCEPT ![p] = follower],
         stream' = [stream EXCEPT ![p] = thread]
  PROVE  /\ page' \in [Pages -> Follower] /\ stream' \in [Pages -> Thread]
         /\ StreamInv' /\ NextHeard
<1>1. page' \in [Pages -> Follower] /\ stream' \in [Pages -> Thread]
  BY DEF StreamTyped
<1>2. page'[p] = follower /\ stream'[p] = thread
  BY DEF StreamTyped
<1>3. \A q \in Pages \ {p} : page'[q] = page[q] /\ stream'[q] = stream[q]
  BY DEF StreamTyped
<1>4. ASSUME NEW q \in Pages
      PROVE  page'[q].heard \in {0, page'[q].last} /\ InOrder(page'[q].last, stream'[q])
  <2>1. CASE q = p
    BY <1>2, <2>1
  <2>2. CASE q # p
    BY <1>3, <2>2 DEF StreamInv
  <2> QED
    BY <2>1, <2>2
<1>5. NextHeard
  <2> SUFFICES ASSUME NEW q \in Pages
               PROVE  page[q].last # 0 /\ page'[q].last # page[q].last =>
                          page'[q].last \in {0, page[q].last + 1}
    BY DEF NextHeard
  <2>1. CASE q = p
    BY <1>2, <2>1
  <2>2. CASE q # p
    BY <1>3, <2>2
  <2> QED
    BY <2>1, <2>2
<1> QED
  BY <1>1, <1>4, <1>5 DEF StreamInv, InOrder, OpenFirst, NoGap, CursorKept, NoEnd, LastSent, Events

LEMMA OnePageSame ==
  ASSUME StreamTyped, NEW p \in Pages
  PROVE  /\ page[p] \in Follower /\ stream[p] \in Thread
         /\ page = [page EXCEPT ![p] = page[p]]
         /\ stream = [stream EXCEPT ![p] = stream[p]]
  BY DEF StreamTyped

LEMMA StreamInit == Init => StreamTyped /\ StreamInv
<1> SUFFICES ASSUME Init PROVE StreamTyped /\ StreamInv
  OBVIOUS
<1>1. store \in Listings
  BY EventStreamAssumption DEF Init, Listings
<1>2. <<None>> \in Seq(Listings \cup {None})
  OBVIOUS
<1>3. page \in [Pages -> Follower] /\ \A p \in Pages : page[p].last = 0 /\ page[p].heard = 0
  BY <1>2 DEF Init, Follower
<1>4. stream \in [Pages -> Thread] /\ \A p \in Pages : stream[p] = Closed
  BY ClosedInOrder DEF Init
<1>5. StreamInv
  BY <1>3, <1>4, ClosedInOrder DEF StreamInv
<1> QED
  BY <1>1, <1>3, <1>4, <1>5 DEF StreamTyped, Init

(* The server's part of a stream.                                          *)
LEMMA ListStep ==
  ASSUME StreamTyped, StreamInv, NEW p \in Pages, ListRuns(p) \/ PublishChanges(p)
  PROVE  StreamTyped' /\ StreamInv' /\ NextHeard
<1>1. stream[p] \in Thread /\ page = [page EXCEPT ![p] = page[p]] /\ page[p] \in Follower
  BY OnePageSame
<1>2. /\ page[p].heard \in {0, page[p].last} /\ InOrder(page[p].last, stream[p])
  BY DEF StreamInv
<1>3. CASE ListRuns(p)
  <2> DEFINE thread == [stream[p] EXCEPT !.at = "publish", !.listed = store]
  <2>1. thread \in Thread
    BY <1>1 DEF Thread, StreamTyped
  <2>2. stream' = [stream EXCEPT ![p] = thread] /\ page' = page /\ UNCHANGED <<store, published>>
    BY <1>3 DEF ListRuns, StreamTyped
  <2>3. stream[p].at # "none"
    BY <1>3 DEF ListRuns
  <2>4. InOrder(page[p].last, thread)
    <3>1. thread.sent = stream[p].sent /\ thread.first = stream[p].first
          /\ thread.cursor = stream[p].cursor
      BY <1>1 DEF Thread
    <3> QED
      BY <1>1, <1>2, <2>1, <2>3, <3>1, SameInOrder
  <2> HIDE DEF thread
  <2> QED
    BY <1>1, <1>2, <2>1, <2>2, <2>4, OnePage DEF StreamTyped
<1>4. CASE PublishChanges(p)
  <2> DEFINE thread == [stream[p] EXCEPT !.at = "read", !.listed = None]
  <2>1. thread \in Thread
    BY <1>1 DEF Thread, StreamTyped
  <2>2. stream' = [stream EXCEPT ![p] = thread] /\ page' = page /\ store' = store
    BY <1>4 DEF PublishChanges, StreamTyped
  <2>3. stream[p].at # "none"
    BY <1>4 DEF PublishChanges
  <2>4. InOrder(page[p].last, thread)
    <3>1. thread.sent = stream[p].sent /\ thread.first = stream[p].first
          /\ thread.cursor = stream[p].cursor
      BY <1>1 DEF Thread
    <3> QED
      BY <1>1, <1>2, <2>1, <2>3, <3>1, SameInOrder
  <2>5. published' \in Nat
    <3>1. published' = published + Cardinality({run \in Runs :
                                       seen[run] # stream[p].listed[run]})
      BY <1>4 DEF PublishChanges, Quantify
    <3>2. Cardinality({run \in Runs : seen[run] # stream[p].listed[run]}) \in Nat
      BY EventStreamAssumption, FS_Subset, FS_CardinalityType
    <3> QED
      BY <3>1, <3>2 DEF StreamTyped
  <2> HIDE DEF thread
  <2> QED
    BY <1>1, <1>2, <2>1, <2>2, <2>4, <2>5, OnePage DEF StreamTyped
<1> QED
  BY <1>3, <1>4

LEMMA ReadStep ==
  ASSUME StreamTyped, StreamInv, NEW p \in Pages, Read(p)
  PROVE  StreamTyped' /\ StreamInv' /\ NextHeard
<1> DEFINE s == stream[p]
           opening == IF s.first THEN <<[kind |-> "open"]>> ELSE <<>>
           pending == IF s.first THEN {} ELSE Replay(s.cursor)
           events == [i \in 1..Cardinality(pending) |->
                       [kind |-> "run", id |-> Min(pending) + i - 1]]
           opened == s.sent \o opening
           ending == [Closed EXCEPT !.sent = s.sent \o opening \o
                       <<[kind |-> "reset", view |-> store], [kind |-> "closed"]>>]
           going == [s EXCEPT !.at = "list", !.first = FALSE,
                              !.sent = s.sent \o opening \o events,
                              !.cursor = IF pending = {} THEN @ ELSE Max(pending)]
           last == page[p].last
<1>1. /\ s.at = "read"
      /\ stream' = [stream EXCEPT ![p] = IF MustReset(s.cursor) THEN ending ELSE going]
      /\ UNCHANGED <<store, page, published>>
  BY DEF Read, server
<1>2. /\ s \in Thread /\ page[p] \in Follower /\ page = [page EXCEPT ![p] = page[p]]
      /\ s.sent \in Seq(Message) /\ s.cursor \in Nat /\ last \in Nat
      /\ store \in Listings /\ published \in Nat
  BY OnePageSame DEF StreamTyped, Thread, Follower
<1>3. page[p].heard \in {0, last} /\ InOrder(last, s)
  BY DEF StreamInv
<1>4. /\ s.first => opened = s.sent \o <<[kind |-> "open"]>>
      /\ ~s.first => opened = s.sent
  <2>1. s.first => opening = <<[kind |-> "open"]>>
    OBVIOUS
  <2>2. ~s.first => opening = <<>>
    OBVIOUS
  <2> HIDE DEF s, opening
  <2>3. s.sent \o <<>> = s.sent
    BY <1>2, ConcatEmptySeq
  <2> QED
    BY <2>1, <2>2, <2>3
<1> HIDE DEF s, opening, events, ending, going, last, opened
<1>5. /\ opened \in Seq(Message)
      /\ OpenFirst(opened) /\ NoGap(last, opened)
      /\ NoEnd(opened) /\ s.cursor = LastSent(last, opened)
  BY <1>1, <1>2, <1>3, <1>4, OpeningInOrder
<1>6. SUFFICES ASSUME NEW thread \in Thread, InOrder(last, thread),
                      stream' = [stream EXCEPT ![p] = thread]
               PROVE  StreamTyped' /\ StreamInv' /\ NextHeard
  <2>1. CASE MustReset(s.cursor)
    <3>1. DEFINE whole == opened \o <<[kind |-> "reset", view |-> store],
                                      [kind |-> "closed"]>>
    <3>2. whole \in Seq(Message) /\ OpenFirst(whole) /\ NoGap(last, whole)
      BY <1>2, <1>5, ResetFollows
    <3>3. ending = [Closed EXCEPT !.sent = whole]
      BY DEF ending, opened
    <3> HIDE DEF whole
    <3>4. /\ ending \in Thread /\ ending.sent = whole /\ ending.at = "none"
      BY <3>2, <3>3 DEF Closed, Thread
    <3>5. InOrder(last, ending)
      BY <3>2, <3>4 DEF InOrder, CursorKept
    <3> QED
      BY <1>1, <1>6, <2>1, <3>4, <3>5
  <2>2. CASE ~MustReset(s.cursor) /\ pending = {}
    <3>1. Cardinality(pending) = 0
      BY <2>2, FS_EmptySet
    <3>2. events = <<>>
      BY <3>1 DEF events
    <3>3. going = [s EXCEPT !.at = "list", !.first = FALSE, !.sent = opened]
      <4>1. opened \o events = opened
        BY <1>5, <3>2
      <4> QED
        BY <1>2, <2>2, <4>1 DEF going, opened, Thread
    <3>4. /\ going \in Thread /\ going.sent = opened /\ going.cursor = s.cursor
          /\ ~going.first
      BY <1>2, <1>5, <3>3 DEF Thread
    <3>5. InOrder(last, going)
      BY <1>5, <3>4 DEF InOrder, CursorKept
    <3> QED
      BY <1>1, <1>6, <2>2, <3>4, <3>5
  <2>3. CASE ~MustReset(s.cursor) /\ pending # {}
    <3>1. ~s.first /\ pending = Replay(s.cursor)
      BY <2>3
    <3>2. PICK first \in 1..published :
             /\ pending = first..published
             /\ s.cursor # 0 => first = s.cursor + 1
      BY <1>2, <2>3, <3>1, ReplayIsNext
    <3>3. /\ first \in Nat \ {0} /\ first <= published
          /\ Min(pending) = first /\ Max(pending) = published
          /\ Cardinality(pending) = published - first + 1
      BY <1>2, <3>2, IntervalBounds
    <3> DEFINE n == published - first + 1
               whole == opened \o events
    <3>4. n \in Nat \ {0} /\ first + n - 1 = published
      BY <1>2, <3>3
    <3>5. events = [i \in 1..n |-> [kind |-> "run", id |-> first + i - 1]]
      BY <3>3 DEF events
    <3> HIDE DEF n, whole, pending
    <3>6. /\ whole \in Seq(Message)
          /\ OpenFirst(whole) /\ NoGap(last, whole)
          /\ NoEnd(whole) /\ LastSent(last, whole) = first + n - 1
      <4>0. /\ events \in Seq(Message) /\ Len(events) = n
            /\ \A i \in 1..n : events[i].kind = "run" /\ events[i].id = first + i - 1
        <5>1. \A i \in 1..n : [kind |-> "run", id |-> first + i - 1] \in Message
          BY <3>3, <3>4 DEF Message
        <5>2. events \in [1..n -> Message]
          BY <3>5, <5>1
        <5>3. events \in Seq(Message) /\ Len(events) = n
          BY <3>4, <5>2
        <5>4. ASSUME NEW i \in 1..n
              PROVE  events[i].kind = "run" /\ events[i].id = first + i - 1
          BY <3>5
        <5> QED
          BY <5>3, <5>4
      <4>1. /\ events \in Seq(Message) /\ events # <<>>
            /\ \A i \in 1..Len(events) :
                  events[i].kind = "run" /\ events[i].id = first + i - 1
        BY <3>4, <4>0
      <4>2. LastSent(last, opened) # 0 => first = LastSent(last, opened) + 1
        BY <1>5, <3>2
      <4>3. /\ opened \o events \in Seq(Message)
            /\ OpenFirst(opened \o events) /\ NoGap(last, opened \o events)
            /\ NoEnd(opened \o events)
            /\ LastSent(last, opened \o events) = first + Len(events) - 1
        BY <1>2, <1>5, <3>3, <4>1, <4>2, EventsFollow
      <4> QED
        BY <4>0, <4>3 DEF whole
    <3>7. going = [s EXCEPT !.at = "list", !.first = FALSE, !.sent = whole,
                            !.cursor = published]
      BY <2>3, <3>3 DEF going, opened, whole
    <3>8. /\ going \in Thread /\ going.sent = whole /\ going.cursor = published
          /\ ~going.first
      BY <1>2, <3>6, <3>7 DEF Thread
    <3>9. InOrder(last, going)
      BY <3>4, <3>6, <3>8 DEF InOrder, CursorKept
    <3> QED
      BY <1>1, <1>6, <2>3, <3>8, <3>9
  <2> QED
    BY <2>1, <2>2, <2>3
<1>7. page' = [page EXCEPT ![p] = page[p]]
  BY <1>1, <1>2
<1> QED
  BY <1>1, <1>2, <1>3, <1>6, <1>7, OnePage DEF StreamTyped, last

(* The page's part: steps that leave the thread alone.                     *)
LEMMA PageAlone ==
  ASSUME StreamTyped, StreamInv, NEW p \in Pages, NEW follower \in Follower,
         follower.last = page[p].last, follower.heard \in {0, page[p].heard},
         page' = [page EXCEPT ![p] = follower], UNCHANGED <<store, published, stream>>
  PROVE  StreamTyped' /\ StreamInv' /\ NextHeard
<1>1. stream[p] \in Thread /\ stream' = [stream EXCEPT ![p] = stream[p]]
  BY OnePageSame
<1>2. page[p].heard \in {0, page[p].last} /\ InOrder(page[p].last, stream[p])
  BY DEF StreamInv
<1> QED
  BY <1>1, <1>2, OnePage DEF StreamTyped

LEMMA AskedSeq ==
  ASSUME NEW S, NEW asked \in Seq(S)
  PROVE  /\ \A x \in S : Append(asked, x) \in Seq(S)
         /\ \A i \in DOMAIN asked : \A x \in S : [asked EXCEPT ![i] = x] \in Seq(S)
         /\ \A i \in DOMAIN asked : RemoveAt(asked, i) \in Seq(S)
         /\ asked # <<>> => Tail(asked) \in Seq(S)
<1>1. \A x \in S : Append(asked, x) \in Seq(S)
  OBVIOUS
<1>2. ASSUME NEW i \in DOMAIN asked, NEW x \in S
      PROVE  [asked EXCEPT ![i] = x] \in Seq(S)
  BY <1>2
<1>3. ASSUME NEW i \in DOMAIN asked PROVE RemoveAt(asked, i) \in Seq(S)
  <2>1. i \in 1..Len(asked) /\ Len(asked) \in Nat
    BY <1>3
  <2>2. SubSeq(asked, 1, i - 1) \in Seq(S) /\ SubSeq(asked, i + 1, Len(asked)) \in Seq(S)
    BY <2>1, SubSeqProperties
  <2> QED
    BY <2>2, ConcatProperties DEF RemoveAt
<1> QED
  BY <1>1, <1>2, <1>3

LEMMA Removed ==
  ASSUME NEW S, NEW asked \in Seq(S), NEW i \in DOMAIN asked
  PROVE  Len(RemoveAt(asked, i)) = Len(asked) - 1
<1>1. i \in 1..Len(asked) /\ Len(asked) \in Nat
  OBVIOUS
<1>2. /\ SubSeq(asked, 1, i - 1) \in Seq(S) /\ Len(SubSeq(asked, 1, i - 1)) = i - 1
      /\ SubSeq(asked, i + 1, Len(asked)) \in Seq(S)
      /\ Len(SubSeq(asked, i + 1, Len(asked))) = Len(asked) - i
  BY <1>1, SubSeqProperties
<1> DEFINE before == SubSeq(asked, 1, i - 1)
           after == SubSeq(asked, i + 1, Len(asked))
<1>3. Len(before \o after) = Len(before) + Len(after)
  BY <1>2, ConcatProperties
<1>4. RemoveAt(asked, i) = before \o after
  BY DEF RemoveAt
<1>5. Len(before) = i - 1 /\ Len(after) = Len(asked) - i
  BY <1>2
<1> HIDE DEF before, after
<1> QED
  BY <1>1, <1>3, <1>4, <1>5

(* A request is settled: nothing but the requests under way has changed.   *)
LEMMA SettledFollower ==
  ASSUME NEW follower \in Follower, NEW i \in DOMAIN follower.asked
  PROVE  /\ Settled(follower, i) \in Follower
         /\ Settled(follower, i).asked = RemoveAt(follower.asked, i)
         /\ Settled(follower, i).last = follower.last
         /\ Settled(follower, i).heard = follower.heard
         /\ Settled(follower, i).polls = follower.polls
         /\ Settled(follower, i).attempts = follower.attempts
         /\ Settled(follower, i).connected = follower.connected
<1> DEFINE asked == RemoveAt(follower.asked, i)
           overtaken == IF i <= follower.overtaken THEN follower.overtaken - 1 ELSE i - 1
           outrun == i <= follower.overtaken
<1>1. /\ follower.asked \in Seq(Listings \cup {None}) /\ follower.overtaken \in Nat
      /\ i \in Nat /\ i >= 1
  BY DEF Follower
<1>2. asked \in Seq(Listings \cup {None})
  BY <1>1, AskedSeq
<1>3. overtaken \in Nat /\ outrun \in BOOLEAN
  BY <1>1
<1>4. Settled(follower, i) =
        [follower EXCEPT !.asked = asked, !.overtaken = overtaken, !.outrun = outrun]
  BY DEF Settled, Follower
<1> DEFINE settled == Settled(follower, i)
<1>5. settled = [follower EXCEPT !.asked = asked, !.overtaken = overtaken,
                                 !.outrun = outrun]
  BY <1>4
<1> HIDE DEF asked, overtaken, outrun, settled
<1>6. /\ settled \in Follower /\ settled.asked = asked
      /\ settled.last = follower.last /\ settled.heard = follower.heard
      /\ settled.polls = follower.polls /\ settled.attempts = follower.attempts
      /\ settled.connected = follower.connected
  BY <1>2, <1>3, <1>5 DEF Follower
<1> QED
  BY <1>6 DEF settled, asked

LEMMA PageSteps ==
  ASSUME StreamTyped, StreamInv, NEW p \in Pages,
         \/ ConnectFails(p) \/ RefreshFails(p) \/ Poll(p)
         \/ \E i \in DOMAIN page[p].asked : ServeSnapshot(p, i) \/ Refreshed(p, i)
  PROVE  StreamTyped' /\ StreamInv' /\ NextHeard
<1>1. /\ page \in [Pages -> Follower] /\ page[p] \in Follower
      /\ page[p].asked \in Seq(Listings \cup {None}) /\ store \in Listings
  BY DEF StreamTyped, Follower
<1>2. CASE ConnectFails(p)
  <2> DEFINE follower == Disconnected(page[p])
  <2>1. follower \in Follower /\ follower.last = page[p].last /\ follower.heard = 0
    <3>1. page[p].attempts + 1 \in Nat
      BY <1>1 DEF Follower
    <3>2. follower = [page[p] EXCEPT !.connected = FALSE, !.heard = 0,
                                     !.attempts = page[p].attempts + 1]
      BY <1>1 DEF Disconnected, Follower
    <3> HIDE DEF follower
    <3> QED
      BY <1>1, <3>1, <3>2 DEF Follower
  <2>2. page' = [page EXCEPT ![p] = follower] /\ UNCHANGED <<store, published, stream>>
    BY <1>2 DEF ConnectFails, server
  <2> QED
    BY <2>1, <2>2, PageAlone
<1>3. CASE RefreshFails(p)
  <2>1. PICK i \in DOMAIN page[p].asked :
          page' = [page EXCEPT ![p] = [Settled(page[p], i) EXCEPT !.error = TRUE]]
    BY <1>1, <1>3 DEF RefreshFails
  <2> DEFINE settled == Settled(page[p], i)
             follower == [settled EXCEPT !.error = TRUE]
  <2>2. /\ settled \in Follower /\ settled.last = page[p].last
        /\ settled.heard = page[p].heard
    BY <1>1, SettledFollower
  <2>3. page' = [page EXCEPT ![p] = follower] /\ UNCHANGED <<store, published, stream>>
    BY <1>3, <2>1 DEF RefreshFails, server
  <2> HIDE DEF settled
  <2>4. /\ follower \in Follower /\ follower.last = page[p].last
        /\ follower.heard = page[p].heard
    BY <2>2 DEF Follower
  <2> HIDE DEF follower
  <2> QED
    BY <2>3, <2>4, PageAlone
<1>4. CASE Poll(p)
  <2> DEFINE follower == Polled(page[p])
  <2>0. Append(page[p].asked, None) \in Seq(Listings \cup {None})
    BY <1>1, AskedSeq
  <2>1. /\ follower \in Follower /\ follower.last = page[p].last
        /\ follower.heard = page[p].heard
    <3>1. page[p].polls + 1 \in Nat
      BY <1>1 DEF Follower
    <3>2. follower = [page[p] EXCEPT !.polls = page[p].polls + 1,
                                     !.asked = Append(page[p].asked, None)]
      BY <1>1 DEF Polled, Refresh, Follower
    <3> HIDE DEF follower
    <3> QED
      BY <1>1, <2>0, <3>1, <3>2 DEF Follower
  <2>2. page' = [page EXCEPT ![p] = follower] /\ UNCHANGED <<store, published, stream>>
    BY <1>4 DEF Poll, server
  <2> QED
    BY <2>1, <2>2, PageAlone
<1>5. ASSUME NEW i \in DOMAIN page[p].asked, ServeSnapshot(p, i)
      PROVE  StreamTyped' /\ StreamInv' /\ NextHeard
  <2> DEFINE follower == [page[p] EXCEPT !.asked = [@ EXCEPT ![i] = store]]
  <2>0. [page[p].asked EXCEPT ![i] = store] \in Seq(Listings \cup {None})
    BY <1>1, <1>5, AskedSeq
  <2>1. /\ follower \in Follower /\ follower.last = page[p].last
        /\ follower.heard = page[p].heard
    BY <1>1, <2>0 DEF Follower
  <2>2. page' = [page EXCEPT ![p] = follower] /\ UNCHANGED <<store, published, stream>>
    BY <1>1, <1>5 DEF ServeSnapshot, server
  <2> HIDE DEF follower
  <2> QED
    BY <2>1, <2>2, PageAlone
<1>6. ASSUME NEW i \in DOMAIN page[p].asked, Refreshed(p, i)
      PROVE  StreamTyped' /\ StreamInv' /\ NextHeard
  <2> DEFINE settled == Settled(page[p], i)
             view == page[p].asked[i]
             follower == [settled EXCEPT !.view = view, !.error = FALSE]
  <2>1. view \in Listings \cup {None}
    BY <1>1, <1>6
  <2>2. /\ settled \in Follower /\ settled.last = page[p].last
        /\ settled.heard = page[p].heard
    BY <1>1, SettledFollower
  <2>3. page' = [page EXCEPT ![p] = follower] /\ UNCHANGED <<store, published, stream>>
    BY <1>1, <1>6 DEF Refreshed, server
  <2> HIDE DEF settled, view
  <2>4. /\ follower \in Follower /\ follower.last = page[p].last
        /\ follower.heard = page[p].heard
    BY <2>1, <2>2 DEF Follower
  <2> HIDE DEF follower
  <2> QED
    BY <2>3, <2>4, PageAlone
<1> QED
  BY <1>2, <1>3, <1>4, <1>5, <1>6

(* A page connects or is cut off: its stream starts anew.                  *)
LEMMA ConnectionSteps ==
  ASSUME StreamTyped, StreamInv, NEW p \in Pages, Connect(p) \/ Drop(p)
  PROVE  StreamTyped' /\ StreamInv' /\ NextHeard
<1>1. /\ page \in [Pages -> Follower] /\ page[p] \in Follower
      /\ page[p].last \in Nat
  BY DEF StreamTyped, Follower
<1>2. CASE Connect(p)
  <2> DEFINE follower == [page[p] EXCEPT !.connected = TRUE, !.heard = 0]
             thread == [Closed EXCEPT !.at = "list", !.first = TRUE,
                                      !.cursor = page[p].last]
  <2>1. follower \in Follower /\ follower.last = page[p].last /\ follower.heard = 0
    BY <1>1 DEF Follower
  <2>2. /\ thread \in Thread /\ thread.sent = <<>> /\ thread.first
        /\ thread.cursor = page[p].last
    <3>1. Closed \in Thread /\ Closed.sent = <<>>
      BY <1>1, ClosedInOrder DEF Closed
    <3> QED
      BY <1>1, <3>1 DEF Thread
  <2>3. /\ page' = [page EXCEPT ![p] = follower]
        /\ stream' = [stream EXCEPT ![p] = thread] /\ UNCHANGED <<store, published>>
    BY <1>1, <1>2 DEF Connect, server
  <2> HIDE DEF follower, thread
  <2>4. InOrder(page[p].last, thread)
    <3>1. Len(thread.sent) = 0 /\ Events(thread.sent) = {}
      BY <2>2 DEF Events
    <3> QED
      BY <2>2, <3>1 DEF InOrder, OpenFirst, NoGap, CursorKept, NoEnd, LastSent
  <2> QED
    BY <2>1, <2>2, <2>3, <2>4, OnePage DEF StreamTyped
<1>3. CASE Drop(p)
  <2> DEFINE follower == Disconnected(page[p])
  <2>1. follower \in Follower /\ follower.last = page[p].last /\ follower.heard = 0
    <3>1. page[p].attempts + 1 \in Nat
      BY <1>1 DEF Follower
    <3>2. follower = [page[p] EXCEPT !.connected = FALSE, !.heard = 0,
                                     !.attempts = page[p].attempts + 1]
      BY <1>1 DEF Disconnected, Follower
    <3> HIDE DEF follower
    <3> QED
      BY <1>1, <3>1, <3>2 DEF Follower
  <2>2. /\ page' = [page EXCEPT ![p] = follower]
        /\ stream' = [stream EXCEPT ![p] = Closed] /\ UNCHANGED <<store, published>>
    BY <1>3 DEF Drop, server
  <2> HIDE DEF follower
  <2>3. Closed \in Thread /\ InOrder(page[p].last, Closed)
    BY <1>1, ClosedInOrder
  <2> QED
    BY <2>1, <2>2, <2>3, OnePage DEF StreamTyped
<1> QED
  BY <1>2, <1>3

(* What a message makes of the page that receives it.                      *)
LEMMA Received ==
  ASSUME NEW follower \in Follower, NEW message \in Message
  PROVE  /\ [follower EXCEPT !.attempts = 0, !.polls = 0] \in Follower
         /\ Disconnected(follower) \in Follower
         /\ Disconnected(follower).last = follower.last
         /\ Disconnected(follower).heard = 0
         /\ message.kind = "run" =>
              /\ OnRun(follower, message.id) \in Follower
              /\ OnRun(follower, message.id).last = message.id
              /\ OnRun(follower, message.id).heard = message.id
         /\ message.kind = "reset" =>
              /\ OnReset(follower, message.view) \in Follower
              /\ OnReset(follower, message.view).last = follower.heard
              /\ OnReset(follower, message.view).heard = follower.heard
<1>1. /\ follower.attempts + 1 \in Nat
      /\ follower.asked \in Seq(Listings \cup {None})
  BY DEF Follower
<1>2. [follower EXCEPT !.attempts = 0, !.polls = 0] \in Follower
  BY DEF Follower
<1>3. /\ Disconnected(follower) \in Follower
      /\ Disconnected(follower).last = follower.last
      /\ Disconnected(follower).heard = 0
  <2> DEFINE after == Disconnected(follower)
  <2>1. after = [follower EXCEPT !.connected = FALSE, !.heard = 0,
                                 !.attempts = follower.attempts + 1]
    BY DEF Disconnected, Follower
  <2> HIDE DEF after
  <2>2. after \in Follower /\ after.last = follower.last /\ after.heard = 0
    BY <1>1, <2>1 DEF Follower
  <2> QED
    BY <2>2 DEF after
<1>4. ASSUME message.kind = "run"
      PROVE  /\ OnRun(follower, message.id) \in Follower
             /\ OnRun(follower, message.id).last = message.id
             /\ OnRun(follower, message.id).heard = message.id
  <2> DEFINE id == message.id
             after == OnRun(follower, id)
  <2>1. id \in Nat
    BY <1>4, MessageKinds
  <2>2. Append(follower.asked, None) \in Seq(Listings \cup {None})
    BY <1>1, AskedSeq
  <2> HIDE DEF id
  <2>3. after = [follower EXCEPT !.last = id, !.heard = id, !.old = FALSE,
                                 !.attempts = 0, !.polls = 0,
                                 !.asked = Append(follower.asked, None)]
    BY DEF OnRun, Refresh, Follower
  <2> HIDE DEF after
  <2>4. after \in Follower /\ after.last = id /\ after.heard = id
    BY <2>1, <2>2, <2>3 DEF Follower
  <2> QED
    BY <2>4 DEF after, id
<1>5. ASSUME message.kind = "reset"
      PROVE  /\ OnReset(follower, message.view) \in Follower
             /\ OnReset(follower, message.view).last = follower.heard
             /\ OnReset(follower, message.view).heard = follower.heard
  <2> DEFINE view == message.view
             after == OnReset(follower, view)
  <2>1. view \in Listings
    BY <1>5, MessageKinds
  <2> HIDE DEF view
  <2>2. after = [follower EXCEPT !.view = view, !.error = FALSE,
                                 !.last = follower.heard, !.old = FALSE,
                                 !.outrun = FALSE, !.attempts = 0, !.polls = 0]
    BY DEF OnReset
  <2> HIDE DEF after
  <2>3. after \in Follower /\ after.last = follower.heard /\ after.heard = follower.heard
    BY <2>1, <2>2 DEF Follower
  <2> QED
    BY <2>3 DEF after, view
<1> QED
  BY <1>2, <1>3, <1>4, <1>5

LEMMA ReceiveStep ==
  ASSUME StreamTyped, StreamInv, NEW p \in Pages, Receive(p)
  PROVE  StreamTyped' /\ StreamInv' /\ NextHeard
<1> DEFINE s == stream[p]
           t == [stream[p] EXCEPT !.sent = Tail(@)]
           message == Head(stream[p].sent)
           before == page[p]
<1>1. /\ page \in [Pages -> Follower] /\ before \in Follower
      /\ stream \in [Pages -> Thread] /\ s \in Thread
  BY DEF StreamTyped
<1>2. before.heard \in {0, before.last} /\ InOrder(before.last, s)
  BY DEF StreamInv
<1>3. s.sent \in Seq(Message) /\ s.sent # <<>>
  BY <1>1 DEF Receive, Thread
<1>4. /\ message = s.sent[1] /\ message \in Message /\ Tail(s.sent) \in Seq(Message)
  BY <1>3, HeadTailProperties
<1>5. /\ t \in Thread /\ t.sent = Tail(s.sent) /\ t.at = s.at /\ t.first = s.first
      /\ t.cursor = s.cursor
  BY <1>1, <1>4 DEF Thread
<1>6. /\ stream' = [stream EXCEPT ![p] = t] /\ UNCHANGED <<store, published>>
      /\ message.kind = "open" =>
            page' = [page EXCEPT ![p] = [before EXCEPT !.attempts = 0, !.polls = 0]]
      /\ message.kind = "run" => page' = [page EXCEPT ![p] = OnRun(before, message.id)]
      /\ message.kind = "reset" =>
            page' = [page EXCEPT ![p] = OnReset(before, message.view)]
      /\ message.kind = "closed" => page' = [page EXCEPT ![p] = Disconnected(before)]
  BY <1>1 DEF Receive, server
<1>7. before.last \in Nat /\ before.heard \in Nat
  BY <1>1 DEF Follower
<1> HIDE DEF s, t, message, before
<1>8. ASSUME NEW after \in Nat,
             message.kind = "run" => after = message.id,
             message.kind = "open" => after = before.last
      PROVE  /\ InOrder(after, t)
             /\ message.kind = "run" /\ before.last # 0 => message.id = before.last + 1
  BY <1>1, <1>2, <1>3, <1>4, <1>5, <1>7, <1>8, RestInOrder
<1>9. SUFFICES ASSUME NEW follower \in Follower,
                      message.kind = "run" => follower.last = message.id,
                      message.kind = "open" => follower.last = before.last,
                      message.kind # "run" => follower.last \in {0, before.last},
                      follower.heard \in {0, follower.last},
                      page' = [page EXCEPT ![p] = follower]
               PROVE  StreamTyped' /\ StreamInv' /\ NextHeard
  <2>1. CASE message.kind = "open"
    <3> DEFINE follower == [before EXCEPT !.attempts = 0, !.polls = 0]
    <3>1. /\ follower \in Follower /\ follower.last = before.last
          /\ follower.heard = before.heard
      BY <1>1 DEF Follower
    <3>2. page' = [page EXCEPT ![p] = follower]
      BY <1>6, <2>1
    <3> HIDE DEF follower
    <3> QED
      BY <1>2, <1>9, <2>1, <3>1, <3>2
  <2>2. CASE message.kind = "run"
    BY <1>1, <1>4, <1>6, <1>9, <2>2, Received
  <2>3. CASE message.kind = "reset"
    <3>1. /\ OnReset(before, message.view) \in Follower
          /\ OnReset(before, message.view).last = before.heard
          /\ OnReset(before, message.view).heard = before.heard
      BY <1>1, <1>4, <2>3, Received
    <3> QED
      BY <1>2, <1>6, <1>9, <2>3, <3>1
  <2>4. CASE message.kind = "closed"
    <3>1. /\ Disconnected(before) \in Follower
          /\ Disconnected(before).last = before.last
          /\ Disconnected(before).heard = 0
      BY <1>1, <1>4, Received
    <3> QED
      BY <1>6, <1>9, <2>4, <3>1
  <2> QED
    BY <1>4, <2>1, <2>2, <2>3, <2>4, MessageKinds
<1>10. follower.last \in Nat
  BY DEF Follower
<1>11. /\ InOrder(follower.last, t)
       /\ message.kind = "run" /\ before.last # 0 => message.id = before.last + 1
  BY <1>8, <1>9, <1>10
<1>12. before.last # 0 /\ follower.last # before.last =>
          follower.last \in {0, before.last + 1}
  BY <1>9, <1>11
<1> QED
  BY <1>5, <1>6, <1>9, <1>11, <1>12, OnePage DEF StreamTyped, before


(* What the server does besides, and what happens to it.                   *)
LEMMA WriterSteps ==
  ASSUME StreamTyped, StreamInv,
         \/ \E run \in Runs : Change(run) \/ Mutate(run)
         \/ \E w \in writers : PublishRun(w) \/ MarkSeen(w)
  PROVE  StreamTyped' /\ StreamInv' /\ NextHeard
<1>1. UNCHANGED <<page, stream>>
  BY DEF Change, Mutate, PublishRun, MarkSeen, server
<1>2. published' \in Nat
  BY DEF Change, Mutate, PublishRun, MarkSeen, server, StreamTyped
<1>3. ASSUME NEW run \in Runs, Change(run) \/ Mutate(run) PROVE store' \in Listings
  <2>1. store \in [Runs -> 0..MaxRevision] /\ store[run] + 1 \in 0..MaxRevision
    BY <1>3, EventStreamAssumption DEF StreamTyped, Listings, Change, Mutate
  <2>2. store' = [store EXCEPT ![run] = store[run] + 1]
    BY <1>3, <2>1 DEF Change, Mutate
  <2> QED
    BY <2>1, <2>2 DEF Listings
<1>4. store' \in Listings
  BY <1>3 DEF PublishRun, MarkSeen, StreamTyped
<1> QED
  BY <1>1, <1>2, <1>4 DEF StreamTyped, StreamInv, NextHeard

LEMMA RestartStep ==
  ASSUME StreamTyped, StreamInv, Restart
  PROVE  StreamTyped' /\ StreamInv' /\ NextHeard
<1> DEFINE cut(p) == [page[p] EXCEPT !.asked = <<>>, !.overtaken = 0, !.old = TRUE,
                                     !.error = @ \/ page[p].asked # <<>>]
           after(p) == IF cut(p).connected THEN Disconnected(cut(p)) ELSE cut(p)
<1>1. /\ published' = 0 /\ store' = store
      /\ stream' = [p \in Pages |-> Closed] /\ page' = [p \in Pages |-> after(p)]
  BY DEF Restart
<1>2. ASSUME NEW p \in Pages
      PROVE  /\ after(p) \in Follower /\ after(p).last = page[p].last
             /\ after(p).heard \in {0, page[p].last} /\ page[p].last \in Nat
             /\ Closed \in Thread /\ InOrder(page[p].last, Closed)
  <2>1. /\ page[p] \in Follower /\ page[p].heard \in {0, page[p].last}
        /\ page[p].last \in Nat
    BY DEF StreamTyped, StreamInv, Follower
  <2>2. /\ cut(p) \in Follower /\ cut(p).last = page[p].last
        /\ cut(p).heard = page[p].heard
    <3>1. (page[p].error \/ page[p].asked # <<>>) \in BOOLEAN
      OBVIOUS
    <3>2. <<>> \in Seq(Listings \cup {None})
      OBVIOUS
    <3> DEFINE error == page[p].error \/ page[p].asked # <<>>
    <3>3. cut(p) = [page[p] EXCEPT !.asked = <<>>, !.overtaken = 0, !.old = TRUE,
                                    !.error = error]
      BY <2>1 DEF Follower
    <3>4. error \in BOOLEAN
      BY <3>1
    <3> DEFINE none == <<>>
               base == [page[p] EXCEPT !.asked = none, !.old = TRUE, !.error = error]
    <3>5. none \in Seq(Listings \cup {None})
      OBVIOUS
    <3>6. cut(p) = [base EXCEPT !.overtaken = 0]
      BY <2>1, <3>3 DEF Follower
    <3> HIDE DEF error, cut, none
    <3>7. base \in Follower /\ base.last = page[p].last /\ base.heard = page[p].heard
      BY <2>1, <3>4, <3>5 DEF Follower
    <3> HIDE DEF base
    <3> QED
      BY <3>6, <3>7 DEF Follower
  <2> HIDE DEF cut
  <2>3. /\ Disconnected(cut(p)) \in Follower
        /\ Disconnected(cut(p)).last = cut(p).last
        /\ Disconnected(cut(p)).heard = 0
    <3> DEFINE gone == Disconnected(cut(p))
    <3>1. cut(p).attempts + 1 \in Nat
      BY <2>2 DEF Follower
    <3>2. gone = [cut(p) EXCEPT !.connected = FALSE, !.heard = 0,
                                !.attempts = cut(p).attempts + 1]
      BY <2>2 DEF Disconnected, Follower
    <3> HIDE DEF gone
    <3>3. gone \in Follower /\ gone.last = cut(p).last /\ gone.heard = 0
      BY <2>2, <3>1, <3>2 DEF Follower
    <3> QED
      BY <3>3 DEF gone
  <2> QED
    BY <2>1, <2>2, <2>3, ClosedInOrder
<1> HIDE DEF after
<1>3. page' \in [Pages -> Follower] /\ stream' \in [Pages -> Thread]
  BY <1>1, <1>2
<1>4. \A p \in Pages : page'[p] = after(p) /\ stream'[p] = Closed
  BY <1>1
<1>5. StreamInv'
  <2> SUFFICES ASSUME NEW p \in Pages
               PROVE  /\ page'[p].heard \in {0, page'[p].last}
                      /\ InOrder(page'[p].last, stream'[p])
    BY DEF StreamInv, InOrder, OpenFirst, NoGap, CursorKept, NoEnd, LastSent, Events
  <2> QED
    BY <1>2, <1>4
<1> QED
  BY <1>1, <1>2, <1>3, <1>4, <1>5 DEF StreamTyped, NextHeard

LEMMA StreamStep ==
  ASSUME StreamTyped, StreamInv, [Next]_vars
  PROVE  StreamTyped' /\ StreamInv' /\ (NextHeard \/ UNCHANGED page)
<1>1. ASSUME NEW p \in Pages, ServerStep(p)
      PROVE  StreamTyped' /\ StreamInv' /\ NextHeard
  <2>1. CASE \E i \in DOMAIN page[p].asked : ServeSnapshot(p, i)
    BY <2>1, PageSteps
  <2> QED
    BY <1>1, <2>1, ListStep, ReadStep DEF ServerStep
<1>2. ASSUME NEW p \in Pages, PageStep(p)
      PROVE  StreamTyped' /\ StreamInv' /\ NextHeard
  <2>1. CASE Poll(p) \/ \E i \in DOMAIN page[p].asked : Refreshed(p, i)
    BY <2>1, PageSteps
  <2> QED
    BY <1>2, <2>1, ConnectionSteps, ReceiveStep DEF PageStep
<1>3. ASSUME NEW p \in Pages, ConnectFails(p) \/ Drop(p) \/ RefreshFails(p)
      PROVE  StreamTyped' /\ StreamInv' /\ NextHeard
  BY <1>3, PageSteps, ConnectionSteps
<1>4. CASE \E run \in Runs : Change(run) \/ Mutate(run)
  BY <1>4, WriterSteps
<1>5. CASE \E w \in writers : PublishRun(w) \/ MarkSeen(w)
  BY <1>5, WriterSteps
<1>6. CASE Restart
  BY <1>6, RestartStep
<1>7. CASE UNCHANGED vars
  BY <1>7 DEF vars, server, StreamTyped, StreamInv, InOrder, OpenFirst, NoGap,
              CursorKept, NoEnd, LastSent, Events
<1> QED
  BY <1>1, <1>2, <1>3, <1>4, <1>5, <1>6, <1>7 DEF Next

(* What is on the way to a page follows, without a gap, what the page has  *)
(* heard: _replay_locked, the cursor of _events and the last event id of   *)
(* App.tsx together.                                                       *)
THEOREM EventsOnTheWayInOrder == Spec => [](StreamTyped /\ StreamInv)
<1>1. StreamTyped /\ StreamInv /\ [Next]_vars => (StreamTyped /\ StreamInv)'
  BY StreamStep
<1> QED
  BY <1>1, StreamInit, PTL DEF Spec

(* A page with a cursor hears the very next event or is told to start over *)
(* (_replay_locked, _events), however often it reconnects, however slow it *)
(* is and however often the server starts anew.                            *)
THEOREM StreamIsContiguous == Spec => StreamContiguous
<1>1. StreamTyped /\ StreamInv /\ [Next]_vars =>
          [\A p \in Pages :
              page[p].last # 0 /\ page'[p].last # page[p].last =>
                  page'[p].last \in {0, page[p].last + 1}]_page
  BY StreamStep DEF NextHeard
<1> QED
  BY <1>1, EventsOnTheWayInOrder, PTL DEF Spec, StreamContiguous
----------------------------------------------------------------------------
(* The bounds of TypeOK.  The page's counters stay in theirs because a     *)
(* thread only serves a page that is connected, a connected page has an    *)
(* attempt left, and the end of a stream is the last thing on it; numbers  *)
(* mean the same on both sides until the server starts anew.               *)
Within(follower, thread) ==
    /\ Len(follower.asked) <= MaxRequests
    /\ follower.polls <= MaxPolls /\ follower.attempts <= MaxReconnects
    /\ follower.connected => follower.attempts < MaxReconnects
    /\ thread.at # "none" \/ thread.sent # <<>> => follower.connected
    /\ \A i \in 1..Len(thread.sent) :
          thread.sent[i].kind = "closed" => i = Len(thread.sent)
    /\ thread.at = "publish" => thread.listed \in Listings
PagesWithin == \A p \in Pages : Within(page[p], stream[p])

Numbers(last, sent, top) ==
    last <= top /\ \A i \in Events(sent) : sent[i].id <= top
NumbersKnown ==
    restarts = 0 => \A p \in Pages : Numbers(page[p].last, stream[p].sent, published)

LockKnown == \A p \in Pages : eventLock = p <=> stream[p].at = "publish"

ServerTyped ==
    /\ eventLock \in Pages \cup {None} /\ seen \in Listings
    /\ writers \subseteq [run : Runs, revision : 0..MaxRevision, at : {"publish", "mark"}]
    /\ faults \in 0..MaxFaults /\ restarts \in 0..MaxRestarts

BoundsInv == StreamTyped /\ StreamInv /\ PagesWithin /\ NumbersKnown /\ LockKnown /\ ServerTyped

LEMMA BoundsInit == Init => PagesWithin /\ NumbersKnown /\ LockKnown /\ ServerTyped
<1> SUFFICES ASSUME Init PROVE PagesWithin /\ NumbersKnown /\ LockKnown /\ ServerTyped
  OBVIOUS
<1> USE EventStreamAssumption
<1>1. \A p \in Pages :
        /\ page[p].asked = <<None>> /\ page[p].polls = 0 /\ page[p].attempts = 0
        /\ page[p].connected = FALSE /\ page[p].last = 0
        /\ stream[p].at = "none" /\ stream[p].sent = <<>>
  BY DEF Init, Closed
<1>2. PagesWithin
  <2> SUFFICES ASSUME NEW p \in Pages PROVE Within(page[p], stream[p])
    BY DEF PagesWithin
  <2>1. Len(page[p].asked) = 1 /\ Len(stream[p].sent) = 0
    <3>1. page[p].asked = <<None>> /\ stream[p].sent = <<>>
      BY <1>1
    <3>2. Len(<<None>>) = 1 /\ Len(<<>>) = 0
      OBVIOUS
    <3> QED
      BY <3>1, <3>2
  <2> QED
    BY <1>1, <2>1 DEF Within
<1>3. NumbersKnown
  BY <1>1 DEF NumbersKnown, Numbers, Events, Init
<1>4. LockKnown
  BY <1>1 DEF LockKnown, Init
<1>5. ServerTyped
  BY DEF ServerTyped, Init, Listings
<1> QED
  BY <1>2, <1>3, <1>4, <1>5

LEMMA ServerTypedStep ==
  ASSUME BoundsInv, [Next]_vars PROVE ServerTyped'
<1> USE EventStreamAssumption DEF BoundsInv, ServerTyped
<1>1. ASSUME NEW p \in Pages, ListRuns(p) PROVE ServerTyped'
  BY <1>1 DEF ListRuns
<1>2. ASSUME NEW p \in Pages, PublishChanges(p) PROVE ServerTyped'
  <2>1. seen' \in Listings
    BY <1>2 DEF PublishChanges, SeenAfter, PagesWithin, Within
  <2> QED
    BY <1>2, <2>1 DEF PublishChanges
<1>3. ASSUME NEW p \in Pages,
             \/ Read(p) \/ Connect(p) \/ Receive(p) \/ Poll(p)
             \/ \E i \in DOMAIN page[p].asked : ServeSnapshot(p, i) \/ Refreshed(p, i)
      PROVE  UNCHANGED <<server, faults, restarts>>
  BY <1>3 DEF Read, Connect, Receive, Poll, ServeSnapshot, Refreshed
<1>4. ASSUME NEW p \in Pages, ConnectFails(p) \/ Drop(p) \/ RefreshFails(p)
      PROVE  UNCHANGED <<server, restarts>> /\ faults' \in 0..MaxFaults
  BY <1>4 DEF ConnectFails, Drop, RefreshFails, Fault
<1>5. ASSUME NEW run \in Runs, Change(run) \/ Mutate(run) PROVE ServerTyped'
  <2>1. store[run] \in 0..MaxRevision /\ store[run] + 1 \in 0..MaxRevision
    BY <1>5 DEF StreamTyped, Listings, Change, Mutate
  <2>2. writers' = writers \/
        writers' = writers \cup {[run |-> run, revision |-> store[run] + 1, at |-> "publish"]}
    BY <1>5 DEF Change, Mutate, server
  <2>3. UNCHANGED <<eventLock, seen, faults, restarts>>
    BY <1>5 DEF Change, Mutate, server
  <2> QED
    BY <2>1, <2>2, <2>3
<1>6. ASSUME NEW w \in writers, PublishRun(w) \/ MarkSeen(w) PROVE ServerTyped'
  <2>1. /\ w \in [run : Runs, revision : 0..MaxRevision, at : {"publish", "mark"}]
        /\ [w EXCEPT !.at = "mark"]
              \in [run : Runs, revision : 0..MaxRevision, at : {"publish", "mark"}]
    OBVIOUS
  <2>2. CASE PublishRun(w)
    BY <2>1, <2>2 DEF PublishRun
  <2>3. CASE MarkSeen(w)
    <3>1. seen' \in Listings
      BY <2>1, <2>3 DEF MarkSeen, Listings
    <3> QED
      BY <2>3, <3>1 DEF MarkSeen
  <2> QED
    BY <1>6, <2>2, <2>3
<1>7. CASE Restart
  <2>1. /\ restarts < MaxRestarts /\ restarts' = restarts + 1 /\ seen' = store
        /\ eventLock' = None /\ writers' = {} /\ faults' = faults
    BY <1>7 DEF Restart
  <2> QED
    BY <2>1 DEF StreamTyped
<1>8. CASE UNCHANGED vars
  BY <1>8 DEF vars, server
<1> QED
  BY <1>1, <1>2, <1>3, <1>4, <1>5, <1>6, <1>7, <1>8 DEF Next, ServerStep, PageStep, server

(* A stream is inside sync_events exactly while it holds the event lock.   *)
LEMMA LockKnownStep ==
  ASSUME BoundsInv, [Next]_vars PROVE LockKnown'
<1> USE EventStreamAssumption DEF BoundsInv, LockKnown
<1>0. stream \in [Pages -> Thread]
  BY DEF StreamTyped
<1>1. ASSUME NEW p \in Pages, ListRuns(p) \/ PublishChanges(p) PROVE LockKnown'
  <2>1. CASE ListRuns(p)
    <3>1. /\ eventLock = None /\ eventLock' = p /\ stream'[p].at = "publish"
          /\ \A q \in Pages : q # p => stream'[q] = stream[q]
      BY <1>0, <2>1 DEF ListRuns, Thread
    <3> QED
      BY <3>1
  <2>2. CASE PublishChanges(p)
    <3>1. /\ stream[p].at = "publish" /\ eventLock' = None /\ stream'[p].at = "read"
          /\ \A q \in Pages : q # p => stream'[q] = stream[q]
      BY <1>0, <2>2 DEF PublishChanges, Thread
    <3> QED
      BY <3>1
  <2> QED
    BY <1>1, <2>1, <2>2
<1>2. ASSUME NEW p \in Pages, UNCHANGED eventLock,
             \A q \in Pages : q # p => stream'[q] = stream[q],
             stream'[p].at \in {"none", "list"}, eventLock # p
      PROVE  LockKnown'
  BY <1>2
<1>3. ASSUME NEW p \in Pages, Read(p) PROVE LockKnown'
  <2>1. /\ stream[p].at = "read" /\ UNCHANGED eventLock
        /\ stream'[p].at \in {"none", "list"}
        /\ \A q \in Pages : q # p => stream'[q] = stream[q]
    <3>1. \A t : [Closed EXCEPT !.sent = t].at = "none"
      BY DEF Closed
    <3> QED
      BY <1>0, <1>3, <3>1 DEF Read, server, Thread
  <2> QED
    BY <1>2, <2>1
<1>4. ASSUME NEW p \in Pages, Connect(p) PROVE LockKnown'
  <2>1. stream[p].at = "none"
    BY <1>4 DEF Connect, PagesWithin, Within, StreamTyped, Thread
  <2>2. /\ UNCHANGED eventLock /\ stream'[p].at = "list"
        /\ \A q \in Pages : q # p => stream'[q] = stream[q]
    BY <1>0, <1>4 DEF Connect, server, Closed
  <2> QED
    BY <1>2, <2>1, <2>2
<1>5. ASSUME NEW p \in Pages, Drop(p) PROVE LockKnown'
  <2>1. /\ UNCHANGED eventLock /\ stream'[p].at = "none" /\ eventLock # p
        /\ \A q \in Pages : q # p => stream'[q] = stream[q]
    BY <1>0, <1>5 DEF Drop, server, Closed
  <2> QED
    BY <1>2, <2>1
<1>6. ASSUME NEW p \in Pages, Receive(p) PROVE LockKnown'
  <2>1. /\ UNCHANGED eventLock /\ stream'[p].at = stream[p].at
        /\ \A q \in Pages : q # p => stream'[q] = stream[q]
    BY <1>0, <1>6 DEF Receive, server, Thread
  <2> QED
    BY <2>1
<1>7. ASSUME NEW p \in Pages,
             \/ Poll(p) \/ ConnectFails(p) \/ RefreshFails(p)
             \/ \E i \in DOMAIN page[p].asked : ServeSnapshot(p, i) \/ Refreshed(p, i)
      PROVE  UNCHANGED <<eventLock, stream>>
  BY <1>7 DEF Poll, ConnectFails, RefreshFails, ServeSnapshot, Refreshed, server
<1>8. ASSUME \/ \E run \in Runs : Change(run) \/ Mutate(run)
             \/ \E w \in writers : PublishRun(w) \/ MarkSeen(w)
             \/ UNCHANGED vars
      PROVE  UNCHANGED <<eventLock, stream>>
  BY <1>8 DEF Change, Mutate, PublishRun, MarkSeen, vars, server
<1>9. CASE Restart
  <2>1. eventLock' = None /\ stream' = [p \in Pages |-> Closed]
    BY <1>9 DEF Restart
  <2> QED
    BY <2>1 DEF Closed
<1> QED
  BY <1>1, <1>3, <1>4, <1>5, <1>6, <1>7, <1>8, <1>9 DEF Next, ServerStep, PageStep

AtMost(sent, top) == \A i \in Events(sent) : sent[i].id <= top

LEMMA AtMostConcat ==
  ASSUME NEW a \in Seq(Message), NEW b \in Seq(Message), NEW top,
         AtMost(a, top), AtMost(b, top)
  PROVE  a \o b \in Seq(Message) /\ AtMost(a \o b, top)
<1>1. /\ a \o b \in Seq(Message) /\ Len(a \o b) = Len(a) + Len(b)
      /\ \A i \in 1..(Len(a) + Len(b)) :
            (a \o b)[i] = IF i <= Len(a) THEN a[i] ELSE b[i - Len(a)]
  BY ConcatProperties
<1> DEFINE both == a \o b
<1>2. ASSUME NEW i \in Events(both) PROVE both[i].id <= top
  <2>1. i \in 1..(Len(a) + Len(b)) /\ both[i].kind = "run"
        /\ Len(a) \in Nat /\ Len(b) \in Nat
    BY <1>1 DEF Events
  <2> HIDE DEF both
  <2>2. CASE i <= Len(a)
    <3>1. i \in 1..Len(a) /\ both[i] = a[i]
      BY <1>1, <2>1, <2>2 DEF both
    <3> QED
      BY <2>1, <3>1 DEF AtMost, Events
  <2>3. CASE ~(i <= Len(a))
    <3>1. i - Len(a) \in 1..Len(b) /\ both[i] = b[i - Len(a)]
      BY <1>1, <2>1, <2>3 DEF both
    <3> QED
      BY <2>1, <3>1 DEF AtMost, Events
  <2> QED
    BY <2>2, <2>3
<1> QED
  BY <1>1, <1>2 DEF AtMost

(* While the server has not been restarted, no number on the way to a page *)
(* is above those given out.                                               *)
LEMMA NumbersKnownStep ==
  ASSUME BoundsInv, [Next]_vars PROVE NumbersKnown'
<1> USE DEF BoundsInv
<1>0. /\ stream \in [Pages -> Thread] /\ page \in [Pages -> Follower] /\ published \in Nat
      /\ restarts \in Nat /\ StreamTyped'
  BY EventStreamAssumption, StreamStep DEF StreamTyped, ServerTyped
<1>1. SUFFICES ASSUME restarts' = 0, NEW p \in Pages
               PROVE  Numbers(page'[p].last, stream'[p].sent, published')
  BY DEF NumbersKnown, Numbers, Events
<1>2. ~Restart
  <2>1. Restart => restarts' = restarts + 1
    BY DEF Restart
  <2> QED
    BY <1>0, <1>1, <2>1
<1>3. restarts' = restarts
  BY <1>2 DEF Next, ServerStep, PageStep, Change, Mutate, PublishRun, MarkSeen, ListRuns,
     PublishChanges, Read, ServeSnapshot, Connect, ConnectFails, Receive, Drop,
     Refreshed, RefreshFails, Poll, vars
<1>4. Numbers(page[p].last, stream[p].sent, published)
  BY <1>1, <1>3 DEF NumbersKnown
<1> DEFINE s == stream[p].sent
<1>5. s \in Seq(Message) /\ page[p].last \in Nat /\ published' \in Nat
  BY <1>0 DEF Thread, Follower, StreamTyped
<1>6. published' >= published
  <2>1. ASSUME NEW q \in Pages, PublishChanges(q) PROVE published' >= published
    <3>1. published' = published + Cardinality({run \in Runs :
                                       seen[run] # stream[q].listed[run]})
      BY <2>1 DEF PublishChanges, Quantify
    <3>2. Cardinality({run \in Runs : seen[run] # stream[q].listed[run]}) \in Nat
      BY EventStreamAssumption, FS_Subset, FS_CardinalityType
    <3> QED
      BY <1>0, <3>1, <3>2
  <2>2. ASSUME NEW w \in writers, PublishRun(w) PROVE published' >= published
    BY <1>0, <2>2 DEF PublishRun
  <2>3. CASE UNCHANGED published
    BY <1>0, <2>3
  <2> QED
    BY <1>2, <2>1, <2>2, <2>3
    DEF Next, ServerStep, PageStep, Change, Mutate, MarkSeen, ListRuns, Read,
        ServeSnapshot, Connect, ConnectFails, Receive, Drop, Refreshed, RefreshFails,
        Poll, vars, server
<1>7. SUFFICES Numbers(page'[p].last, stream'[p].sent, published)
  <2>1. page'[p].last \in Nat /\ stream'[p].sent \in Seq(Message)
    BY <1>0 DEF StreamTyped, Follower, Thread
  <2>2. \A i \in Events(stream'[p].sent) : stream'[p].sent[i].id \in Nat
    BY <2>1, MessageKinds DEF Events
  <2> QED
    BY <1>0, <1>5, <1>6, <2>1, <2>2 DEF Numbers
<1>8. CASE stream'[p].sent = s /\ page'[p].last = page[p].last
  BY <1>4, <1>8
<1>9. CASE stream'[p].sent = <<>> /\ page'[p].last = page[p].last
  BY <1>4, <1>9 DEF Numbers, Events
<1>10. CASE Receive(p)
  <2> DEFINE message == Head(s)
             rest == Tail(s)
  <2>1. s # <<>> /\ stream'[p].sent = rest
    BY <1>0, <1>10 DEF Receive, Thread
  <2>2. /\ message = s[1] /\ message \in Message /\ Len(s) \in Nat \ {0}
        /\ Len(rest) = Len(s) - 1 /\ \A i \in 1..Len(rest) : rest[i] = s[i + 1]
    BY <1>5, <2>1, HeadTailProperties
  <2> HIDE DEF rest
  <2>3. \A i \in Events(rest) : rest[i].id <= published
    <3>1. ASSUME NEW i \in Events(rest) PROVE rest[i].id <= published
      <4>1. i \in 1..Len(rest) /\ i + 1 \in 1..Len(s) /\ rest[i] = s[i + 1]
        BY <2>2 DEF Events
      <4>2. i + 1 \in Events(s)
        BY <4>1 DEF Events
      <4> QED
        BY <1>4, <4>1, <4>2 DEF Numbers
    <3> QED
      BY <3>1
  <2>4. page'[p].last <= published
    <3>1. page[p] \in Follower /\ page[p].heard \in {0, page[p].last}
          /\ page[p].last <= published
      BY <1>0, <1>4 DEF StreamInv, Numbers
    <3>2. /\ message.kind = "open" => page'[p].last = page[p].last
          /\ message.kind = "run" => page'[p].last = OnRun(page[p], message.id).last
          /\ message.kind = "reset" => page'[p].last = OnReset(page[p], message.view).last
          /\ message.kind = "closed" => page'[p].last = Disconnected(page[p]).last
      <4>1. [page[p] EXCEPT !.attempts = 0, !.polls = 0].last = page[p].last
        BY <3>1 DEF Follower
      <4> QED
        BY <1>0, <1>10, <4>1 DEF Receive
    <3>3. message.kind = "run" => message.id <= published
      BY <1>4, <2>2 DEF Numbers, Events
    <3> HIDE DEF message
    <3> QED
      <4>1. CASE message.kind = "open"
        BY <3>1, <3>2, <4>1
      <4>2. CASE message.kind = "run"
        BY <2>2, <3>1, <3>2, <3>3, <4>2, Received
      <4>3. CASE message.kind = "reset"
        <5>1. page'[p].last = page[p].heard
          BY <2>2, <3>1, <3>2, <4>3, Received
        <5> QED
          BY <1>0, <3>1, <5>1
      <4>4. CASE message.kind = "closed"
        BY <2>2, <3>1, <3>2, <4>4, Received
      <4> QED
        BY <2>2, <4>1, <4>2, <4>3, <4>4, MessageKinds
  <2> QED
    BY <2>1, <2>3, <2>4 DEF Numbers
<1>11. CASE Read(p)
  <2>1. page' = page
    BY <1>11 DEF Read
  <2> DEFINE cursor == stream[p].cursor
             opening == IF stream[p].first THEN <<[kind |-> "open"]>> ELSE <<>>
             pending == IF stream[p].first THEN {} ELSE Replay(cursor)
             events == [i \in 1..Cardinality(pending) |->
                         [kind |-> "run", id |-> Min(pending) + i - 1]]
             end == <<[kind |-> "reset", view |-> store], [kind |-> "closed"]>>
  <2>2. stream'[p].sent = IF MustReset(cursor) THEN s \o opening \o end
                          ELSE s \o opening \o events
    <3>1. \A t : [Closed EXCEPT !.sent = t].sent = t
      BY DEF Closed
    <3> QED
      BY <1>0, <1>11, <3>1 DEF Read, Thread
  <2>3. opening \in Seq(Message) /\ AtMost(opening, published)
    <3> DEFINE open == [kind |-> "open"]
    <3>1. open \in Message /\ open.kind # "run"
      BY DEF Message
    <3> HIDE DEF open
    <3>2. <<open>> \in Seq(Message) /\ AtMost(<<open>>, published)
      BY <3>1 DEF AtMost, Events
    <3>3. <<>> \in Seq(Message) /\ AtMost(<<>>, published)
      BY DEF AtMost, Events
    <3>4. opening = <<open>> \/ opening = <<>>
      BY DEF open
    <3> HIDE DEF opening
    <3> QED
      BY <3>2, <3>3, <3>4
  <2>4. end \in Seq(Message) /\ AtMost(end, published)
    <3> DEFINE reset == [kind |-> "reset", view |-> store]
               closed == [kind |-> "closed"]
    <3>1. /\ reset \in Message /\ reset.kind # "run"
          /\ closed \in Message /\ closed.kind # "run"
      BY DEF Message, StreamTyped
    <3> HIDE DEF reset, closed
    <3>2. /\ <<reset, closed>> \in Seq(Message) /\ Len(<<reset, closed>>) = 2
          /\ <<reset, closed>>[1] = reset /\ <<reset, closed>>[2] = closed
      BY <3>1
    <3>3. AtMost(<<reset, closed>>, published)
      BY <3>1, <3>2 DEF AtMost, Events
    <3> QED
      BY <3>2, <3>3 DEF reset, closed
  <2>5. ~MustReset(cursor) => events \in Seq(Message) /\ AtMost(events, published)
    <3> SUFFICES ASSUME ~MustReset(cursor)
                 PROVE  events \in Seq(Message) /\ AtMost(events, published)
      OBVIOUS
    <3>1. CASE pending = {}
      <4>1. Cardinality(pending) = 0
        BY <3>1, FS_EmptySet
      <4>2. events = <<>>
        BY <4>1
      <4> HIDE DEF events
      <4> QED
        BY <4>2 DEF AtMost, Events
    <3>2. CASE pending # {}
      <4>1. pending = Replay(cursor) /\ cursor \in Nat
        BY <1>0, <3>2 DEF Thread
      <4> HIDE DEF pending, cursor
      <4>2. PICK first \in 1..published : pending = first..published
        BY <1>0, <3>2, <4>1, ReplayIsNext
      <4>3. /\ first \in Nat \ {0} /\ first <= published /\ Min(pending) = first
            /\ Cardinality(pending) = published - first + 1
        BY <1>0, <4>2, IntervalBounds
      <4>4. \A i \in 1..(published - first + 1) :
              /\ [kind |-> "run", id |-> first + i - 1] \in Message
              /\ first + i - 1 <= published
        BY <1>0, <4>3 DEF Message
      <4>5. events = [i \in 1..(published - first + 1) |->
                       [kind |-> "run", id |-> first + i - 1]]
        BY <4>3
      <4> HIDE DEF events
      <4>6. events \in [1..(published - first + 1) -> Message]
        BY <4>4, <4>5
      <4>7. events \in Seq(Message) /\ Len(events) = published - first + 1
        BY <1>0, <4>3, <4>6
      <4>8. ASSUME NEW i \in 1..(published - first + 1) PROVE events[i].id <= published
        BY <4>4, <4>5
      <4> QED
        BY <4>7, <4>8 DEF AtMost, Events
    <3> QED
      BY <3>1, <3>2
  <2> HIDE DEF opening, events, end, cursor
  <2>6. AtMost(s, published)
    BY <1>4 DEF Numbers, AtMost
  <2>7. s \o opening \in Seq(Message) /\ AtMost(s \o opening, published)
    BY <1>5, <2>3, <2>6, AtMostConcat
  <2>8. AtMost(stream'[p].sent, published)
    BY <2>2, <2>4, <2>5, <2>7, AtMostConcat
  <2> QED
    BY <1>4, <2>1, <2>8 DEF Numbers, AtMost
<1>12. CASE \E q \in Pages : ServerStep(q)
  <2>1. PICK q \in Pages : ServerStep(q)
    BY <1>12
  <2>2. page'[p].last = page[p].last
    <3>1. CASE \E i \in DOMAIN page[q].asked : ServeSnapshot(q, i)
      BY <1>0, <3>1 DEF ServeSnapshot, Follower
    <3> QED
      BY <2>1, <3>1 DEF ServerStep, ListRuns, PublishChanges, Read
  <2>3. ~Read(p) => stream'[p].sent = s
    <3>1. CASE ListRuns(q)
      BY <1>0, <3>1 DEF ListRuns, Thread
    <3>2. CASE PublishChanges(q)
      BY <1>0, <3>2 DEF PublishChanges, Thread
    <3>3. CASE Read(q)
      <4>1. q # p => stream'[p] = stream[p]
        BY <1>0, <3>3 DEF Read
      <4> QED
        BY <3>3, <4>1
    <3>4. CASE \E i \in DOMAIN page[q].asked : ServeSnapshot(q, i)
      BY <3>4 DEF ServeSnapshot
    <3> QED
      BY <2>1, <3>1, <3>2, <3>3, <3>4 DEF ServerStep
  <2> QED
    BY <1>8, <1>11, <2>2, <2>3
<1>13. CASE \E q \in Pages : PageStep(q)
  <2>1. PICK q \in Pages : PageStep(q)
    BY <1>13
  <2>2. CASE Receive(q)
    <3>1. q # p => stream'[p] = stream[p] /\ page'[p] = page[p]
      BY <1>0, <2>2 DEF Receive
    <3> QED
      BY <1>8, <1>10, <2>2, <3>1
  <2>3. CASE Connect(q)
    <3>1. page'[p].last = page[p].last
      BY <1>0, <2>3 DEF Connect, Follower
    <3>2. stream'[p].sent = s \/ stream'[p].sent = <<>>
      BY <1>0, <2>3 DEF Connect, Closed
    <3> QED
      BY <1>8, <1>9, <3>1, <3>2
  <2>4. CASE Poll(q) \/ \E i \in DOMAIN page[q].asked : Refreshed(q, i)
    <3>1. stream' = stream
      BY <2>4 DEF Poll, Refreshed
    <3>2. page'[p].last = page[p].last
      <4>1. CASE Poll(q)
        <5>1. Polled(page[q]).last = page[q].last
          BY <1>0 DEF Polled, Refresh, Follower
        <5> QED
          BY <1>0, <4>1, <5>1 DEF Poll
      <4>2. CASE \E i \in DOMAIN page[q].asked : Refreshed(q, i)
        <5>1. PICK i \in DOMAIN page[q].asked : Refreshed(q, i)
          BY <4>2
        <5> DEFINE settled == Settled(page[q], i)
        <5>2. settled \in Follower /\ settled.last = page[q].last
          BY <1>0, SettledFollower
        <5>3. page' = [page EXCEPT ![q] =
                [settled EXCEPT !.view = page[q].asked[i], !.error = FALSE]]
          BY <1>0, <5>1 DEF Refreshed
        <5> HIDE DEF settled
        <5> QED
          BY <1>0, <5>2, <5>3 DEF Follower
      <4> QED
        BY <2>4, <4>1, <4>2
    <3> QED
      BY <1>8, <3>1, <3>2
  <2> QED
    BY <2>1, <2>2, <2>3, <2>4 DEF PageStep
<1>14. CASE \E q \in Pages : ConnectFails(q) \/ Drop(q) \/ RefreshFails(q)
  <2>1. page'[p].last = page[p].last
    <3>1. \A q \in Pages : Disconnected(page[q]).last = page[q].last
      BY <1>0 DEF Disconnected, Follower
    <3>2. CASE \E q \in Pages : ConnectFails(q) \/ Drop(q)
      BY <1>0, <3>1, <3>2 DEF ConnectFails, Drop
    <3>3. CASE \E q \in Pages : RefreshFails(q)
      <4>1. PICK q \in Pages : RefreshFails(q)
        BY <3>3
      <4>2. PICK i \in DOMAIN page[q].asked :
              page' = [page EXCEPT ![q] = [Settled(page[q], i) EXCEPT !.error = TRUE]]
        BY <1>0, <4>1 DEF RefreshFails
      <4> DEFINE settled == Settled(page[q], i)
      <4>3. settled \in Follower /\ settled.last = page[q].last
        BY <1>0, SettledFollower
      <4>4. page' = [page EXCEPT ![q] = [settled EXCEPT !.error = TRUE]]
        BY <4>2
      <4> HIDE DEF settled
      <4> QED
        BY <1>0, <4>3, <4>4 DEF Follower
    <3> QED
      BY <1>14, <3>2, <3>3
  <2>2. stream'[p].sent = s \/ stream'[p].sent = <<>>
    BY <1>0, <1>14 DEF ConnectFails, Drop, RefreshFails, Closed
  <2> QED
    BY <1>8, <1>9, <2>1, <2>2
<1>15. CASE \/ \E run \in Runs : Change(run) \/ Mutate(run)
            \/ \E w \in writers : PublishRun(w) \/ MarkSeen(w)
            \/ UNCHANGED vars
  BY <1>8, <1>15 DEF Change, Mutate, PublishRun, MarkSeen, vars
<1> QED
  BY <1>2, <1>12, <1>13, <1>14, <1>15 DEF Next

LEMMA WithinOne ==
  ASSUME StreamTyped, PagesWithin, NEW p \in Pages,
         NEW follower \in Follower, NEW thread \in Thread, Within(follower, thread),
         page' = [page EXCEPT ![p] = follower],
         stream' = [stream EXCEPT ![p] = thread]
  PROVE  PagesWithin'
<1>1. page'[p] = follower /\ stream'[p] = thread
  BY DEF StreamTyped
<1>2. \A q \in Pages \ {p} : page'[q] = page[q] /\ stream'[q] = stream[q]
  BY DEF StreamTyped
<1>3. ASSUME NEW q \in Pages PROVE Within(page'[q], stream'[q])
  <2>1. CASE q = p
    BY <1>1, <2>1
  <2>2. CASE q # p
    BY <1>2, <2>2 DEF PagesWithin
  <2> QED
    BY <2>1, <2>2
<1> QED
  BY <1>3 DEF PagesWithin, Within

(* The server's steps leave the page alone, or add an answer.              *)
LEMMA ServerWithin ==
  ASSUME BoundsInv, NEW p \in Pages, ServerStep(p) PROVE PagesWithin'
<1> USE EventStreamAssumption DEF BoundsInv
<1>0. /\ stream[p] \in Thread /\ page[p] \in Follower /\ Within(page[p], stream[p])
      /\ page = [page EXCEPT ![p] = page[p]] /\ stream = [stream EXCEPT ![p] = stream[p]]
      /\ stream \in [Pages -> Thread] /\ page \in [Pages -> Follower]
      /\ StreamTyped' /\ StreamInv'
  BY OnePageSame, StreamStep DEF StreamTyped, PagesWithin, Next
<1>1. CASE ListRuns(p)
  <2> DEFINE thread == [stream[p] EXCEPT !.at = "publish", !.listed = store]
  <2>1. /\ thread \in Thread /\ thread.at = "publish" /\ thread.listed = store
        /\ thread.sent = stream[p].sent /\ stream[p].at = "list" /\ store \in Listings
    BY <1>0, <1>1 DEF Thread, StreamTyped, ListRuns
  <2>2. stream' = [stream EXCEPT ![p] = thread] /\ page' = [page EXCEPT ![p] = page[p]]
    BY <1>0, <1>1 DEF ListRuns
  <2> HIDE DEF thread
  <2>3. Within(page[p], thread)
    BY <1>0, <2>1 DEF Within
  <2> QED
    BY <1>0, <2>1, <2>2, <2>3, WithinOne
<1>2. CASE PublishChanges(p)
  <2> DEFINE thread == [stream[p] EXCEPT !.at = "read", !.listed = None]
  <2>1. /\ thread \in Thread /\ thread.at = "read"
        /\ thread.sent = stream[p].sent /\ stream[p].at = "publish"
    BY <1>0, <1>2 DEF Thread, PublishChanges
  <2>2. stream' = [stream EXCEPT ![p] = thread] /\ page' = [page EXCEPT ![p] = page[p]]
    BY <1>0, <1>2 DEF PublishChanges
  <2> HIDE DEF thread
  <2>3. Within(page[p], thread)
    BY <1>0, <2>1 DEF Within
  <2> QED
    BY <1>0, <2>1, <2>2, <2>3, WithinOne
<1>3. CASE Read(p)
  <2>1. stream'[p] \in Thread /\ InOrder(page'[p].last, stream'[p])
    BY <1>0 DEF StreamTyped, StreamInv, InOrder, OpenFirst, NoGap, CursorKept, NoEnd,
                LastSent, Events
  <2>2. page' = page /\ stream[p].at = "read" /\ page[p].connected
    BY <1>0, <1>3 DEF Read, Within
  <2>3. stream' = [stream EXCEPT ![p] = stream'[p]] /\ stream'[p].at \in {"none", "list"}
    <3>1. \A t : [Closed EXCEPT !.sent = t].at = "none"
      BY DEF Closed
    <3> QED
      BY <1>0, <1>3, <3>1 DEF Read, Thread
  <2>4. ASSUME NEW i \in 1..Len(stream'[p].sent), stream'[p].sent[i].kind = "closed"
        PROVE  i = Len(stream'[p].sent)
    <3>1. CASE ~MustReset(stream[p].cursor)
      <4>1. stream'[p].at = "list"
        BY <1>0, <1>3, <3>1 DEF Read, Thread
      <4> QED
        BY <2>1, <2>4, <4>1 DEF InOrder, CursorKept, NoEnd
    <3>2. CASE MustReset(stream[p].cursor)
      <4> DEFINE opening == IF stream[p].first THEN <<[kind |-> "open"]>> ELSE <<>>
                 opened == stream[p].sent \o opening
                 reset == [kind |-> "reset", view |-> store]
                 closed == [kind |-> "closed"]
                 whole == opened \o <<reset, closed>>
      <4>1. stream'[p].sent = whole
        <5>1. \A t : [Closed EXCEPT !.sent = t].sent = t
          BY DEF Closed
        <5> QED
          BY <1>0, <1>3, <3>2, <5>1 DEF Read
      <4>2. opened \in Seq(Message) /\ NoEnd(opened)
        <5>1. stream[p].sent \in Seq(Message) /\ InOrder(page[p].last, stream[p])
              /\ page[p].last \in Nat /\ stream[p].at # "none"
          BY <1>0, <2>2 DEF Thread, Follower, StreamInv
        <5>2. /\ stream[p].first => opened = stream[p].sent \o <<[kind |-> "open"]>>
              /\ ~stream[p].first => opened = stream[p].sent
          <6>1. stream[p].first => opening = <<[kind |-> "open"]>>
            OBVIOUS
          <6>2. ~stream[p].first => opening = <<>>
            OBVIOUS
          <6> HIDE DEF opening
          <6>3. stream[p].sent \o <<>> = stream[p].sent
            BY <5>1, ConcatEmptySeq
          <6> QED
            BY <6>1, <6>2, <6>3
        <5> HIDE DEF opened
        <5> QED
          BY <1>0, <5>1, <5>2, OpeningInOrder
      <4>3. reset \in Message /\ closed \in Message /\ reset.kind = "reset"
        BY DEF Message, StreamTyped
      <4> HIDE DEF opened, reset, closed
      <4>4. /\ <<reset, closed>> \in Seq(Message) /\ Len(<<reset, closed>>) = 2
            /\ <<reset, closed>>[1] = reset
        BY <4>3
      <4>5. /\ Len(whole) = Len(opened) + 2 /\ Len(opened) \in Nat
            /\ \A j \in 1..Len(opened) : whole[j] = opened[j]
            /\ whole[Len(opened) + 1] = reset
        <5> DEFINE end == <<reset, closed>>
        <5>1. /\ Len(opened \o end) = Len(opened) + Len(end)
              /\ \A j \in 1..(Len(opened) + Len(end)) :
                    (opened \o end)[j] = IF j <= Len(opened) THEN opened[j]
                                         ELSE end[j - Len(opened)]
          BY <4>2, <4>4, ConcatProperties
        <5>2. Len(opened) \in Nat
          BY <4>2
        <5>3. whole = opened \o end /\ Len(end) = 2 /\ end[1] = reset
          BY <4>4
        <5> HIDE DEF whole, end
        <5>4. whole[Len(opened) + 1] = reset
          BY <5>1, <5>2, <5>3
        <5> QED
          BY <5>1, <5>2, <5>3, <5>4
      <4> HIDE DEF whole
      <4>6. i \in 1..Len(whole) /\ whole[i].kind = "closed"
        BY <2>4, <4>1
      <4>7. i \notin 1..Len(opened) /\ i # Len(opened) + 1
        BY <4>2, <4>3, <4>5, <4>6 DEF NoEnd
      <4> QED
        BY <4>1, <4>5, <4>6, <4>7
    <3> QED
      BY <3>1, <3>2
  <2>5. Within(page[p], stream'[p])
    BY <1>0, <2>2, <2>3, <2>4 DEF Within
  <2> QED
    BY <1>0, <2>1, <2>2, <2>3, <2>5, WithinOne
<1>4. ASSUME NEW i \in DOMAIN page[p].asked, ServeSnapshot(p, i) PROVE PagesWithin'
  <2> DEFINE asked == [page[p].asked EXCEPT ![i] = store]
             follower == [page[p] EXCEPT !.asked = asked]
  <2>1. page[p].asked \in Seq(Listings \cup {None}) /\ store \in Listings
    BY <1>0 DEF Follower, StreamTyped
  <2>2. asked \in Seq(Listings \cup {None}) /\ Len(asked) = Len(page[p].asked)
    BY <1>4, <2>1, AskedSeq
  <2>3. page' = [page EXCEPT ![p] = follower] /\ stream' = [stream EXCEPT ![p] = stream[p]]
    BY <1>0, <1>4 DEF ServeSnapshot
  <2> HIDE DEF asked
  <2>4. follower \in Follower /\ Within(follower, stream[p])
    BY <1>0, <2>2 DEF Follower, Within
  <2> QED
    BY <1>0, <2>3, <2>4, WithinOne
<1> QED
  BY <1>1, <1>2, <1>3, <1>4 DEF ServerStep

(* What a message does to what the page counts.                            *)
LEMMA ReceivedCounts ==
  ASSUME NEW follower \in Follower, NEW message \in Message
  PROVE  /\ LET opened == [follower EXCEPT !.attempts = 0, !.polls = 0]
            IN  /\ opened.attempts = 0 /\ opened.polls = 0
                /\ opened.asked = follower.asked
                /\ opened.connected = follower.connected
         /\ Disconnected(follower).attempts = follower.attempts + 1
         /\ Disconnected(follower).polls = follower.polls
         /\ Disconnected(follower).asked = follower.asked
         /\ ~Disconnected(follower).connected
         /\ OnRun(follower, message.id).attempts = 0
         /\ OnRun(follower, message.id).polls = 0
         /\ OnRun(follower, message.id).asked = Append(follower.asked, None)
         /\ OnRun(follower, message.id).connected = follower.connected
         /\ OnReset(follower, message.view).attempts = 0
         /\ OnReset(follower, message.view).polls = 0
         /\ OnReset(follower, message.view).asked = follower.asked
         /\ OnReset(follower, message.view).connected = follower.connected
  BY DEF Follower, Disconnected, OnRun, OnReset, Refresh

LEMMA ReceiveWithin ==
  ASSUME BoundsInv, NEW p \in Pages, Receive(p) PROVE PagesWithin'
<1> USE EventStreamAssumption DEF BoundsInv
<1> DEFINE s == stream[p]
           t == [stream[p] EXCEPT !.sent = Tail(@)]
           message == Head(stream[p].sent)
           before == page[p]
<1>1. /\ before \in Follower /\ s \in Thread /\ Within(before, s) /\ InOrder(before.last, s)
      /\ before.attempts \in Nat /\ before.asked \in Seq(Listings \cup {None})
  BY DEF StreamTyped, StreamInv, PagesWithin, Follower
<1>2. s.sent \in Seq(Message) /\ s.sent # <<>> /\ s.listed \in Listings \cup {None}
  BY <1>1 DEF Receive, Thread
<1>3. /\ message = s.sent[1] /\ message \in Message /\ Tail(s.sent) \in Seq(Message)
      /\ Len(s.sent) \in Nat \ {0} /\ Len(Tail(s.sent)) = Len(s.sent) - 1
      /\ \A i \in 1..Len(Tail(s.sent)) : Tail(s.sent)[i] = s.sent[i + 1]
  BY <1>2, HeadTailProperties
<1>4. /\ t \in Thread /\ t.sent = Tail(s.sent) /\ t.at = s.at /\ t.listed = s.listed
  BY <1>1, <1>3 DEF Thread
<1>5. /\ stream' = [stream EXCEPT ![p] = t]
      /\ message.kind = "run" => Len(before.asked) < MaxRequests
      /\ message.kind = "open" =>
            page' = [page EXCEPT ![p] = [before EXCEPT !.attempts = 0, !.polls = 0]]
      /\ message.kind = "run" => page' = [page EXCEPT ![p] = OnRun(before, message.id)]
      /\ message.kind = "reset" =>
            page' = [page EXCEPT ![p] = OnReset(before, message.view)]
      /\ message.kind = "closed" => page' = [page EXCEPT ![p] = Disconnected(before)]
  BY DEF Receive, StreamTyped
<1> HIDE DEF s, t, message, before
<1>6. before.connected /\ before.attempts < MaxReconnects
  BY <1>1, <1>2 DEF Within
<1>7. \A i \in 1..Len(t.sent) : t.sent[i].kind = "closed" => i = Len(t.sent)
  <2> DEFINE rest == Tail(s.sent)
  <2>1. Len(rest) = Len(s.sent) - 1 /\ \A i \in 1..Len(rest) : rest[i] = s.sent[i + 1]
    BY <1>3
  <2> HIDE DEF rest
  <2>2. ASSUME NEW i \in 1..Len(rest), rest[i].kind = "closed" PROVE i = Len(rest)
    <3>1. i + 1 \in 1..Len(s.sent) /\ s.sent[i + 1].kind = "closed"
      BY <1>3, <2>1, <2>2
    <3>2. i + 1 = Len(s.sent)
      BY <1>1, <3>1 DEF Within
    <3> QED
      BY <1>3, <2>1, <3>2
  <2> QED
    BY <1>4, <2>2 DEF rest
<1>8. SUFFICES ASSUME NEW follower \in Follower, Len(follower.asked) <= MaxRequests,
                      follower.polls <= MaxPolls, follower.attempts <= MaxReconnects,
                      \/ follower.connected /\ follower.attempts = 0
                      \/ ~follower.connected /\ message.kind = "closed",
                      page' = [page EXCEPT ![p] = follower]
               PROVE  PagesWithin'
  <2>1. CASE message.kind = "open"
    <3> DEFINE follower == [before EXCEPT !.attempts = 0, !.polls = 0]
    <3>1. /\ follower \in Follower /\ follower.attempts = 0 /\ follower.polls = 0
          /\ follower.asked = before.asked /\ follower.connected = before.connected
      BY <1>1 DEF Follower
    <3>2. page' = [page EXCEPT ![p] = follower]
      BY <1>5, <2>1
    <3> HIDE DEF follower
    <3>3. Len(follower.asked) <= MaxRequests
      BY <1>1, <3>1 DEF Within
    <3>6. /\ follower.polls <= MaxPolls /\ follower.attempts <= MaxReconnects
          /\ follower.connected
      BY <1>6, <3>1
    <3> QED
      BY <1>8, <3>1, <3>2, <3>3, <3>6
  <2>2. CASE message.kind = "run"
    <3> DEFINE follower == OnRun(before, message.id)
    <3>1. /\ follower \in Follower /\ follower.attempts = 0 /\ follower.polls = 0
          /\ follower.asked = Append(before.asked, None)
          /\ follower.connected = before.connected
      BY <1>1, <1>3, <2>2, Received, ReceivedCounts
    <3>2. page' = [page EXCEPT ![p] = follower]
      BY <1>5, <2>2
    <3> HIDE DEF follower
    <3>3. Len(Append(before.asked, None)) = Len(before.asked) + 1
      BY <1>1
    <3>4. Len(before.asked) < MaxRequests /\ Len(before.asked) \in Nat
      BY <1>1, <1>5, <2>2
    <3>5. Len(follower.asked) <= MaxRequests
      BY <3>1, <3>3, <3>4
    <3>6. /\ follower.polls <= MaxPolls /\ follower.attempts <= MaxReconnects
          /\ follower.connected
      BY <1>6, <3>1
    <3> QED
      BY <1>8, <3>1, <3>2, <3>5, <3>6
  <2>3. CASE message.kind = "reset"
    <3> DEFINE follower == OnReset(before, message.view)
    <3>1. /\ follower \in Follower /\ follower.attempts = 0 /\ follower.polls = 0
          /\ follower.asked = before.asked /\ follower.connected = before.connected
      BY <1>1, <1>3, <2>3, Received, ReceivedCounts
    <3>2. page' = [page EXCEPT ![p] = follower]
      BY <1>5, <2>3
    <3> HIDE DEF follower
    <3>3. Len(follower.asked) <= MaxRequests
      BY <1>1, <3>1 DEF Within
    <3>6. /\ follower.polls <= MaxPolls /\ follower.attempts <= MaxReconnects
          /\ follower.connected
      BY <1>6, <3>1
    <3> QED
      BY <1>8, <3>1, <3>2, <3>3, <3>6
  <2>4. CASE message.kind = "closed"
    <3> DEFINE follower == Disconnected(before)
    <3>1. /\ follower \in Follower /\ follower.attempts = before.attempts + 1
          /\ follower.polls = before.polls
          /\ follower.asked = before.asked /\ ~follower.connected
      BY <1>1, <1>3, Received, ReceivedCounts
    <3>2. page' = [page EXCEPT ![p] = follower]
      BY <1>5, <2>4
    <3> HIDE DEF follower
    <3>3. /\ Len(follower.asked) <= MaxRequests /\ follower.polls <= MaxPolls
          /\ follower.attempts <= MaxReconnects
      BY <1>1, <1>6, <3>1 DEF Within
    <3> QED
      BY <1>8, <2>4, <3>1, <3>2, <3>3
  <2> QED
    BY <1>3, <2>1, <2>2, <2>3, <2>4, MessageKinds
<1>9. t.at # "none" \/ t.sent # <<>> => follower.connected
  <2>1. CASE message.kind = "closed"
    <3>1. Len(s.sent) = 1 /\ 1 \in 1..Len(s.sent)
      <4>1. 1 \in 1..Len(s.sent) /\ s.sent[1].kind = "closed"
        BY <1>3, <2>1
      <4> QED
        BY <1>1, <4>1 DEF Within
    <3>2. s.at = "none"
      BY <1>1, <1>3, <2>1, <3>1 DEF InOrder, CursorKept, NoEnd
    <3>3. t.sent = <<>>
      <4>1. t.sent \in Seq(Message) /\ Len(t.sent) = 0
        BY <1>3, <1>4, <3>1
      <4> QED
        BY <4>1
    <3> QED
      BY <1>4, <3>2, <3>3
  <2> QED
    BY <1>8, <2>1
<1>10. Within(follower, t)
  BY <1>1, <1>4, <1>7, <1>8, <1>9 DEF Within
<1> QED
  BY <1>4, <1>5, <1>8, <1>10, WithinOne

(* The page's steps, and what cuts it off.                                 *)
LEMMA PageWithin ==
  ASSUME BoundsInv, NEW p \in Pages,
         PageStep(p) \/ ConnectFails(p) \/ Drop(p) \/ RefreshFails(p)
  PROVE  PagesWithin'
<1> USE EventStreamAssumption DEF BoundsInv
<1>0. /\ stream[p] \in Thread /\ page[p] \in Follower /\ Within(page[p], stream[p])
      /\ page = [page EXCEPT ![p] = page[p]] /\ stream = [stream EXCEPT ![p] = stream[p]]
      /\ stream \in [Pages -> Thread] /\ page \in [Pages -> Follower]
      /\ page[p].asked \in Seq(Listings \cup {None})
      /\ page[p].attempts \in Nat /\ page[p].polls \in Nat
      /\ InOrder(page[p].last, stream[p])
  BY OnePageSame DEF StreamTyped, StreamInv, PagesWithin, Follower
<1>1. ASSUME NEW follower \in Follower, NEW asked,
             page' = [page EXCEPT ![p] = follower], stream' = stream,
             follower.asked = asked, Len(asked) <= MaxRequests,
             follower.polls <= MaxPolls, follower.attempts <= MaxReconnects,
             follower.connected = page[p].connected,
             page[p].connected => follower.attempts = page[p].attempts
      PROVE  PagesWithin'
  <2>1. Within(follower, stream[p])
    BY <1>0, <1>1 DEF Within
  <2> QED
    BY <1>0, <1>1, <2>1, WithinOne
<1>2. CASE Connect(p)
  <2> DEFINE follower == [page[p] EXCEPT !.connected = TRUE, !.heard = 0]
             thread == [Closed EXCEPT !.at = "list", !.first = TRUE,
                                      !.cursor = page[p].last]
  <2>1. /\ follower \in Follower /\ follower.asked = page[p].asked /\ follower.connected
        /\ follower.polls = page[p].polls /\ follower.attempts = page[p].attempts
    BY <1>0 DEF Follower
  <2>2. /\ thread \in Thread /\ thread.sent = <<>> /\ thread.at = "list"
    <3>1. Closed \in Thread /\ Closed.sent = <<>> /\ page[p].last \in Nat
      BY <1>0, ClosedInOrder DEF Closed, Follower
    <3> QED
      BY <3>1 DEF Thread
  <2>3. /\ page' = [page EXCEPT ![p] = follower] /\ stream' = [stream EXCEPT ![p] = thread]
        /\ page[p].attempts < MaxReconnects
    BY <1>0, <1>2 DEF Connect
  <2> HIDE DEF follower, thread
  <2>4. Within(follower, thread)
    <3>1. Len(thread.sent) = 0
      BY <2>2
    <3> QED
      BY <1>0, <2>1, <2>2, <2>3, <3>1 DEF Within
  <2> QED
    BY <1>0, <2>1, <2>2, <2>3, <2>4, WithinOne
<1>3. CASE Poll(p)
  <2> DEFINE asked == Append(page[p].asked, None)
             follower == Polled(page[p])
  <2>1. page[p].asked = <<>> /\ page[p].polls < MaxPolls /\ ~page[p].connected
    BY <1>0, <1>3 DEF Poll, Follower
  <2>2. asked \in Seq(Listings \cup {None}) /\ Len(asked) = 1
    BY <1>0, <2>1, AskedSeq
  <2>3. follower = [page[p] EXCEPT !.polls = page[p].polls + 1, !.asked = asked]
    BY <1>0 DEF Polled, Refresh, Follower
  <2>4. page' = [page EXCEPT ![p] = follower] /\ stream' = stream
    BY <1>3 DEF Poll
  <2> HIDE DEF asked, follower
  <2> DEFINE polls == page[p].polls + 1
  <2>5. polls \in Nat /\ polls <= MaxPolls
    BY <1>0, <2>1
  <2>6. follower = [page[p] EXCEPT !.polls = polls, !.asked = asked]
    BY <2>3
  <2> HIDE DEF polls
  <2>7. /\ follower \in Follower /\ follower.asked = asked
        /\ follower.polls = polls /\ follower.attempts = page[p].attempts
        /\ follower.connected = page[p].connected
    BY <1>0, <2>2, <2>5, <2>6 DEF Follower
  <2>8. Len(asked) <= MaxRequests /\ page[p].attempts <= MaxReconnects
    BY <1>0, <2>2 DEF Within
  <2> QED
    BY <1>1, <2>4, <2>5, <2>7, <2>8
<1>4. CASE RefreshFails(p)
  <2>1. PICK i \in DOMAIN page[p].asked :
          page' = [page EXCEPT ![p] = [Settled(page[p], i) EXCEPT !.error = TRUE]]
    BY <1>0, <1>4 DEF RefreshFails
  <2> DEFINE asked == RemoveAt(page[p].asked, i)
             settled == Settled(page[p], i)
             follower == [settled EXCEPT !.error = TRUE]
  <2>2. Len(asked) = Len(page[p].asked) - 1
    BY <1>0, Removed
  <2>3. /\ settled \in Follower /\ settled.asked = asked
        /\ settled.polls = page[p].polls /\ settled.attempts = page[p].attempts
        /\ settled.connected = page[p].connected
    BY <1>0, SettledFollower
  <2>4. page' = [page EXCEPT ![p] = follower] /\ stream' = stream
    BY <1>0, <1>4, <2>1 DEF RefreshFails
  <2> HIDE DEF asked, settled
  <2>5. /\ follower \in Follower /\ follower.asked = asked
        /\ follower.polls = page[p].polls /\ follower.attempts = page[p].attempts
        /\ follower.connected = page[p].connected
    BY <2>3 DEF Follower
  <2>6. Len(asked) <= MaxRequests
    BY <1>0, <2>2 DEF Within
  <2> HIDE DEF follower
  <2> QED
    BY <1>0, <1>1, <2>4, <2>5, <2>6 DEF Within
<1>5. ASSUME NEW i \in DOMAIN page[p].asked, Refreshed(p, i) PROVE PagesWithin'
  <2> DEFINE asked == RemoveAt(page[p].asked, i)
             settled == Settled(page[p], i)
             view == page[p].asked[i]
             follower == [settled EXCEPT !.view = view, !.error = FALSE]
  <2>2. Len(asked) = Len(page[p].asked) - 1
    BY <1>0, Removed
  <2>7. view \in Listings \cup {None}
    BY <1>0, <1>5
  <2>3. /\ settled \in Follower /\ settled.asked = asked
        /\ settled.polls = page[p].polls /\ settled.attempts = page[p].attempts
        /\ settled.connected = page[p].connected
    BY <1>0, SettledFollower
  <2>4. page' = [page EXCEPT ![p] = follower] /\ stream' = stream
    BY <1>0, <1>5 DEF Refreshed
  <2> HIDE DEF asked, settled, view
  <2>5. /\ follower \in Follower /\ follower.asked = asked
        /\ follower.polls = page[p].polls /\ follower.attempts = page[p].attempts
        /\ follower.connected = page[p].connected
    BY <2>3, <2>7 DEF Follower
  <2>6. Len(asked) <= MaxRequests
    BY <1>0, <2>2 DEF Within
  <2> HIDE DEF follower
  <2> QED
    BY <1>0, <1>1, <2>4, <2>5, <2>6 DEF Within
<1>6. ASSUME ConnectFails(p) \/ Drop(p) PROVE PagesWithin'
  <2> DEFINE follower == Disconnected(page[p])
  <2>1. follower = [page[p] EXCEPT !.connected = FALSE, !.heard = 0,
                                   !.attempts = page[p].attempts + 1]
    BY <1>0 DEF Disconnected, Follower
  <2>2. page' = [page EXCEPT ![p] = follower] /\ page[p].attempts < MaxReconnects
    <3>1. CASE ConnectFails(p)
      BY <3>1 DEF ConnectFails
    <3>2. CASE Drop(p)
      BY <1>0, <3>2 DEF Drop, Within
    <3> QED
      BY <1>6, <3>1, <3>2
  <2>3. \/ stream' = [stream EXCEPT ![p] = Closed]
        \/ stream' = [stream EXCEPT ![p] = stream[p]] /\ ~page[p].connected
    BY <1>0, <1>6 DEF ConnectFails, Drop
  <2> DEFINE attempts == page[p].attempts + 1
  <2>7. attempts \in Nat /\ attempts <= MaxReconnects
    BY <1>0, <2>2
  <2>8. follower = [page[p] EXCEPT !.connected = FALSE, !.heard = 0,
                                   !.attempts = attempts]
    BY <2>1
  <2> HIDE DEF follower, attempts
  <2>4. /\ follower \in Follower /\ follower.asked = page[p].asked /\ ~follower.connected
        /\ follower.polls = page[p].polls /\ follower.attempts <= MaxReconnects
    BY <1>0, <2>7, <2>8 DEF Follower
  <2>5. ~page[p].connected => Within(follower, stream[p])
    BY <1>0, <2>2, <2>4 DEF Within
  <2>6. Closed \in Thread /\ Within(follower, Closed)
    <3>1. Closed.sent = <<>> /\ Closed.at = "none" /\ Closed \in Thread
      BY <1>0, ClosedInOrder DEF Closed, Follower
    <3>2. Len(Closed.sent) = 0
      BY <3>1
    <3> QED
      BY <1>0, <2>2, <2>4, <3>1, <3>2 DEF Within
  <2> QED
    BY <1>0, <2>2, <2>3, <2>4, <2>5, <2>6, WithinOne
<1>7. CASE Receive(p)
  BY <1>7, ReceiveWithin
<1> QED
  BY <1>2, <1>3, <1>4, <1>5, <1>6, <1>7 DEF PageStep

(* The server's own threads, and its restart.                              *)
LEMMA RestartWithin ==
  ASSUME BoundsInv, Restart PROVE PagesWithin'
<1> USE EventStreamAssumption DEF BoundsInv
<1> DEFINE cut(p) == [page[p] EXCEPT !.asked = <<>>, !.overtaken = 0, !.old = TRUE,
                                     !.error = @ \/ page[p].asked # <<>>]
           after(p) == IF cut(p).connected THEN Disconnected(cut(p)) ELSE cut(p)
<1>1. stream' = [p \in Pages |-> Closed] /\ page' = [p \in Pages |-> after(p)]
  BY DEF Restart
<1>2. ASSUME NEW p \in Pages PROVE Within(after(p), Closed)
  <2>1. page[p] \in Follower /\ Within(page[p], stream[p])
    BY DEF StreamTyped, PagesWithin
  <2>2. /\ cut(p).asked = <<>> /\ cut(p).connected = page[p].connected
        /\ cut(p).attempts = page[p].attempts /\ cut(p).polls = page[p].polls
        /\ cut(p) = [cut(p) EXCEPT !.old = TRUE]
    BY <2>1 DEF Follower
  <2>3. /\ Disconnected(cut(p)).asked = <<>> /\ Disconnected(cut(p)).connected = FALSE
        /\ Disconnected(cut(p)).attempts = page[p].attempts + 1
        /\ Disconnected(cut(p)).polls = page[p].polls
    BY <2>1 DEF Follower, Disconnected
  <2> HIDE DEF cut
  <2>4. Closed.at = "none" /\ Closed.sent = <<>>
    BY DEF Closed
  <2>5. /\ page[p].attempts \in Nat /\ page[p].polls <= MaxPolls
        /\ page[p].attempts <= MaxReconnects
        /\ page[p].connected => page[p].attempts < MaxReconnects
    BY <2>1 DEF Follower, Within
  <2>6. Len(Closed.sent) = 0
    BY <2>4
  <2>7. CASE cut(p).connected
    <3>1. after(p) = Disconnected(cut(p))
      BY <2>7
    <3> HIDE DEF after
    <3>2. after(p).asked = <<>> /\ after(p).connected = FALSE
          /\ after(p).polls <= MaxPolls /\ after(p).attempts <= MaxReconnects
      BY <2>2, <2>3, <2>5, <2>7, <3>1
    <3>3. Len(after(p).asked) = 0
      BY <3>2
    <3> QED
      BY <2>4, <2>6, <3>2, <3>3 DEF Within
  <2>8. CASE ~cut(p).connected
    <3>1. after(p) = cut(p)
      BY <2>8
    <3> HIDE DEF after
    <3>2. after(p).asked = <<>> /\ ~after(p).connected
          /\ after(p).polls <= MaxPolls /\ after(p).attempts <= MaxReconnects
      BY <2>2, <2>5, <2>8, <3>1
    <3>3. Len(after(p).asked) = 0
      BY <3>2
    <3> QED
      BY <2>4, <2>6, <3>2, <3>3 DEF Within
  <2> QED
    BY <2>7, <2>8
<1> HIDE DEF after
<1>3. \A p \in Pages : page'[p] = after(p) /\ stream'[p] = Closed
  BY <1>1
<1> QED
  BY <1>2, <1>3 DEF PagesWithin, Within

LEMMA BoundsStep ==
  ASSUME BoundsInv, [Next]_vars PROVE BoundsInv'
<1>1. StreamTyped' /\ StreamInv'
  BY StreamStep DEF BoundsInv
<1>2. PagesWithin'
  <2>1. CASE \/ \E run \in Runs : Change(run) \/ Mutate(run)
             \/ \E w \in writers : PublishRun(w) \/ MarkSeen(w)
             \/ UNCHANGED vars
    <3>1. UNCHANGED <<page, stream>>
      BY <2>1 DEF Change, Mutate, PublishRun, MarkSeen, server, vars
    <3> QED
      BY <3>1 DEF BoundsInv, PagesWithin, Within
  <2>2. CASE Restart
    BY <2>2, RestartWithin
  <2>3. CASE \E p \in Pages : \/ ServerStep(p) \/ PageStep(p)
                              \/ ConnectFails(p) \/ Drop(p) \/ RefreshFails(p)
    BY <2>3, ServerWithin, PageWithin
  <2> QED
    BY <2>1, <2>2, <2>3 DEF Next
<1> QED
  BY <1>1, <1>2, NumbersKnownStep, LockKnownStep, ServerTypedStep DEF BoundsInv

LEMMA BoundsTyped == BoundsInv => TypeOK
<1> SUFFICES ASSUME BoundsInv PROVE TypeOK
  OBVIOUS
<1> USE EventStreamAssumption
<1>1. ASSUME NEW p \in Pages
      PROVE  /\ page[p].view \in Listings \cup {None}
             /\ page[p].last \in 0..published \/ restarts > 0
             /\ page[p].asked \in Seq(Listings \cup {None})
             /\ Len(page[p].asked) <= MaxRequests /\ page[p].overtaken \in Nat
             /\ page[p].attempts \in 0..MaxReconnects /\ page[p].polls \in 0..MaxPolls
             /\ {page[p].connected, page[p].old, page[p].outrun, page[p].error}
                    \subseteq BOOLEAN
             /\ stream[p].at \in {"none", "list", "publish", "read"}
             /\ stream[p].sent \in Seq(Message)
             /\ eventLock = p <=> stream[p].at = "publish"
  <2>1. /\ page[p] \in Follower /\ stream[p] \in Thread /\ published \in Nat
        /\ Within(page[p], stream[p])
        /\ eventLock = p <=> stream[p].at = "publish"
        /\ restarts \in Nat
        /\ restarts = 0 => page[p].last <= published
    BY DEF BoundsInv, StreamTyped, PagesWithin, LockKnown, NumbersKnown, Numbers, ServerTyped
  <2>2. /\ page[p].last \in Nat /\ page[p].attempts \in Nat /\ page[p].polls \in Nat
        /\ page[p].view \in Listings \cup {None}
        /\ page[p].asked \in Seq(Listings \cup {None}) /\ page[p].overtaken \in Nat
        /\ {page[p].connected, page[p].old, page[p].outrun, page[p].error}
              \subseteq BOOLEAN
    BY <2>1 DEF Follower
  <2>3. stream[p].at \in {"none", "list", "publish", "read"} /\ stream[p].sent \in Seq(Message)
    BY <2>1 DEF Thread
  <2>4. /\ Len(page[p].asked) <= MaxRequests
        /\ page[p].attempts <= MaxReconnects /\ page[p].polls <= MaxPolls
    BY <2>1 DEF Within
  <2>5. page[p].last \in 0..published \/ restarts > 0
    BY <2>1, <2>2
  <2>6. page[p].attempts \in 0..MaxReconnects /\ page[p].polls \in 0..MaxPolls
    BY <2>2, <2>4
  <2> QED
    BY <2>1, <2>2, <2>3, <2>4, <2>5, <2>6
<1> QED
  BY <1>1 DEF TypeOK, BoundsInv, StreamTyped, ServerTyped

(* The event stream's state keeps its types and its bounds: a page counts  *)
(* no more than MAX_RECONNECTS failures and MAX_FALLBACK_POLLS polls, has  *)
(* no event the server has not numbered, unless the server has started     *)
(* anew, and the lock of sync_events is held by the stream inside it.      *)
THEOREM StreamTypeCorrect == Spec => []TypeOK
<1>1. Init => BoundsInv
  BY StreamInit, BoundsInit DEF BoundsInv
<1>2. BoundsInv /\ [Next]_vars => BoundsInv'
  BY BoundsStep
<1> QED
  BY <1>1, <1>2, BoundsTyped, PTL DEF Spec
=============================================================================
