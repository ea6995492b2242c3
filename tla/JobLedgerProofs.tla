-------------------------- MODULE JobLedgerProofs --------------------------
(***************************************************************************)
(* Proofs about JobLedger, for any number of creators, editors and jobs:   *)
(* no two creators share a directory, and nothing that was pruned is       *)
(* reopened but by a script that replaces a state it has not read.  And    *)
(* about its two gates: a panel decides one thing, and by the quorum it    *)
(* has, and the walk over the jobs finds the debt of the last two.         *)
(***************************************************************************)
EXTENDS JobLedger, FiniteSetTheorems, WellFoundedInduction, TLAPS

(* A directory is made before it has a status, and whoever has made one is *)
(* alone with it until it writes the status.                               *)
StatusInDirectory == \A id \in Ids : jobs[id] # None => id \in dirs
MadeIsEmpty ==
    \A c \in Creators : creator[c].at = "made" =>
        creator[c].id \in dirs /\ jobs[creator[c].id] = None
ChosenKnown ==
    \A c \in Creators :
        /\ creator[c].at # "idle" => creator[c].task \in Task
        /\ creator[c].at \in {"numbered", "made"} => creator[c].id \in Ids
EditedIsCreated ==
    \A e \in Editors : editor[e] # None => jobs[editor[e].id] # None

DirectoryInv ==
    /\ TypeOK
    /\ StatusInDirectory /\ MadeIsEmpty /\ ChosenKnown
    /\ EditedIsCreated /\ OwnDirectory

(* A write in hand follows from what is there, unless it is stale.         *)
WritesFollow ==
    \A e \in Editors : Writing(e) /\ ~editor[e].stale =>
        LET state == jobs[editor[e].id].state
        IN  editor[e].write.state \in Allowed(state) \cup {state}

PrunedInv == DirectoryInv /\ WritesFollow /\ PrunedStaysAccepted
----------------------------------------------------------------------------
LEMMA AllowedStates ==
  ASSUME NEW state \in States
  PROVE  Allowed(state) \subseteq States
  BY DEF Allowed, States, Aborted

LEMMA AcceptedIsFinal == Allowed("accepted") = {}
  BY DEF Allowed, Aborted

LEMMA WrittenIsStatus ==
  ASSUME NEW status \in Status
  PROVE  /\ \A new \in Transitions(status) :
              /\ new \in Status
              /\ new.state \in Allowed(status.state) \cup {status.state}
         /\ \A new \in Updates(status) : new \in Status /\ new.state = status.state
<1>1. \A new \in Transitions(status) :
        new \in Status /\ new.state \in Allowed(status.state) \cup {status.state}
  BY AllowedStates DEF Transitions, Moved, Status
<1>2. \A new \in Recorded(status) :
        new \in Status /\ new.state = status.state
  BY DEF Recorded, Status
<1>3. \A new \in Updates(status) : new \in Status /\ new.state = status.state
  BY <1>2 DEF Updates, Status
<1> QED
  BY <1>1, <1>3

LEMMA DirectoryInit == Init => DirectoryInv
<1> SUFFICES ASSUME Init PROVE DirectoryInv
  OBVIOUS
<1>1. TypeOK
  <2>1. Idle \in [at : {"idle", "checked", "numbered", "made"},
                  task : Task \cup {None}, id : 0..MaxJobs]
    BY JobLedgerAssumption DEF Idle
  <2> QED
    BY <2>1 DEF Init, TypeOK
<1>2. StatusInDirectory /\ EditedIsCreated
  BY DEF Init, StatusInDirectory, EditedIsCreated
<1>3. MadeIsEmpty /\ ChosenKnown /\ OwnDirectory
  BY DEF Init, MadeIsEmpty, ChosenKnown, OwnDirectory, Idle
<1> QED
  BY <1>1, <1>2, <1>3 DEF DirectoryInv

(* Only a creator changes anything but jobs that have a status.            *)
LEMMA DirectoryStep ==
  ASSUME DirectoryInv, [Next]_vars
  PROVE  DirectoryInv'
<1> USE JobLedgerAssumption
    DEF DirectoryInv, TypeOK, StatusInDirectory, MadeIsEmpty, ChosenKnown,
        EditedIsCreated, OwnDirectory, counts
<1>1. ASSUME NEW c \in Creators, NEW task \in Proposals, Check(c, task)
      PROVE  DirectoryInv'
  <2> DEFINE checked == [at |-> "checked", task |-> task, id |-> 0]
  <2>1. creator' = [creator EXCEPT ![c] = checked]
    BY <1>1 DEF Check
  <2>2. TypeOK'
    BY <1>1, <2>1 DEF Check
  <2> QED
    BY <1>1, <2>1, <2>2 DEF Check
<1>2. ASSUME NEW c \in Creators, NextId(c) PROVE DirectoryInv'
  <2> DEFINE numbered(id) == [at |-> "numbered", task |-> creator[c].task, id |-> id]
  <2>1. PICK id \in Ids : creator' = [creator EXCEPT ![c] = numbered(id)]
    BY <1>2 DEF NextId
  <2>2. id \in 0..MaxJobs
    BY DEF Ids
  <2>3. TypeOK'
    BY <1>2, <2>1, <2>2 DEF NextId
  <2> QED
    BY <1>2, <2>1, <2>3 DEF NextId
<1>3. ASSUME NEW c \in Creators, MakeDirectory(c) PROVE DirectoryInv'
  BY <1>3 DEF MakeDirectory, Makes, Idle
<1>4. ASSUME NEW c \in Creators, WriteStatus(c) PROVE DirectoryInv'
  <2> DEFINE id == creator[c].id
             new == [state |-> "queued", revision |-> 0, task |-> creator[c].task,
                     passed |-> FALSE, blocked |-> FALSE, closed |-> FALSE]
  <2>1. id \in Ids /\ id \in dirs /\ jobs[id] = None
    BY <1>4 DEF WriteStatus
  <2>2. jobs' = [jobs EXCEPT ![id] = new] /\ creator' = [creator EXCEPT ![c] = Idle]
    BY <1>4 DEF WriteStatus
  <2>3. new \in Status
    BY <1>4 DEF WriteStatus, Status, States
  <2>4. TypeOK'
    BY <1>4, <2>1, <2>2, <2>3 DEF WriteStatus, Idle
  <2> QED
    BY <1>4, <2>1, <2>2, <2>4 DEF WriteStatus, Idle
<1>5. ASSUME NEW c \in Creators, CreatorDies(c) PROVE DirectoryInv'
  BY <1>5 DEF CreatorDies, Idle
<1>6. ASSUME NEW e \in Editors, NEW id \in Ids, Look(e, id) PROVE DirectoryInv'
  BY <1>6 DEF Look, Created, Status
<1>7. ASSUME NEW e \in Editors, NEW id \in Ids, Transition(e, id)
      PROVE  DirectoryInv'
  BY <1>7, WrittenIsStatus DEF Transition, Prepares, Created, Status
<1>8. ASSUME NEW e \in Editors, NEW id \in Ids, Update(e, id)
      PROVE  DirectoryInv'
  BY <1>8, WrittenIsStatus DEF Update, Prepares, Created, Status
<1>9. ASSUME NEW e \in Editors, Replace(e) PROVE DirectoryInv'
  BY <1>9 DEF Replace, Writing
<1>10. ASSUME NEW e \in Editors, GiveUp(e) PROVE DirectoryInv'
  BY <1>10 DEF GiveUp
<1>11. ASSUME NEW id \in Ids, Integrate(id) PROVE DirectoryInv'
  BY <1>11 DEF Integrate
<1>12. ASSUME Approve \/ ReviewDies PROVE DirectoryInv'
  BY <1>12 DEF Approve, ReviewDies
<1>13. ASSUME NEW named \in SUBSET Created, Prune(named) PROVE DirectoryInv'
  BY <1>13 DEF Prune, Created
<1>14. CASE UNCHANGED vars
  BY <1>14 DEF vars
<1> QED
  BY <1>1, <1>2, <1>3, <1>4, <1>5, <1>6, <1>7, <1>8, <1>9, <1>10, <1>11, <1>12,
     <1>13, <1>14 DEF Next

(* Two runs of create_job.py never make the same directory: whatever they  *)
(* saw when they chose the number, mkdir fails for one of them.            *)
THEOREM CreatorsApart == Spec => []OwnDirectory
<1>1. DirectoryInv => OwnDirectory
  BY DEF DirectoryInv
<1> QED
  BY DirectoryInit, DirectoryStep, <1>1, PTL DEF Spec

(* The ledger keeps its types: an edit in progress is of a numbered job,   *)
(* and what is integrated or pruned has a number (create_job.py,           *)
(* job_state.py, cleanup_stage.py).                                        *)
THEOREM LedgerTyped == Spec => []TypeOK
<1>1. DirectoryInv => TypeOK
  BY DEF DirectoryInv
<1> QED
  BY DirectoryInit, DirectoryStep, <1>1, PTL DEF Spec
----------------------------------------------------------------------------
LEMMA PrunedInit == Init => PrunedInv
  BY DirectoryInit
  DEF Init, PrunedInv, WritesFollow, PrunedStaysAccepted, Writing

LEMMA PrunedStep ==
  ASSUME PrunedInv, [Next]_vars
  PROVE  PrunedInv'
<1>0. DirectoryInv /\ DirectoryInv'
  BY DirectoryStep DEF PrunedInv
<1> USE <1>0 DEF PrunedInv, DirectoryInv, TypeOK, EditedIsCreated, WritesFollow,
                 PrunedStaysAccepted, counts
(* Nothing changes that the rest of the invariant speaks of.               *)
<1>1. ASSUME UNCHANGED <<jobs, editor, pruned, overwritten>>
      PROVE  PrunedInv'
  BY <1>1 DEF Writing
<1>2. ASSUME NEW c \in Creators, WriteStatus(c) PROVE PrunedInv'
  <2>1. jobs[creator[c].id] = None /\ creator[c].id \in Ids
    BY <1>2 DEF WriteStatus, MadeIsEmpty, ChosenKnown
  <2>2. creator[c].id \notin pruned \ overwritten
    BY <2>1
  <2> QED
    BY <1>2, <2>1, <2>2 DEF WriteStatus, Writing
<1>3. ASSUME NEW e \in Editors, NEW id \in Ids, Look(e, id) PROVE PrunedInv'
  BY <1>3 DEF Look, Writing
<1>4. ASSUME NEW e \in Editors, NEW id \in Ids, Transition(e, id)
      PROVE  PrunedInv'
  <2>1. PICK new \in Transitions(jobs[id]) : Prepares(e, id, new)
    BY <1>4 DEF Transition
  <2>2. new.state \in Allowed(jobs[id].state) \cup {jobs[id].state}
    BY <1>4, WrittenIsStatus DEF Transition, Created
  <2> QED
    BY <1>4, <2>1, <2>2 DEF Transition, Prepares, Writing
<1>5. ASSUME NEW e \in Editors, NEW id \in Ids, Update(e, id)
      PROVE  PrunedInv'
  <2>1. PICK new \in Updates(jobs[id]) : Prepares(e, id, new)
    BY <1>5 DEF Update
  <2>2. new.state = jobs[id].state
    BY <1>5, WrittenIsStatus DEF Update
  <2> QED
    BY <1>5, <2>1, <2>2 DEF Update, Prepares, Writing
<1>6. ASSUME NEW e \in Editors, Replace(e) PROVE PrunedInv'
  <2> DEFINE id == editor[e].id
             new == editor[e].write
             old == jobs[id].state
             outruns(f) == /\ Writing(f) /\ editor[f].id = id
                           /\ new.state # old
  <2>1. /\ Writing(e) /\ jobs' = [jobs EXCEPT ![id] = new]
        /\ editor' = [f \in Editors |->
                        IF f = e THEN None
                        ELSE IF outruns(f) THEN [editor[f] EXCEPT !.stale = TRUE]
                        ELSE editor[f]]
        /\ overwritten' = IF editor[e].stale THEN overwritten \cup {id}
                          ELSE overwritten
        /\ pruned' = pruned
    BY <1>6 DEF Replace
  <2>2. id \in Ids /\ new \in Status /\ jobs[id] # None
    BY <2>1 DEF Writing
  <2>3. ASSUME NEW job \in (pruned \ overwritten)'
        PROVE  jobs'[job] # None /\ jobs'[job].state = "accepted"
    <3>1. job \in pruned \ overwritten
      BY <2>1, <2>3
    <3>2. CASE job = id
      <4>1. ~editor[e].stale
        BY <2>1, <2>3, <3>2
      <4>2. old = "accepted"
        BY <3>1, <3>2
      <4>3. new.state = "accepted"
        BY <2>1, <4>1, <4>2, AcceptedIsFinal
      <4>4. new # None
        BY <2>1 DEF Writing
      <4> QED
        BY <2>1, <2>2, <3>2, <4>3, <4>4
    <3>3. CASE job # id
      BY <2>1, <3>1, <3>3
    <3> QED
      BY <3>2, <3>3
  <2>4. ASSUME NEW f \in Editors, Writing(f)', ~editor'[f].stale
        PROVE  editor'[f].write.state
                 \in Allowed(jobs'[editor'[f].id].state) \cup {jobs'[editor'[f].id].state}
    <3>1. f # e /\ ~outruns(f)
      BY <2>1, <2>4 DEF Writing
    <3>2. editor'[f] = editor[f] /\ Writing(f)
      BY <2>1, <2>4, <3>1 DEF Writing
    <3>3. jobs'[editor[f].id].state = jobs[editor[f].id].state
      <4>1. CASE editor[f].id # id
        BY <2>1, <4>1
      <4>2. CASE editor[f].id = id
        BY <2>1, <2>2, <3>1, <3>2, <4>2
      <4> QED
        BY <4>1, <4>2
    <3> QED
      BY <2>4, <3>2, <3>3
  <2> QED
    BY <1>0, <2>3, <2>4
<1>7. ASSUME NEW e \in Editors, GiveUp(e) PROVE PrunedInv'
  BY <1>7 DEF GiveUp, Writing
<1>8. ASSUME NEW named \in SUBSET Created, Prune(named) PROVE PrunedInv'
  BY <1>8 DEF Prune, Prunable, Created, Writing
<1> QED
  BY <1>1, <1>2, <1>3, <1>4, <1>5, <1>6, <1>7, <1>8
  DEF Next, Check, NextId, MakeDirectory, CreatorDies, Integrate, Approve, ReviewDies,
      vars

(* Nothing that lost its branch and worktree to a milestone review is ever *)
(* worked on, reviewed or rejected again, though prune_job looks at the    *)
(* status once and no script takes a lock, unless a script has replaced a  *)
(* state of it that it had not read.                                       *)
THEOREM PrunedIsFinal == Spec => []PrunedStaysAccepted
<1>1. PrunedInv => PrunedStaysAccepted
  BY DEF PrunedInv
<1> QED
  BY PrunedInit, PrunedStep, <1>1, PTL DEF Spec
----------------------------------------------------------------------------
(* Two verdicts cannot both have more than half of the panel.              *)
LEMMA VotersAreFinite ==
  ASSUME NEW votes, NEW verdict
  PROVE  /\ IsFiniteSet(For(votes, verdict))
         /\ Cardinality(For(votes, verdict)) \in Nat
         /\ For(votes, verdict) \subseteq Panel
<1>1. IsFiniteSet(Panel)
  BY FS_Interval, ReviewPanelAssumption DEF Panel
<1> QED
  BY <1>1, FS_Subset, FS_CardinalityType DEF For

LEMMA OneMajority ==
  ASSUME NEW votes, NEW v \in Majority(votes), NEW w \in Majority(votes)
  PROVE  v = w
<1> SUFFICES ASSUME v # w PROVE FALSE
  OBVIOUS
<1> DEFINE V == For(votes, v)
           W == For(votes, w)
<1>1. IsFiniteSet(Panel) /\ Cardinality(Panel) = PanelSize
  <2>1. PanelSize \in Nat
    BY ReviewPanelAssumption
  <2> QED
    BY <2>1, FS_Interval DEF Panel
<1>2. /\ IsFiniteSet(V) /\ Cardinality(V) \in Nat
      /\ IsFiniteSet(W) /\ Cardinality(W) \in Nat
      /\ V \subseteq Panel /\ W \subseteq Panel
  BY VotersAreFinite
<1>3. V \cap W = {}
  BY DEF For
<1>4. Cardinality(V \cup W) = Cardinality(V) + Cardinality(W)
  <2>1. Cardinality(V \cup W) = Cardinality(V) + Cardinality(W) - Cardinality(V \cap W)
    BY <1>2, FS_Union
  <2>2. Cardinality(V \cap W) = 0
    BY <1>3, FS_EmptySet
  <2> HIDE DEF V, W
  <2> QED
    BY <1>2, <2>1, <2>2
<1>5. Cardinality(V \cup W) <= PanelSize
  <2>1. V \cup W \subseteq Panel
    BY <1>2
  <2> QED
    BY <1>1, <2>1, FS_Subset
<1>6. 2 * Cardinality(V) > PanelSize /\ 2 * Cardinality(W) > PanelSize
  BY DEF Majority
<1> HIDE DEF V, W
<1> QED
  BY <1>2, <1>4, <1>5, <1>6, ReviewPanelAssumption

(* Whoever has the whole panel has the majority of it.                     *)
LEMMA AllIsMajority ==
  ASSUME NEW votes, NEW verdict \in Known, For(votes, verdict) = Panel
  PROVE  verdict \in Majority(votes)
<1>1. PanelSize \in Nat /\ PanelSize > 0
  BY ReviewPanelAssumption
<1>2. Cardinality(Panel) = PanelSize
  BY <1>1, FS_Interval DEF Panel
<1>3. 2 * PanelSize > PanelSize
  BY <1>1
<1> QED
  BY <1>2, <1>3 DEF Majority

LEMMA AgreedHasMajority ==
  ASSUME NEW votes, NEW round, NEW verdict \in Known, AgreedOn(votes, round, verdict)
  PROVE  verdict \in Majority(votes)
  BY AllIsMajority DEF AgreedOn

LEMMA PanelDecides == PolicyDecides
<1> SUFFICES ASSUME NEW vr \in LastRounds
             PROVE  LET votes == vr[1]
                        round == vr[2]
                        accepting == For(votes, "accept")
                    IN  /\ \A verdict, other \in Known :
                              /\ AgreedOn(votes, round, verdict)
                              /\ AgreedOn(votes, round, other)
                              => verdict = other
                        /\ ~BlocksAcceptance(votes, round) =>
                              /\ ~Malformed(votes)
                              /\ 2 * Cardinality(accepting) > PanelSize
                              /\ Quorum = "unanimous" => accepting = Panel
                        /\ (/\ accepting = Panel /\ ~Malformed(votes)
                            /\ \A p \in Panel : votes[p].agrees)
                            => ~BlocksAcceptance(votes, round)
  BY DEF PolicyDecides
<1> DEFINE votes == vr[1]
           round == vr[2]
           accepting == For(votes, "accept")
<1> HIDE DEF votes, round
<1>1. "accept" \in Known
  BY DEF Known
<1>2. ASSUME NEW verdict \in Known, NEW other \in Known,
             AgreedOn(votes, round, verdict), AgreedOn(votes, round, other)
      PROVE  verdict = other
  BY <1>2, AgreedHasMajority, OneMajority
<1>3. ASSUME ~BlocksAcceptance(votes, round)
      PROVE  /\ ~Malformed(votes)
             /\ 2 * Cardinality(accepting) > PanelSize
             /\ Quorum = "unanimous" => accepting = Panel
  <2>1. AgreedOn(votes, round, "accept") /\ ~Malformed(votes)
    BY <1>3 DEF BlocksAcceptance
  <2>2. "accept" \in Majority(votes)
    BY <1>1, <2>1, AgreedHasMajority
  <2>3. Quorum = "unanimous" => accepting = Panel
    BY <2>1 DEF AgreedOn, MajoritySuffices
  <2> QED
    BY <2>1, <2>2, <2>3 DEF Majority
<1>4. ASSUME accepting = Panel, ~Malformed(votes), \A p \in Panel : votes[p].agrees
      PROVE  ~BlocksAcceptance(votes, round)
  <2>1. Converged(votes, round)
    BY <1>1, <1>4 DEF Converged, Unanimous
  <2> QED
    BY <1>4, <2>1 DEF BlocksAcceptance, AgreedOn
<1> QED
  BY <1>2, <1>3, <1>4 DEF votes, round

(* A panel of any size decides one thing, and does not block acceptance    *)
(* only with the majority, or the unanimity, its quorum asks for and every *)
(* answer readable (evaluate_round and synthesize).                        *)
THEOREM PanelKeepsPolicy == Spec => []PanelFollowsPolicy
<1>1. PanelFollowsPolicy
  BY PanelDecides DEF PanelFollowsPolicy
<1> QED
  BY <1>1, PTL
----------------------------------------------------------------------------
(* A finite set of numbers that is not empty has a greatest one: the one   *)
(* with the fewest above it.                                               *)
LEMMA GreatestExists ==
  ASSUME NEW S \in SUBSET Nat, IsFiniteSet(S), S # {}
  PROVE  \E m \in S : \A x \in S : x <= m
<1> DEFINE Above(x) == {y \in S : y > x}
           all == {Above(x) : x \in S}
<1>1. all \subseteq FiniteSubsetsOf(S)
  BY FS_Subset DEF FiniteSubsetsOf
<1>2. all # {}
  OBVIOUS
<1>3. PICK least \in all : \A other \in all : <<other, least>> \notin StrictSubsetOrdering(S)
  BY <1>1, <1>2, FS_StrictSubsetOrderingWellFounded, WFMin
<1>4. PICK m \in S : least = Above(m)
  BY <1>3
<1>5. ASSUME NEW x \in S, ~(x <= m) PROVE FALSE
  <2>1. x \in Nat /\ m \in Nat /\ x > m
    <3> HIDE DEF Above, all
    <3>1. x \in Nat /\ m \in Nat
      OBVIOUS
    <3> QED
      BY <1>5, <3>1
  <2>2. x \in Above(m) /\ x \notin Above(x)
    BY <2>1
  <2>3. ASSUME NEW y \in Above(x) PROVE y \in Above(m)
    <3>1. y \in Nat /\ y \in S /\ y > x
      BY <2>3
    <3> QED
      BY <2>1, <3>1
  <2>4. <<Above(x), Above(m)>> \in StrictSubsetOrdering(S)
    <3> HIDE DEF all
    <3> QED
      BY <2>2, <2>3 DEF StrictSubsetOrdering
  <2> QED
    BY <1>3, <1>4, <2>4
<1> QED
  BY <1>5

(* Walking back from the greatest number while in B takes two steps        *)
(* exactly when the two greatest are in B.                                 *)
LEMMA StreakIsOfLastTwo ==
  ASSUME NEW S \in SUBSET Nat, IsFiniteSet(S), NEW B,
         NEW streak, streak = {id \in S : \A later \in S : later >= id => later \in B}
  PROVE  Cardinality(streak) < 2
            <=> ~(Cardinality(LastTwo(S)) = 2 /\ \A id \in LastTwo(S) : id \in B)
<1> DEFINE Above(id) == {later \in S : later > id}
<1>1. /\ IsFiniteSet(streak) /\ Cardinality(streak) \in Nat
      /\ IsFiniteSet(LastTwo(S))
      /\ \A id \in S : IsFiniteSet(Above(id))
  BY FS_Subset, FS_CardinalityType DEF LastTwo
<1>2. LastTwo(S) = {id \in S : Cardinality(Above(id)) < 2}
  BY DEF LastTwo
<1>3. \A x, y : x # y => IsFiniteSet({x, y}) /\ Cardinality({x, y}) = 2
  <2> SUFFICES ASSUME NEW x, NEW y, x # y
               PROVE  IsFiniteSet({x, y}) /\ Cardinality({x, y}) = 2
    OBVIOUS
  <2>1. IsFiniteSet({x}) /\ Cardinality({x}) = 1 /\ {x, y} = {x} \cup {y}
    BY FS_Singleton
  <2> QED
    BY <2>1, FS_AddElement
<1> HIDE DEF Above
<1>4. ASSUME Cardinality(LastTwo(S)) = 2, \A id \in LastTwo(S) : id \in B
      PROVE  ~(Cardinality(streak) < 2)
  <2>1. ASSUME NEW id \in LastTwo(S), NEW later \in S, later >= id
        PROVE  later \in B
    <3>5. id \in S /\ id \in Nat /\ later \in Nat
      BY <1>2
    <3>6. ASSUME NEW y \in Above(later) PROVE y \in Above(id)
      <4>1. y \in S /\ y \in Nat /\ y > later
        BY <3>6 DEF Above
      <4> QED
        BY <2>1, <3>5, <4>1 DEF Above
    <3>1. Above(later) \subseteq Above(id) /\ id \in S
      BY <3>5, <3>6
    <3>2. Cardinality(Above(later)) <= Cardinality(Above(id))
      BY <1>1, <3>1, FS_Subset
    <3>3. Cardinality(Above(later)) \in Nat /\ Cardinality(Above(id)) \in Nat
      BY <1>1, <3>1, FS_CardinalityType
    <3>4. later \in LastTwo(S)
      BY <1>2, <3>2, <3>3
    <3> QED
      BY <1>4, <3>4
  <2>2. LastTwo(S) \subseteq streak
    BY <1>2, <2>1
  <2>3. Cardinality(LastTwo(S)) <= Cardinality(streak)
    BY <1>1, <2>2, FS_Subset
  <2> QED
    BY <1>1, <1>4, <2>3
<1>5. ASSUME ~(Cardinality(streak) < 2)
      PROVE  Cardinality(LastTwo(S)) = 2 /\ \A id \in LastTwo(S) : id \in B
  <2>1. streak \in SUBSET Nat /\ streak # {}
    <3>1. Cardinality(streak) # 0
      BY <1>1, <1>5
    <3>2. streak # {}
      BY <3>1, FS_EmptySet
    <3>3. streak \subseteq S
      OBVIOUS
    <3> QED
      BY <3>2, <3>3
  <2>2. PICK m \in streak : \A x \in streak : x <= m
    BY <1>1, <2>1, GreatestExists
  <2>3. streak \ {m} # {} /\ IsFiniteSet(streak \ {m})
    <3>1. IsFiniteSet(streak \ {m}) /\ Cardinality(streak \ {m}) = Cardinality(streak) - 1
      BY <1>1, <2>2, FS_RemoveElement
    <3> QED
      BY <1>1, <1>5, <3>1, FS_EmptySet
  <2>4. PICK n \in streak \ {m} : \A x \in streak \ {m} : x <= n
    BY <2>1, <2>3, GreatestExists
  <2>5. m \in Nat /\ n \in Nat /\ n < m /\ m \in S /\ n \in S
    BY <2>1, <2>2, <2>4
  <2>6. ASSUME NEW x \in S, NEW y \in streak, x >= y PROVE x \in streak
    BY <2>6
  <2>7. Above(m) = {} /\ Above(n) = {m}
    <3>1. ASSUME NEW x \in S, x > n PROVE x = m
      <4>1. x \in Nat /\ x \in streak
        BY <2>5, <2>6, <3>1
      <4> QED
        BY <2>4, <2>5, <3>1, <4>1
    <3>2. ASSUME NEW x \in S, x > m PROVE FALSE
      <4>1. x \in Nat /\ x \in streak
        BY <2>5, <2>6, <3>2
      <4> QED
        BY <2>2, <2>5, <3>2, <4>1
    <3>3. Above(m) = {}
      BY <3>2 DEF Above
    <3>4. Above(n) = {m}
      BY <2>5, <3>1 DEF Above
    <3> QED
      BY <3>3, <3>4
  <2>8. m \in LastTwo(S) /\ n \in LastTwo(S)
    <3>1. Cardinality(Above(m)) = 0 /\ Cardinality(Above(n)) = 1
      BY <2>7, FS_EmptySet, FS_Singleton, Zenon
    <3> QED
      BY <1>2, <2>5, <3>1
  <2>9. ASSUME NEW x \in LastTwo(S) PROVE x \in {m, n}
    <3>1. SUFFICES ASSUME x # m, x # n PROVE FALSE
      OBVIOUS
    <3>2. x \in S /\ x \in Nat /\ Cardinality(Above(x)) < 2
      BY <1>2, <2>9
    <3>3. x < n
      BY <2>4, <2>5, <2>6, <3>1, <3>2
    <3>4. {m, n} \subseteq Above(x)
      BY <2>5, <3>2, <3>3 DEF Above
    <3>5. Cardinality({m, n}) <= Cardinality(Above(x)) /\ Cardinality(Above(x)) \in Nat
      BY <1>1, <3>2, <3>4, FS_Subset, FS_CardinalityType
    <3>6. Cardinality({m, n}) = 2
      BY <1>3, <2>4
    <3> QED
      BY <3>2, <3>5, <3>6
  <2>10. LastTwo(S) = {m, n}
    BY <2>8, <2>9
  <2>11. m \in B /\ n \in B
    BY <2>2, <2>4, <2>5
  <2>12. Cardinality({m, n}) = 2
    BY <1>3, <2>4
  <2> QED
    BY <2>10, <2>11, <2>12
<1> QED
  BY <1>4, <1>5

(* What the gate counts is the debt of the last two jobs, in a history of  *)
(* any length.                                                             *)
THEOREM GateCountsLastTwo ==
  ASSUME NEW ids \in SUBSET Nat, IsFiniteSet(ids)
  PROVE  DebtIsOfTheLastTwo(ids)
<1>1. ASSUME NEW block \in Block, Consistent(block)
      PROVE  MetadataLike(block) <=> block.type \notin Delivery
  BY <1>1 DEF Block, Consistent, MetadataLike, Delivery, MetadataTypes
<1>2. ASSUME NEW history \in Histories(ids), NEW task \in Task
      PROVE  LET latest == LastTwo(DOMAIN history)
                 same == LastTwo(InSubsystem(history, task.subsystem))
                 spent == Cardinality(latest) = 2 /\ \A id \in latest : ~history[id].closed
                 repeated == Cardinality(same) = 2
                             /\ \A id \in same : history[id].task.metadata
             IN  task.valid /\ TracedUpstream(task) =>
                     (GatePasses(history, task) <=> ~spent /\ ~(task.metadata /\ repeated))
  <2> DEFINE jobs0 == DOMAIN history
             mine == InSubsystem(history, task.subsystem)
             open == {id \in jobs0 : ~history[id].closed}
             chores == {id \in mine : history[id].task.metadata}
  <2>1. jobs0 \in SUBSET Nat /\ IsFiniteSet(jobs0)
    <3>1. PICK counted \in SUBSET ids : history \in [counted -> [task : Task, closed : BOOLEAN]]
      BY DEF Histories
    <3>2. jobs0 = counted
      BY <3>1
    <3> QED
      BY <3>2, FS_Subset
  <2>2. mine \in SUBSET jobs0
    BY DEF InSubsystem
  <2>3. mine \in SUBSET Nat /\ IsFiniteSet(mine)
    BY <2>1, <2>2, FS_Subset
  <2>4. NoDeltaStreak(history) =
            {id \in jobs0 : \A later \in jobs0 : later >= id => later \in open}
    BY DEF NoDeltaStreak
  <2>5. Cardinality(NoDeltaStreak(history)) < 2
          <=> ~(Cardinality(LastTwo(jobs0)) = 2 /\ \A id \in LastTwo(jobs0) : id \in open)
    BY <2>1, <2>4, StreakIsOfLastTwo
  <2>6. MetadataStreak(history, task.subsystem) =
            {id \in mine : \A later \in mine : later >= id => later \in chores}
    BY DEF MetadataStreak
  <2>7. Cardinality(MetadataStreak(history, task.subsystem)) < 2
          <=> ~(Cardinality(LastTwo(mine)) = 2 /\ \A id \in LastTwo(mine) : id \in chores)
    BY <2>3, <2>6, StreakIsOfLastTwo
  <2>8. LastTwo(jobs0) \subseteq jobs0 /\ LastTwo(mine) \subseteq mine
    BY DEF LastTwo
  <2>9. \A id \in LastTwo(jobs0) : id \in open <=> ~history[id].closed
    BY <2>8
  <2>10. \A id \in LastTwo(mine) : id \in chores <=> history[id].task.metadata
    BY <2>8
  <2> HIDE DEF jobs0, mine, open, chores
  <2> QED
    BY <2>5, <2>7, <2>9, <2>10 DEF GatePasses, jobs0, mine
<1> QED
  BY <1>1, <1>2 DEF DebtIsOfTheLastTwo

(* Dispatch waits for the debt of the last two jobs, wherever they were    *)
(* spent (check_job_progress_gate.py).                                     *)
THEOREM DebtStopsDispatch == Spec => []DebtOfTheLastTwo
<1>1. \A n \in Nat : 1 .. n \in SUBSET Nat /\ IsFiniteSet(1 .. n)
  BY FS_Interval
<1>2. DebtOfTheLastTwo
  BY <1>1, GateCountsLastTwo DEF DebtOfTheLastTwo
<1> QED
  BY <1>2, PTL
=============================================================================
