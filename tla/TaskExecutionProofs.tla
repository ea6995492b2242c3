------------------------- MODULE TaskExecutionProofs -------------------------
(***************************************************************************)
(* Proofs about TaskExecution, for any plans, budgets and number of        *)
(* resumes and faults.  The invariant has three layers: what the records,  *)
(* on disk and in memory, have to do with inbox and target (EngineInv);    *)
(* what the policy, in memory and saved, has to do with the records        *)
(* (PolicyInv); and that a policy can be restored (RestoreInv).            *)
(***************************************************************************)
EXTENDS TaskExecution, SequenceTheorems, FiniteSetTheorems, TLAPS

Statuses == {"READY", "INTEGRATION_PENDING", "ACCEPTED", "BLOCKED"}
Intents == [attempt : 1..MaxAttempts, before : Histories, prepared : Histories \cup {None}]
Record == [status : Statuses, attempts : 0..MaxAttempts, integration : Intents \cup {None}]

(* The steps at which a task is in hand, and what _persist goes on with.   *)
Handling == {"recover", "writing", "written", "stage", "apply", "swap", "refresh", "accept",
             "deliver", "retire", "failing", "reconcile"}
Retryable == {"recover", "apply", "swap"}
Saved == Retryable \cup {"blocked", "retry", "retire", "choose"}

Saving(steps) == pc = "save" /\ cont[1] \in steps
InHand == pc \in Handling \/ Saving(Saved \ {"choose"})
Unsaved == pc \in {"failing", "reconcile"} \/ Saving(Saved \ {"choose"})

Typed ==
    /\ contract \in Runs
    /\ records \in [Tasks -> Record] /\ memory \in [Tasks -> Record]
    /\ inbox \in [Attempts(Plan) -> Histories \cup {None}]
    /\ DOMAIN worktrees = Attempts(Plan)
    /\ target \in Histories
    /\ checkout \in Checkouts /\ recovering \in BOOLEAN /\ jammed \in BOOLEAN
    /\ pc \in Handling \cup {"down", "top", "choose", "save", "blocked", "retry"}
    /\ pc # "down" => budget \in BudgetChoices
    /\ pc = "down" => memory = [t \in Tasks |-> NewRecord]
    /\ pc = "save" => /\ cont[1] \in Saved
                      /\ cont[2] \in {"exit", "failing", "reconcile"}
                      /\ cont[2] # "exit" <=> cont[1] \in Retryable
    /\ InHand => current \in Attempts(Plan)
    /\ faults \in 0..contract.faults

(* What a record of t may say, given the mode, the inbox and the target.   *)
Lacks(history, t, attempt) == \A i \in DOMAIN history : history[i] # Candidate(t, attempt)
Placed(rec, history) ==
    rec.status = "INTEGRATION_PENDING" /\ rec.integration.prepared = history

PendingKnown(mode, box, t, rec) ==
    rec.status = "INTEGRATION_PENDING" =>
        /\ mode = "orchestrated"
        /\ rec.integration \in Intents
        /\ rec.integration.attempt = rec.attempts + 1
        /\ box[<<t, rec.integration.attempt>>] # None
        /\ Lacks(rec.integration.before, t, rec.integration.attempt)
        /\ rec.integration.prepared # None =>
              rec.integration.prepared =
                  Append(rec.integration.before, Candidate(t, rec.integration.attempt))
(* No attempt but the next one has left anything behind.                   *)
AttemptsKnown(box, history, t, rec) ==
    /\ \A i \in DOMAIN history : IsCandidateOf(history[i], t) =>
          /\ history[i].attempt <= rec.attempts + 1
          /\ rec.status \in {"READY", "ACCEPTED"} => history[i].attempt <= rec.attempts
    /\ \A k \in 1..MaxAttempts : box[<<t, k>>] # None => k <= rec.attempts + 1
AcceptedKnown(mode, box, history, t, rec) ==
    rec.status = "ACCEPTED" =>
        /\ rec.attempts \in 1..MaxAttempts
        /\ box[<<t, rec.attempts>>] # None
        /\ mode = "orchestrated" =>
              \E i \in DOMAIN history : history[i] = Candidate(t, rec.attempts)
(* A candidate that is in the target is done with, has been rejected or    *)
(* refused, has its record prepared, or is below a commit of the user.     *)
CandidatesKnown(out, history, t, rec) ==
    \A i \in DOMAIN history : IsCandidateOf(history[i], t) =>
        \/ i < Len(history) /\ history[i + 1] = Foreign
        \/ <<"refused", t, history[i].attempt>> \in out
        \/ rec.status \in {"ACCEPTED", "BLOCKED"}
        \/ i = Len(history) /\ Placed(rec, history)
SoundRecord(mode, out, box, history, t, rec) ==
    /\ PendingKnown(mode, box, t, rec) /\ AttemptsKnown(box, history, t, rec)
    /\ AcceptedKnown(mode, box, history, t, rec) /\ CandidatesKnown(out, history, t, rec)
Sound ==
    /\ \A t \in Tasks : SoundRecord(contract.mode, lapses, inbox, target, t, records[t])
    /\ pc # "down" =>
          \A t \in Tasks : SoundRecord(contract.mode, lapses, inbox, target, t, memory[t])

(* Memory is ahead of the disk by the task in hand at most.                *)
Agree ==
    pc # "down" => \A t \in Tasks : memory[t] # records[t] => Unsaved /\ t = Task

(* At most one task has an attempt that a restart finds.                   *)
Flies(box, t, rec) ==
    \/ rec.status = "INTEGRATION_PENDING"
    \/ /\ rec.status = "READY" /\ rec.attempts + 1 \in 1..MaxAttempts
       /\ box[<<t, rec.attempts + 1>>] # None
Flying(t) == Flies(inbox, t, records[t])
Alone ==
    /\ \A t, u \in Tasks : Flying(t) /\ Flying(u) => t = u
    /\ InHand => \A t \in Tasks : Flying(t) => t = Task
    /\ pc = "choose" \/ Saving({"choose"}) => \A t \in Tasks : ~Flying(t)

(* The task in hand, by step.                                              *)
InFlight == pc \in {"recover", "apply", "swap", "refresh", "reconcile"} \/ Saving(Retryable)
            \/ (pc = "accept" /\ Orchestrated)
InProgress == pc \in {"writing", "written", "stage", "deliver"}
              \/ (pc = "accept" /\ ~Orchestrated)
CurrentKnown ==
    /\ InFlight \/ InProgress \/ pc = "failing" =>
          Attempt = memory[Task].attempts + 1
    /\ InFlight => memory[Task].status = "INTEGRATION_PENDING"
    /\ InProgress => memory[Task].status = "READY" /\ ~recovering
    /\ pc = "failing" => memory[Task].status \in {"READY", "INTEGRATION_PENDING"}
    /\ pc = "stage" => Orchestrated
    /\ pc = "deliver" => ~Orchestrated /\ Task \notin policy.ready
    /\ pc \in {"swap", "refresh"} \/ Saving({"swap"}) =>
          memory[Task].integration.prepared # None
    /\ Unsaved => /\ records[Task].status \in {"READY", "INTEGRATION_PENDING"}
                  /\ Attempt = records[Task].attempts + 1
    /\ pc = "retire" \/ Saving({"retire"}) => memory[Task].status = "ACCEPTED"
    /\ Saving({"blocked"}) => memory[Task].status = "BLOCKED"
    /\ Saving({"retry"}) => memory[Task].status = "READY" /\ memory[Task].attempts = Attempt
    /\ pc \in {"apply", "swap"} \/ Saving(Retryable)
       \/ (pc \in {"failing", "reconcile"} /\ memory[Task] # records[Task]) =>
          Lacks(target, Task, Attempt)
    /\ pc = "refresh" \/ (pc = "accept" /\ Orchestrated) => Integrated(Task, Attempt)

ReadyKnown ==
    pc \notin {"down", "blocked"} /\ ~Saving({"blocked"}) =>
        \A t \in policy.ready :
            t \in Tasks /\ memory[t].status \in {"READY", "INTEGRATION_PENDING"}

EngineInv ==
    Typed /\ Sound /\ Agree /\ Alone /\ CurrentKnown /\ ReadyKnown /\ IntegratedOnce
----------------------------------------------------------------------------
(* The policy is as the records are, except in Solo mode once the result   *)
(* was lost after the policy had accepted it.                              *)
Reliable == Orchestrated \/ ~Lapsed("lost")

(* What is accepted, by the time the policy records it.                    *)
Done == Accepted(memory) \cup (IF pc = "deliver" THEN {Task} ELSE {})
Debts == IF policy.debt = None THEN {} ELSE {policy.debt}
SavedDebts == DebtOf(Plan, Accepted(records), state)

(* An enabler that is refused as the second one stays accepted in memory.  *)
Refused ==
    /\ policy.debt \in Tasks \ Done /\ Plan[policy.debt].class = "enabler"
    /\ policy.debt \notin policy.ready
    /\ policy.accepted = Done \cup {policy.debt}
AcceptedTogether ==
    /\ Debts \subseteq Tasks
    /\ policy.accepted = Done \/ Refused
    /\ Owed(Plan, Done) \subseteq Debts
    /\ \A t \in Tasks \ policy.accepted :
          memory[t].status \in {"READY", "INTEGRATION_PENDING"} => t \in policy.ready

(* The saved policy is the one in memory, until an acceptance or a replan. *)
SavedTogether ==
    pc # "deliver" /\ ~Saving({"choose", "retire"}) =>
        Debts = SavedDebts /\ (policy.replan <=> state.replan)

(* What is in flight may still be accepted, and is the debt if there is    *)
(* one.                                                                    *)
Claims(accepted, t) ==
    /\ t \notin accepted /\ Plan[t].needs \subseteq accepted
    /\ Plan[t].class \in Closing => Plan[t].closes \cap OpenIds(Plan, accepted) # {}
FlightStands ==
    \A t \in Tasks : Flying(t) /\ Orchestrated =>
        Claims(Accepted(records), t) /\ SavedDebts \subseteq {t}
HandStands ==
    /\ pc = "stage" => Claims(Accepted(records), Task)
    /\ InProgress /\ pc # "deliver" => Debts \subseteq {Task}

(* Work that is in place is given up only if it is an enabler's, or        *)
(* refused.                                                                *)
PlacedKept ==
    pc = "reconcile" \/ Saving({"blocked", "retry"}) =>
        \/ ~Placed(records[Task], target) \/ Plan[Task].class = "enabler"
        \/ <<"refused", Task, Attempt>> \in lapses

PolicyInv ==
    /\ Reliable => /\ FlightStands
                   /\ pc # "down" => AcceptedTogether /\ SavedTogether /\ HandStands
    /\ PlacedKept
----------------------------------------------------------------------------
(* What is accepted stands on what it needs, and is counted.               *)
NeedsClosed(accepted) == \A t \in accepted : Plan[t].needs \subseteq accepted
Counts(accepted, p) ==
    /\ DOMAIN p = {"accepted", "ready", "debt", "delta", "noDelta", "replan", "used"}
    /\ p.delta \subseteq Ids(Plan, accepted)
    /\ p.noDelta \in Nat /\ p.used \in Nat
    /\ p.replan => p.noDelta >= 2
    /\ p.used >= Cardinality(OfClass(Plan, accepted, "housekeeping"))

(* On disk: a replan waits until nothing is in flight.                     *)
SavedStands ==
    /\ Restorable(Plan, Accepted(records), state)
    /\ NeedsClosed(Accepted(records))
    /\ state.noDelta \in Nat /\ state.used \in Nat
    /\ \A t \in Tasks : Flying(t) /\ Orchestrated => ~state.replan
(* In memory: so does what an engine without a target branch works on.     *)
MemoryStands ==
    pc # "down" =>
        /\ NeedsClosed(Done) /\ Counts(Done, policy)
        /\ Debts \cap Done = {}
        /\ InProgress /\ pc # "deliver" => ~policy.replan
Stands == SavedStands /\ MemoryStands
(* No enabler was late, and no Solo result was lost.                       *)
Spared == ~Lapsed("late") /\ ~Lapsed("lost")
RestoreInv == Spared => Stands
----------------------------------------------------------------------------
(* Lemmas about histories and about one record.                            *)
LEMMA PlanFacts ==
  ASSUME contract \in Runs
  PROVE  /\ contract.mode \in {"solo", "orchestrated"}
         /\ Tasks \subseteq Nat /\ None \notin Tasks /\ IsFiniteSet(Tasks) /\ WellFormed(Plan)
         /\ ~Orchestrated => Cardinality(Tasks) = 1
         /\ contract.faults \in Nat
         /\ MaxAttempts \in Nat
BY RunsAssumption, BoundsAssumption DEF Tasks, Plan, Orchestrated

LEMMA CandidateFacts ==
  ASSUME NEW t \in Nat, NEW k \in Nat
  PROVE  /\ Candidate(t, k) \in Commits /\ Candidate(t, k) # Foreign
         /\ Foreign \in Commits
         /\ \A u : IsCandidateOf(Candidate(t, k), u) <=> u = t
         /\ Candidate(t, k).attempt = k
         /\ \A u, j : Candidate(u, j) = Candidate(t, k) <=> u = t /\ j = k
BY CommitsAssumption DEF Commits, Candidate, IsCandidateOf

LEMMA CommitFacts ==
  ASSUME NEW c \in Commits, NEW t
  PROVE  /\ IsCandidateOf(c, t) =>
              c.attempt \in Nat /\ c.task \in Nat /\ c = Candidate(t, c.attempt)
         /\ ~IsCandidateOf(Foreign, t)
         /\ \A k : Candidate(t, k) # Foreign /\ c = Candidate(t, k) => IsCandidateOf(c, t)
BY CommitsAssumption DEF Commits, Candidate, IsCandidateOf

LEMMA Appended ==
  ASSUME NEW h \in Histories, NEW c \in Commits
  PROVE  /\ Append(h, c) \in Histories
         /\ Len(h) \in Nat /\ DOMAIN h = 1..Len(h)
         /\ Len(Append(h, c)) = Len(h) + 1
         /\ DOMAIN Append(h, c) = 1..(Len(h) + 1)
         /\ \A i \in 1..Len(h) : Append(h, c)[i] = h[i] /\ h[i] \in Commits
         /\ Append(h, c)[Len(h) + 1] = c
         /\ Append(h, c) # h /\ h # None /\ Append(h, c) # None
<1>1. h \in Seq(Commits)
  BY DEF Histories
<1>2. /\ Append(h, c) \in Seq(Commits)
      /\ Len(Append(h, c)) = Len(h) + 1
      /\ \A i \in 1..Len(h) : Append(h, c)[i] = h[i]
      /\ Append(h, c)[Len(h) + 1] = c
  BY <1>1, AppendProperties
<1>3. Len(h) \in Nat /\ DOMAIN h = 1..Len(h) /\ \A i \in 1..Len(h) : h[i] \in Commits
  BY <1>1, ElementOfSeq, LenProperties
<1>4. DOMAIN Append(h, c) = 1..(Len(h) + 1)
  BY <1>2, LenProperties
<1>5. Append(h, c) # h
  <2>1. \A n \in Nat : n + 1 # n
    OBVIOUS
  <2> QED
    BY <1>2, <1>3, <2>1, Zenon
<1>6. Append(h, c) \in Histories
  BY <1>2 DEF Histories
<1>7. h # None /\ Append(h, c) # None
  BY <1>6, CommitsAssumption
<1> QED
  BY <1>2, <1>3, <1>4, <1>5, <1>6, <1>7, Zenon

(* A commit of the user.                                                   *)
LEMMA SoundAfterCommit ==
  ASSUME NEW mode, NEW out, NEW box, NEW h \in Histories, NEW t, NEW rec \in Record,
         SoundRecord(mode, out, box, h, t, rec)
  PROVE  SoundRecord(mode, out, box, Append(h, Foreign), t, rec)
<1> DEFINE g == Append(h, Foreign)
<1>1. /\ Len(h) \in Nat /\ DOMAIN h = 1..Len(h) /\ Len(g) = Len(h) + 1
      /\ DOMAIN g = 1..(Len(h) + 1) /\ g[Len(h) + 1] = Foreign
      /\ \A i \in 1..Len(h) : g[i] = h[i] /\ h[i] \in Commits
      /\ ~IsCandidateOf(Foreign, t)
  BY Appended DEF Commits, IsCandidateOf
<1> HIDE DEF g
<1>2. PendingKnown(mode, box, t, rec)
  BY DEF SoundRecord
<1>3. AttemptsKnown(box, g, t, rec)
  <2>1. AttemptsKnown(box, h, t, rec)
    BY DEF SoundRecord
  <2> QED
    BY <1>1, <2>1 DEF AttemptsKnown
<1>4. AcceptedKnown(mode, box, g, t, rec)
  <2>1. AcceptedKnown(mode, box, h, t, rec)
    BY DEF SoundRecord
  <2>2. \A k : (\E i \in DOMAIN h : h[i] = Candidate(t, k))
                   => \E i \in DOMAIN g : g[i] = Candidate(t, k)
    BY <1>1
  <2> QED
    BY <2>1, <2>2 DEF AcceptedKnown
<1>5. CandidatesKnown(out, g, t, rec)
  <2>1. CandidatesKnown(out, h, t, rec)
    BY DEF SoundRecord
  <2> SUFFICES ASSUME NEW i \in DOMAIN g, IsCandidateOf(g[i], t),
                      rec.status \notin {"ACCEPTED", "BLOCKED"},
                      <<"refused", t, g[i].attempt>> \notin out
               PROVE  i < Len(g) /\ g[i + 1] = Foreign
    BY DEF CandidatesKnown
  <2>2. i \in DOMAIN h /\ IsCandidateOf(h[i], t)
    BY <1>1
  <2>3. i = Len(h) \/ (i < Len(h) /\ h[i + 1] = Foreign)
    BY <1>1, <2>1, <2>2 DEF CandidatesKnown
  <2> QED
    BY <1>1, <2>2, <2>3
<1> QED
  BY <1>2, <1>3, <1>4, <1>5 DEF SoundRecord, g

(* The candidate of attempt k of task u is swapped in.                     *)
LEMMA SoundAfterSwap ==
  ASSUME NEW mode, NEW out, NEW box, NEW h \in Histories, NEW t \in Nat, NEW rec \in Record,
         SoundRecord(mode, out, box, h, t, rec),
         NEW u \in Nat, NEW k \in Nat,
         t = u => /\ Placed(rec, Append(h, Candidate(u, k))) /\ k <= rec.attempts + 1,
         t # u => rec.status # "INTEGRATION_PENDING"
  PROVE  SoundRecord(mode, out, box, Append(h, Candidate(u, k)), t, rec)
<1> DEFINE c == Candidate(u, k)
           g == Append(h, c)
<1>0. /\ c \in Commits /\ (IsCandidateOf(c, t) <=> u = t) /\ c.attempt = k
      /\ \A j : Candidate(t, j) = c <=> t = u /\ j = k
  BY CandidateFacts
<1>1. /\ Len(h) \in Nat /\ DOMAIN h = 1..Len(h) /\ Len(g) = Len(h) + 1
      /\ DOMAIN g = 1..(Len(h) + 1) /\ g[Len(h) + 1] = c
      /\ \A i \in 1..Len(h) : g[i] = h[i] /\ h[i] \in Commits
      /\ g # h
  BY <1>0, Appended
<1>. /\ t = u => /\ Placed(rec, g) /\ k <= rec.attempts + 1
     /\ t # u => rec.status # "INTEGRATION_PENDING"
  OBVIOUS
<1> HIDE DEF c, g
<1>2. PendingKnown(mode, box, t, rec)
  BY DEF SoundRecord
<1>3. AttemptsKnown(box, g, t, rec)
  <2>1. AttemptsKnown(box, h, t, rec)
    BY DEF SoundRecord
  <2>2. ASSUME NEW i \in DOMAIN g, IsCandidateOf(g[i], t)
        PROVE  /\ g[i].attempt <= rec.attempts + 1
               /\ rec.status \in {"READY", "ACCEPTED"} => g[i].attempt <= rec.attempts
    <3>1. CASE i \in DOMAIN h
      <4>1. g[i] = h[i]
        BY <1>1, <3>1
      <4> QED
        BY <2>1, <2>2, <3>1, <4>1 DEF AttemptsKnown
    <3>2. CASE i = Len(h) + 1
      <4>1. u = t /\ g[i].attempt = k
        BY <1>0, <1>1, <2>2, <3>2
      <4> QED
        BY <4>1 DEF Placed
    <3> QED
      BY <1>1, <3>1, <3>2
  <2> QED
    BY <2>1, <2>2 DEF AttemptsKnown
<1>4. AcceptedKnown(mode, box, g, t, rec)
  <2>1. AcceptedKnown(mode, box, h, t, rec)
    BY DEF SoundRecord
  <2>2. \A j : (\E i \in DOMAIN h : h[i] = Candidate(t, j))
                   => \E i \in DOMAIN g : g[i] = Candidate(t, j)
    BY <1>1
  <2> QED
    BY <2>1, <2>2 DEF AcceptedKnown
<1>5. CandidatesKnown(out, g, t, rec)
  <2>1. CandidatesKnown(out, h, t, rec)
    BY DEF SoundRecord
  <2> SUFFICES ASSUME NEW i \in DOMAIN g, IsCandidateOf(g[i], t),
                      rec.status \notin {"ACCEPTED", "BLOCKED"},
                      <<"refused", t, g[i].attempt>> \notin out
               PROVE  \/ i < Len(g) /\ g[i + 1] = Foreign
                      \/ i = Len(g) /\ Placed(rec, g)
    BY DEF CandidatesKnown
  <2>1a. CASE i = Len(h) + 1
    BY <1>0, <1>1, <2>1a
  <2>2. CASE i \in DOMAIN h
    <3>1. IsCandidateOf(h[i], t)
      BY <1>1, <2>2
    <3>2. CASE i < Len(h) /\ h[i + 1] = Foreign
      BY <1>1, <2>2, <3>2
    <3>3. ~Placed(rec, h)
      BY <1>1 DEF Placed
    <3>4. <<"refused", t, h[i].attempt>> \notin out
      BY <1>1, <2>2
    <3> QED
      BY <2>1, <2>2, <3>1, <3>2, <3>3, <3>4 DEF CandidatesKnown
  <2> QED
    BY <1>1, <2>1a, <2>2
<1> QED
  BY <1>2, <1>3, <1>4, <1>5 DEF SoundRecord, c, g

(* The branch is moved back to before the candidate.                       *)
LEMMA SoundAfterUndo ==
  ASSUME NEW mode, NEW out, NEW box, NEW h \in Histories, NEW t \in Nat, NEW rec \in Record,
         NEW u \in Nat, NEW k \in Nat,
         SoundRecord(mode, out, box, Append(h, Candidate(u, k)), t, rec),
         t = u => rec.status # "ACCEPTED"
  PROVE  SoundRecord(mode, out, box, h, t, rec)
<1> DEFINE c == Candidate(u, k)
           g == Append(h, c)
<1>0. /\ c \in Commits /\ c # Foreign /\ (IsCandidateOf(c, t) <=> u = t) /\ c.attempt = k
      /\ \A j : Candidate(t, j) = c <=> t = u /\ j = k
  BY CandidateFacts
<1>1. /\ Len(h) \in Nat /\ DOMAIN h = 1..Len(h) /\ Len(g) = Len(h) + 1
      /\ DOMAIN g = 1..(Len(h) + 1) /\ g[Len(h) + 1] = c
      /\ \A i \in 1..Len(h) : g[i] = h[i] /\ h[i] \in Commits
  BY <1>0, Appended
<1>. SoundRecord(mode, out, box, g, t, rec)
  OBVIOUS
<1> HIDE DEF c, g
<1>2. PendingKnown(mode, box, t, rec)
  BY DEF SoundRecord
<1>3. AttemptsKnown(box, h, t, rec)
  <2>1. AttemptsKnown(box, g, t, rec)
    BY DEF SoundRecord
  <2> QED
    BY <1>1, <2>1 DEF AttemptsKnown
<1>4. AcceptedKnown(mode, box, h, t, rec)
  <2> SUFFICES ASSUME rec.status = "ACCEPTED" PROVE AcceptedKnown(mode, box, h, t, rec)
    BY DEF AcceptedKnown
  <2>1. AcceptedKnown(mode, box, g, t, rec) /\ t # u
    BY DEF SoundRecord
  <2>2. \A j : (\E i \in DOMAIN g : g[i] = Candidate(t, j))
                   => \E i \in DOMAIN h : h[i] = Candidate(t, j)
    BY <1>0, <1>1, <2>1
  <2> QED
    BY <2>1, <2>2 DEF AcceptedKnown
<1>5. CandidatesKnown(out, h, t, rec)
  <2>1. CandidatesKnown(out, g, t, rec)
    BY DEF SoundRecord
  <2> SUFFICES ASSUME NEW i \in DOMAIN h, IsCandidateOf(h[i], t),
                      rec.status \notin {"ACCEPTED", "BLOCKED"},
                      <<"refused", t, h[i].attempt>> \notin out
               PROVE  i < Len(h) /\ h[i + 1] = Foreign
    BY DEF CandidatesKnown
  <2>2. i \in DOMAIN g /\ IsCandidateOf(g[i], t) /\ i # Len(g)
    BY <1>1
  <2>3. i < Len(g) /\ g[i + 1] = Foreign
    <3>1. <<"refused", t, g[i].attempt>> \notin out
      BY <1>1
    <3> QED
      BY <2>1, <2>2, <3>1 DEF CandidatesKnown
  <2> QED
    BY <1>0, <1>1, <2>2, <2>3
<1> QED
  BY <1>2, <1>3, <1>4, <1>5 DEF SoundRecord

(* More is excused.                                                        *)
LEMMA SoundExcused ==
  ASSUME NEW mode, NEW out, NEW more, out \subseteq more, NEW box, NEW h, NEW t, NEW rec,
         SoundRecord(mode, out, box, h, t, rec)
  PROVE  SoundRecord(mode, more, box, h, t, rec)
BY DEF SoundRecord, CandidatesKnown

(* A result goes to the inbox of attempt k of task u.                      *)
LEMMA SoundAfterResult ==
  ASSUME NEW mode, NEW out, NEW P, NEW box \in [P \X (1..MaxAttempts) -> Histories \cup {None}],
         NEW h, NEW t \in P, NEW rec \in Record, SoundRecord(mode, out, box, h, t, rec),
         NEW u \in P, NEW k \in 1..MaxAttempts, NEW result, result # None,
         t = u => k <= rec.attempts + 1
  PROVE  SoundRecord(mode, out, [box EXCEPT ![<<u, k>>] = result], h, t, rec)
<1> DEFINE new == [box EXCEPT ![<<u, k>>] = result]
<1>1. \A j \in 1..MaxAttempts :
         /\ box[<<t, j>>] # None => new[<<t, j>>] # None
         /\ new[<<t, j>>] # None => box[<<t, j>>] # None \/ (t = u /\ j = k)
  OBVIOUS
<1> HIDE DEF new
<1>2. PendingKnown(mode, new, t, rec)
  BY <1>1 DEF SoundRecord, PendingKnown, Intents
<1>3. AttemptsKnown(new, h, t, rec)
  BY <1>1 DEF SoundRecord, AttemptsKnown
<1>4. AcceptedKnown(mode, new, h, t, rec)
  BY <1>1 DEF SoundRecord, AcceptedKnown
<1> QED
  BY <1>2, <1>3, <1>4 DEF SoundRecord, new
----------------------------------------------------------------------------
(* What the engine makes of a record.                                      *)
LEMMA SoundStaged ==
  ASSUME NEW mode, mode = "orchestrated", NEW out, NEW box, NEW h \in Histories, NEW t \in Nat,
         NEW rec \in Record, SoundRecord(mode, out, box, h, t, rec), rec.status = "READY",
         rec.attempts + 1 \in 1..MaxAttempts,
         NEW new \in Record, new.status = "INTEGRATION_PENDING", new.attempts = rec.attempts,
         new.integration = Intent(rec.attempts + 1, h), box[<<t, rec.attempts + 1>>] # None
  PROVE  SoundRecord(mode, out, box, h, t, new) /\ Lacks(h, t, rec.attempts + 1)
<1> DEFINE k == rec.attempts + 1
<1>1. Intent(k, h) \in Intents /\ Intent(k, h).attempt = k /\ Intent(k, h).before = h /\ Intent(k, h).prepared = None
  BY DEF Intent, Intents
<1>2. new.status = "INTEGRATION_PENDING" /\ new.attempts = rec.attempts
      /\ new.integration = Intent(k, h)
  OBVIOUS
<1>3. MaxAttempts \in Nat /\ rec.attempts \in Nat /\ k \in Nat
  BY BoundsAssumption DEF Record
<1>4. Lacks(h, t, k)
  <2> SUFFICES ASSUME NEW i \in DOMAIN h, h[i] = Candidate(t, k) PROVE FALSE
    BY DEF Lacks
  <2>1. IsCandidateOf(h[i], t) /\ h[i].attempt = k
    BY <1>3, CandidateFacts
  <2>2. h[i].attempt <= rec.attempts
    BY <2>1 DEF SoundRecord, AttemptsKnown
  <2> QED
    BY <1>3, <2>1, <2>2
<1>5. PendingKnown(mode, box, t, new)
  BY <1>1, <1>2, <1>4 DEF PendingKnown
<1>6. AttemptsKnown(box, h, t, new) /\ AcceptedKnown(mode, box, h, t, new)
  BY <1>2 DEF SoundRecord, AttemptsKnown, AcceptedKnown
<1>7. CandidatesKnown(out, h, t, new)
  BY DEF SoundRecord, CandidatesKnown, Placed
<1> QED
  BY <1>2, <1>4, <1>5, <1>6, <1>7 DEF SoundRecord

LEMMA SoundPrepared ==
  ASSUME NEW mode, NEW out, NEW box, NEW h \in Histories, NEW t \in Nat, NEW rec \in Record,
         SoundRecord(mode, out, box, h, t, rec), rec.status = "INTEGRATION_PENDING",
         rec.integration.before = h,
         NEW new, new = [rec EXCEPT !.integration =
             [rec.integration EXCEPT !.prepared =
                 Append(h, Candidate(t, rec.integration.attempt))]]
  PROVE  /\ new \in Record /\ SoundRecord(mode, out, box, h, t, new)
         /\ new.integration.prepared # None
         /\ Lacks(h, t, rec.integration.attempt)
<1> DEFINE k == rec.integration.attempt
           g == Append(h, Candidate(t, k))
<1>1. /\ rec.integration \in Intents /\ k = rec.attempts + 1 /\ k \in 1..MaxAttempts
      /\ Lacks(h, t, k) /\ mode = "orchestrated" /\ box[<<t, k>>] # None
      /\ rec.integration.prepared # None => rec.integration.prepared = g
  BY DEF SoundRecord, PendingKnown, Intents
<1>2. k \in Nat /\ Candidate(t, k) \in Commits
  BY <1>1, CandidateFacts, BoundsAssumption
<1>3. g \in Histories /\ g # None /\ g # h /\ h # None
  BY <1>2, Appended
<1> HIDE DEF g
<1>4. /\ new \in Record /\ new.status = "INTEGRATION_PENDING" /\ new.attempts = rec.attempts
      /\ new.integration \in Intents /\ new.integration.attempt = k
      /\ new.integration.before = h /\ new.integration.prepared = g
  <2>1. new = [rec EXCEPT !.integration = [rec.integration EXCEPT !.prepared = g]]
    BY DEF g
  <2> QED
    BY <1>1, <1>3, <2>1 DEF Record, Intents
<1>5. PendingKnown(mode, box, t, new)
  BY <1>1, <1>4 DEF PendingKnown, g
<1>6. AttemptsKnown(box, h, t, new) /\ AcceptedKnown(mode, box, h, t, new)
  BY <1>4 DEF SoundRecord, AttemptsKnown, AcceptedKnown
<1>7. ~Placed(rec, h)
  BY <1>1, <1>3 DEF Placed
<1>8. CandidatesKnown(out, h, t, new)
  BY <1>7 DEF SoundRecord, CandidatesKnown
<1> QED
  BY <1>1, <1>3, <1>4, <1>5, <1>6, <1>8 DEF SoundRecord

LEMMA SoundBlocked ==
  ASSUME NEW mode, NEW out, NEW box, NEW h, NEW t, NEW rec \in Record,
         SoundRecord(mode, out, box, h, t, rec),
         NEW new, new = [rec EXCEPT !.status = "BLOCKED"]
  PROVE  new \in Record /\ SoundRecord(mode, out, box, h, t, new)
<1>1. new \in Record /\ new.status = "BLOCKED" /\ new.attempts = rec.attempts
  BY DEF Record, Statuses
<1>2. PendingKnown(mode, box, t, new) /\ AcceptedKnown(mode, box, h, t, new)
      /\ CandidatesKnown(out, h, t, new)
  BY <1>1 DEF PendingKnown, AcceptedKnown, CandidatesKnown
<1>3. AttemptsKnown(box, h, t, new)
  BY <1>1 DEF SoundRecord, AttemptsKnown
<1> QED
  BY <1>1, <1>2, <1>3 DEF SoundRecord

LEMMA SoundFailed ==
  ASSUME NEW mode, NEW out, NEW box, NEW h \in Histories, NEW t \in Nat, NEW rec \in Record,
         SoundRecord(mode, out, box, h, t, rec),
         ~Placed(rec, h) \/ <<"refused", t, rec.attempts + 1>> \in out,
         rec.status \in {"READY", "INTEGRATION_PENDING"},
         NEW new \in Record, new.status \in {"READY", "BLOCKED"}, new.attempts = rec.attempts + 1
  PROVE  SoundRecord(mode, out, box, h, t, new)
<1>0. MaxAttempts \in Nat /\ rec.attempts \in Nat
  BY BoundsAssumption DEF Record
<1>1. new.status \in {"READY", "BLOCKED"} /\ new.attempts = rec.attempts + 1
  OBVIOUS
<1>2. PendingKnown(mode, box, t, new) /\ AcceptedKnown(mode, box, h, t, new)
  BY <1>1 DEF PendingKnown, AcceptedKnown
<1>3. AttemptsKnown(box, h, t, new)
  <2>1. AttemptsKnown(box, h, t, rec)
    BY DEF SoundRecord
  <2>2. ASSUME NEW i \in DOMAIN h, IsCandidateOf(h[i], t)
        PROVE  h[i].attempt <= new.attempts /\ h[i].attempt <= new.attempts + 1
    <3>1. h[i] \in Commits
      BY ElementOfSeq, LenProperties DEF Histories
    <3>2. h[i].attempt \in Nat
      BY <2>2, <3>1, CommitFacts
    <3>3. h[i].attempt <= rec.attempts + 1
      BY <2>1, <2>2 DEF AttemptsKnown
    <3> QED
      BY <1>0, <1>1, <3>2, <3>3
  <2>3. ASSUME NEW k \in 1..MaxAttempts, box[<<t, k>>] # None PROVE k <= new.attempts + 1
    <3>1. k <= rec.attempts + 1
      BY <2>1, <2>3 DEF AttemptsKnown
    <3> QED
      BY <1>0, <1>1, <3>1
  <2> QED
    BY <2>2, <2>3 DEF AttemptsKnown
<1>4. CandidatesKnown(out, h, t, new)
  <2> SUFFICES ASSUME NEW i \in DOMAIN h, IsCandidateOf(h[i], t), i = Len(h), Placed(rec, h)
               PROVE  <<"refused", t, h[i].attempt>> \in out
    BY DEF SoundRecord, CandidatesKnown
  <2> DEFINE k == rec.integration.attempt
             g == rec.integration.before
  <2>1. k = rec.attempts + 1 /\ k \in Nat /\ g \in Histories /\ h = Append(g, Candidate(t, k))
    <3>1. h # None
      BY CommitsAssumption
    <3> QED
      BY <1>0, <3>1 DEF SoundRecord, PendingKnown, Placed, Intents
  <2> HIDE DEF k, g
  <2>2. Candidate(t, k).attempt = k /\ Candidate(t, k) \in Commits
    BY <2>1, CandidateFacts
  <2>3. h[Len(h)] = Candidate(t, k)
    BY <2>1, <2>2, Appended
  <2> QED
    BY <2>1, <2>2, <2>3
<1> QED
  BY <1>1, <1>2, <1>3, <1>4 DEF SoundRecord

LEMMA SoundAccepted ==
  ASSUME NEW mode, NEW out, NEW box, NEW h \in Histories, NEW t, NEW rec \in Record,
         SoundRecord(mode, out, box, h, t, rec),
         rec.status \in {"READY", "INTEGRATION_PENDING"},
         NEW k \in 1..MaxAttempts, k = rec.attempts + 1, box[<<t, k>>] # None,
         mode = "orchestrated" => \E i \in DOMAIN h : h[i] = Candidate(t, k),
         NEW new, new = [rec EXCEPT !.status = "ACCEPTED", !.attempts = k]
  PROVE  new \in Record /\ SoundRecord(mode, out, box, h, t, new)
<1>0. MaxAttempts \in Nat /\ rec.attempts \in Nat /\ k \in Nat
  BY BoundsAssumption DEF Record
<1>1. new \in Record /\ new.status = "ACCEPTED" /\ new.attempts = k
  <2>1. k \in 0..MaxAttempts
    BY <1>0
  <2>2. /\ new.status = "ACCEPTED" /\ new.attempts = k
        /\ new \in [status : Statuses, attempts : 0..MaxAttempts, integration : Intents \cup {None}]
    BY <2>1 DEF Record, Statuses
  <2> QED
    BY <2>2 DEF Record
<1>2. PendingKnown(mode, box, t, new) /\ AcceptedKnown(mode, box, h, t, new)
      /\ CandidatesKnown(out, h, t, new)
  BY <1>1 DEF PendingKnown, AcceptedKnown, CandidatesKnown
<1>3. AttemptsKnown(box, h, t, new)
  <2>1. AttemptsKnown(box, h, t, rec)
    BY DEF SoundRecord
  <2>2. ASSUME NEW i \in DOMAIN h, IsCandidateOf(h[i], t)
        PROVE  h[i].attempt <= new.attempts /\ h[i].attempt <= new.attempts + 1
    <3>1. h[i] \in Commits
      BY ElementOfSeq, LenProperties DEF Histories
    <3>2. h[i].attempt \in Nat
      BY <2>2, <3>1, CommitFacts
    <3>3. h[i].attempt <= rec.attempts + 1
      BY <2>1, <2>2 DEF AttemptsKnown
    <3> QED
      BY <1>0, <1>1, <3>2, <3>3
  <2>3. ASSUME NEW j \in 1..MaxAttempts, box[<<t, j>>] # None PROVE j <= new.attempts + 1
    <3>1. j <= rec.attempts + 1
      BY <2>1, <2>3 DEF AttemptsKnown
    <3> QED
      BY <1>0, <1>1, <3>1
  <2> QED
    BY <2>2, <2>3 DEF AttemptsKnown
<1> QED
  BY <1>1, <1>2, <1>3 DEF SoundRecord
----------------------------------------------------------------------------
(* Steps of a kind.                                                        *)
LEMMA HandFacts ==
  ASSUME Typed, InHand
  PROVE  /\ current = <<Task, Attempt>> /\ Task \in Tasks /\ Task \in Nat
         /\ Attempt \in 1..MaxAttempts /\ Attempt \in Nat /\ current \in DOMAIN inbox
<1>1. current \in Tasks \X (1..MaxAttempts) /\ MaxAttempts \in Nat /\ Tasks \subseteq Nat
  BY PlanFacts DEF Typed, Attempts, Tasks
<1>2. DOMAIN inbox = Attempts(Plan) /\ current \in Attempts(Plan)
  BY DEF Typed
<1>3. /\ current = <<Task, Attempt>> /\ Task \in Tasks /\ Attempt \in 1..MaxAttempts
  BY <1>1 DEF Task, Attempt
<1>4. Task \in Nat /\ Attempt \in Nat
  BY <1>1, <1>3
<1> QED
  BY <1>2, <1>3, <1>4

LEMMA EngineInit == Init => EngineInv
<1> SUFFICES ASSUME Init PROVE EngineInv
  OBVIOUS
<1>1. /\ contract \in Runs /\ records = [t \in Tasks |-> NewRecord]
      /\ memory = [t \in Tasks |-> NewRecord]
      /\ inbox = [a \in Attempts(Plan) |-> None] /\ worktrees = [a \in Attempts(Plan) |-> None]
      /\ target = <<>> /\ pc = "down" /\ faults = 0
      /\ checkout \in Checkouts /\ recovering \in BOOLEAN /\ jammed \in BOOLEAN
  BY DEF Init, Checkouts
<1>2. contract.faults \in Nat /\ MaxAttempts \in Nat
  BY <1>1, PlanFacts
<1>3. NewRecord \in Record /\ NewRecord.status = "READY" /\ NewRecord.attempts = 0
  BY <1>2 DEF NewRecord, Record, Statuses
<1>4. \A t \in Tasks : records[t] = NewRecord
  BY <1>1
<1>5. \A t \in Tasks, k \in 1..MaxAttempts : inbox[<<t, k>>] = None
  BY <1>1 DEF Attempts, Tasks
<1>6. target \in Histories /\ DOMAIN target = {} /\ Len(target) = 0
  BY <1>1 DEF Histories
<1>7. Typed
  <2>1. records \in [Tasks -> Record] /\ memory \in [Tasks -> Record]
    BY <1>1, <1>3
  <2>2. inbox \in [Attempts(Plan) -> Histories \cup {None}] /\ DOMAIN worktrees = Attempts(Plan)
    BY <1>1
  <2> QED
    BY <1>1, <1>2, <1>6, <2>1, <2>2 DEF Typed, InHand, Saving, Handling
<1>8. Sound
  <2>1. ASSUME NEW t \in Tasks PROVE SoundRecord(contract.mode, lapses, inbox, target, t, NewRecord)
    BY <1>3, <1>5, <1>6 DEF SoundRecord, PendingKnown, AttemptsKnown, AcceptedKnown,
       CandidatesKnown
  <2> QED
    BY <1>1, <1>4, <2>1 DEF Sound
<1>9. Agree /\ Alone /\ CurrentKnown /\ ReadyKnown
  <2>1. \A t \in Tasks : ~Flying(t)
    BY <1>3, <1>4, <1>5 DEF Flying, Flies
  <2> QED
    BY <1>1, <2>1 DEF Agree, Alone, CurrentKnown, ReadyKnown, InHand, Saving, Handling,
       InFlight, InProgress, Unsaved
<1>10. IntegratedOnce
  BY <1>6 DEF IntegratedOnce
<1> QED
  BY <1>7, <1>8, <1>9, <1>10 DEF EngineInv

(* What memory says is in flight when it is saved.                         *)
LEMMA SavedFlying ==
  ASSUME EngineInv, pc = "save", NEW t \in Tasks, Flies(inbox, t, memory[t])
  PROVE  t = Task /\ cont[1] \in Retryable
<1>1. cont[1] \in Saved
  BY DEF EngineInv, Typed
<1>2. CASE cont[1] = "choose"
  <2>1. memory[t] = records[t] /\ ~Flying(t)
    BY <1>2 DEF EngineInv, Agree, Alone, Unsaved, Saving
  <2> QED
    BY <2>1 DEF Flying
<1>3. CASE cont[1] # "choose"
  <2>1. InHand /\ Unsaved /\ Saving({cont[1]})
    BY <1>1, <1>3 DEF InHand, Unsaved, Saving
  <2>2. t = Task
    <3>1. t # Task => memory[t] = records[t]
      BY DEF EngineInv, Agree
    <3> QED
      BY <2>1, <3>1 DEF EngineInv, Alone, Flying
  <2>3. /\ records[Task].attempts + 1 = Attempt /\ records[Task].attempts \in Nat
        /\ cont[1] \in {"blocked", "retire", "retry"} =>
              /\ memory[Task].status \in {"BLOCKED", "ACCEPTED", "READY"}
              /\ memory[Task].status = "READY" => memory[Task].attempts = Attempt
    <3>1. records[Task] \in Record /\ MaxAttempts \in Nat
      BY <2>2, PlanFacts DEF EngineInv, Typed
    <3> QED
      BY <2>1, <3>1 DEF EngineInv, CurrentKnown, Saving, Record
  <2>4. ASSUME memory[Task].status = "READY", memory[Task].attempts = Attempt PROVE FALSE
    <3>1. Attempt + 1 \in 1..MaxAttempts /\ inbox[<<Task, Attempt + 1>>] # None
      BY <2>2, <2>4 DEF Flies
    <3>2. AttemptsKnown(inbox, target, Task, records[Task])
      BY <2>2 DEF EngineInv, Sound, SoundRecord
    <3>3. Attempt + 1 <= records[Task].attempts + 1
      BY <3>1, <3>2 DEF AttemptsKnown
    <3> QED
      BY <2>3, <3>3
  <2> QED
    BY <1>1, <1>3, <2>2, <2>3, <2>4 DEF Flies, Saved
<1> QED
  BY <1>2, <1>3

(* The engine is gone.                                                     *)
LEMMA ExitStep ==
  ASSUME EngineInv, Idle, contract' = contract, lapses' = lapses, inbox' = inbox, target' = target,
         DOMAIN worktrees' = DOMAIN worktrees, checkout' \in Checkouts,
         faults' \in 0..contract.faults,
         records' = records \/ (pc = "save" /\ records' = memory)
  PROVE  EngineInv'
<1>0. Typed /\ Sound /\ Alone /\ IntegratedOnce
  BY DEF EngineInv
<1>1. /\ pc' = "down" /\ memory' = [t \in Tasks |-> NewRecord]
      /\ recovering' = FALSE /\ jammed' = FALSE
  BY DEF Idle
<1>2. Tasks' = Tasks /\ Plan' = Plan /\ Attempts(Plan)' = Attempts(Plan)
  BY DEF Tasks, Plan, Attempts
<1>3. Typed'
  <2>1. NewRecord \in Record
    BY <1>0, PlanFacts DEF Typed, NewRecord, Record, Statuses
  <2>2. memory' \in [Tasks -> Record] /\ records' \in [Tasks -> Record]
    BY <1>0, <1>1, <2>1 DEF Typed
  <2> QED
    BY <1>0, <1>1, <1>2, <2>2 DEF Typed, InHand, Saving, Handling
<1>4. Sound'
  BY <1>0, <1>1, <1>2 DEF Sound
<1>5. Alone'
  <2>1. ASSUME NEW t \in Tasks, NEW u \in Tasks, Flying(t)', Flying(u)' PROVE t = u
    <3>1. CASE records' = records
      BY <1>0, <2>1, <3>1 DEF Alone, Flying
    <3>2. CASE pc = "save" /\ records' = memory
      BY <2>1, <3>2, SavedFlying DEF Flying
    <3> QED
      BY <3>1, <3>2
  <2> QED
    BY <1>1, <1>2, <2>1 DEF Alone, InHand, Saving, Handling
<1>6. Agree' /\ CurrentKnown' /\ ReadyKnown'
  BY <1>1 DEF Agree, CurrentKnown, ReadyKnown, Saving, InFlight, InProgress, Unsaved
<1>7. IntegratedOnce'
  BY <1>0, <1>2 DEF IntegratedOnce
<1> QED
  BY <1>3, <1>4, <1>5, <1>6, <1>7 DEF EngineInv

(* The engine goes on with the records and the target as they are.         *)
LEMMA QuietStep ==
  ASSUME EngineInv, pc \notin {"down", "blocked"}, ~Saving({"blocked"}),
         contract' = contract, lapses \subseteq lapses', records' = records, memory' = memory, inbox' = inbox,
         target' = target, DOMAIN worktrees' = DOMAIN worktrees, budget' = budget,
         checkout' \in Checkouts, recovering' \in BOOLEAN, jammed' \in BOOLEAN,
         faults' \in 0..contract.faults, policy'.ready \subseteq policy.ready,
         pc' \in Handling \cup {"top"},
         pc' # "top" => /\ current' \in Attempts(Plan)
                        /\ \A t \in Tasks : Flying(t) => t = Task',
         \A t \in Tasks : memory[t] # records[t] => pc' \in {"failing", "reconcile"} /\ t = Task',
         CurrentKnown'
  PROVE  EngineInv'
<1>0. Typed /\ Sound /\ Alone /\ IntegratedOnce /\ ReadyKnown
  BY DEF EngineInv
<1>2. Tasks' = Tasks /\ Plan' = Plan /\ Attempts(Plan)' = Attempts(Plan)
  BY DEF Tasks, Plan, Attempts
<1>3. Typed'
  BY <1>0, <1>2 DEF Typed, InHand, Saving, Handling
<1>4. Sound'
  BY <1>0, <1>2, SoundExcused DEF Sound
<1>8. IntegratedOnce'
  BY <1>0, <1>2 DEF IntegratedOnce
<1>5. Alone'
  <2>1. \A t : Flying(t)' <=> Flying(t)
    BY DEF Flying
  <2> QED
    BY <1>0, <1>2, <2>1 DEF Alone, InHand, Saving, Handling
<1>6. Agree'
  BY <1>2 DEF Agree, Unsaved
<1>7. ReadyKnown'
  BY <1>0, <1>2 DEF ReadyKnown, Saving
<1> QED
  BY <1>3, <1>4, <1>5, <1>6, <1>7, <1>8 DEF EngineInv

(* The engine has a new record of one task, and saves it.                  *)
LEMMA MemoryStep ==
  ASSUME EngineInv, pc \notin {"down", "blocked"}, ~Saving({"blocked"}),
         contract' = contract, lapses \subseteq lapses', records' = records, target' = target,
         inbox' \in [Attempts(Plan) -> Histories \cup {None}],
         DOMAIN worktrees' = DOMAIN worktrees, checkout' \in Checkouts,
         recovering' \in BOOLEAN, jammed' \in BOOLEAN, budget' = budget,
         faults' \in 0..contract.faults,
         NEW u \in Tasks, NEW rec \in Record, memory' = [memory EXCEPT ![u] = rec],
         pc' = "save", cont'[1] \in Saved \ {"choose"},
         cont'[2] \in {"exit", "failing", "reconcile"},
         cont'[2] # "exit" <=> cont'[1] \in Retryable,
         current' \in Attempts(Plan), Task' = u,
         \A t \in Tasks : memory[t] # records[t] => t = u,
         \A t \in Tasks : SoundRecord(contract.mode, lapses, inbox', target, t, records[t]),
         SoundRecord(contract.mode, lapses', inbox', target, u, rec),
         \A t \in Tasks : Flies(inbox', t, records[t]) => t = u,
         policy'.ready \subseteq policy.ready,
         rec.status \notin {"READY", "INTEGRATION_PENDING"} =>
             cont'[1] = "blocked" \/ u \notin policy'.ready,
         CurrentKnown'
  PROVE  EngineInv'
<1>0. Typed /\ Sound /\ IntegratedOnce /\ ReadyKnown
  BY DEF EngineInv
<1>1. Tasks' = Tasks /\ Plan' = Plan /\ Attempts(Plan)' = Attempts(Plan)
  BY DEF Tasks, Plan, Attempts
<1>2. /\ memory' \in [Tasks -> Record] /\ memory'[u] = rec
      /\ \A t \in Tasks \ {u} : memory'[t] = memory[t] /\ memory[t] = records[t]
  BY <1>0 DEF Typed
<1>3. Typed'
  BY <1>0, <1>1, <1>2 DEF Typed, InHand, Saving, Handling
<1>4. Sound'
  BY <1>1, <1>2, SoundExcused DEF Sound
<1>5. Alone'
  <2>1. \A t : Flying(t)' <=> Flies(inbox', t, records[t])
    BY DEF Flying
  <2> QED
    BY <1>1, <2>1 DEF Alone, Saving
<1>6. Agree'
  BY <1>1, <1>2 DEF Agree, Unsaved, Saving
<1>7. ReadyKnown'
  <2>1. \A t \in policy'.ready : t \in Tasks /\ memory[t].status \in {"READY", "INTEGRATION_PENDING"}
    BY <1>0 DEF ReadyKnown
  <2> QED
    BY <1>1, <1>2, <2>1 DEF ReadyKnown, Saving
<1>8. IntegratedOnce'
  BY <1>0, <1>1 DEF IntegratedOnce
<1> QED
  BY <1>3, <1>4, <1>5, <1>6, <1>7, <1>8 DEF EngineInv
----------------------------------------------------------------------------
(* The steps that leave records and target alone.                          *)
LEMMA Synced ==
  ASSUME EngineInv, pc \notin {"down", "save", "failing", "reconcile"}
  PROVE  \A t \in Tasks : memory[t] = records[t]
BY DEF EngineInv, Agree, Unsaved, Saving

LEMMA PendingFacts ==
  ASSUME EngineInv, NEW t \in Tasks, Pending(t)
  PROVE  /\ pc \in {"top", "recover"} /\ Orchestrated
         /\ memory[t].status = "INTEGRATION_PENDING"
         /\ \A u \in Tasks : memory[u] = records[u] /\ (Flying(u) => u = t)
         /\ memory[t].integration \in Intents
         /\ memory[t].integration.attempt = memory[t].attempts + 1
         /\ <<t, memory[t].integration.attempt>> \in Attempts(Plan)
         /\ Lacks(memory[t].integration.before, t, memory[t].integration.attempt)
         /\ memory[t].integration.prepared # None =>
              memory[t].integration.prepared =
                Append(memory[t].integration.before,
                       Candidate(t, memory[t].integration.attempt))
<1>1. pc \in {"top", "recover"} /\ memory[t].status = "INTEGRATION_PENDING"
  BY DEF Pending, Recovering, Stepping
<1>2. \A u \in Tasks : memory[u] = records[u]
  BY <1>1, Synced
<1>3. \A u \in Tasks : Flying(u) => u = t
  <2>1. Flying(t)
    BY <1>1, <1>2 DEF Flying, Flies
  <2> QED
    BY <2>1 DEF EngineInv, Alone
<1>4. PendingKnown(contract.mode, inbox, t, memory[t])
  BY <1>1 DEF EngineInv, Sound, SoundRecord
<1>5. memory[t].integration.attempt \in 1..MaxAttempts
  BY <1>1, <1>4 DEF PendingKnown, Intents
<1>6. <<t, memory[t].integration.attempt>> \in Attempts(Plan)
  BY <1>5 DEF Attempts, Tasks
<1> QED
  BY <1>1, <1>2, <1>3, <1>4, <1>6 DEF PendingKnown, Orchestrated

LEMMA ChoosingFacts ==
  ASSUME EngineInv, Choosing
  PROVE  /\ pc \in {"top", "choose"}
         /\ \A t \in Tasks : /\ memory[t] = records[t] /\ ~Flying(t)
                             /\ memory[t].status # "INTEGRATION_PENDING"
<1>1. pc \in {"top", "choose", "recover"}
  BY DEF Choosing, Recovering, Stepping
<1>2. \A t \in Tasks : memory[t] = records[t]
  BY <1>1, Synced
<1>3. ASSUME pc = "recover" PROVE FALSE
  <2>1. InFlight /\ InHand
    BY <1>3 DEF InFlight, InHand, Handling
  <2>2. Task \in Tasks /\ memory[Task].status = "INTEGRATION_PENDING"
    BY <2>1, HandFacts DEF EngineInv, CurrentKnown
  <2> QED
    BY <1>3, <2>2 DEF Choosing, WithStatus
<1>4. CASE pc = "choose"
  BY <1>2, <1>4 DEF EngineInv, Alone, Flying, Flies
<1>5. CASE pc = "top"
  <2>1. ~(\E t \in Tasks : Orphan(t)) /\ WithStatus("INTEGRATION_PENDING") = {}
    BY <1>5 DEF Choosing, Recovering
  <2>2. \A t \in Tasks : memory[t].status # "INTEGRATION_PENDING"
    BY <2>1 DEF WithStatus
  <2>3. ASSUME NEW t \in Tasks, Flying(t) PROVE FALSE
    <3>1. records[t].status = "READY" /\ records[t].attempts + 1 \in 1..MaxAttempts
          /\ inbox[<<t, records[t].attempts + 1>>] # None
      BY <1>2, <2>2, <2>3 DEF Flying, Flies
    <3>2. <<t, records[t].attempts + 1>> \in DOMAIN inbox
      BY <3>1 DEF EngineInv, Typed, Attempts, Tasks
    <3>3. memory[t] = records[t]
      BY <1>2
    <3>4. Orphan(t)
      BY <3>1, <3>2, <3>3 DEF Orphan
    <3> QED
      BY <2>1, <3>4
  <2> QED
    BY <1>2, <1>5, <2>2, <2>3
<1> QED
  BY <1>1, <1>3, <1>4, <1>5

LEMMA ReapplyStep ==
  ASSUME EngineInv, NEW t \in Tasks, Reapply(t) \/ Ambiguous(t)
  PROVE  EngineInv'
<1> DEFINE k == memory[t].integration.attempt
<1>1. /\ Pending(t) /\ current' = <<t, k>> /\ recovering' = TRUE
      /\ \/ pc' = "apply" /\ target = memory[t].integration.before
         \/ pc' = "reconcile"
      /\ contract' = contract /\ lapses \subseteq lapses' /\ records' = records /\ inbox' = inbox /\ target' = target
      /\ worktrees' = worktrees /\ checkout' = checkout /\ memory' = memory /\ policy' = policy
      /\ jammed' = jammed /\ budget' = budget /\ faults' = faults
  BY DEF Reapply, Ambiguous, Lapses, durable, Goto
<1>2. /\ pc \in {"top", "recover"} /\ memory[t].status = "INTEGRATION_PENDING"
      /\ \A u \in Tasks : memory[u] = records[u] /\ (Flying(u) => u = t)
      /\ k = memory[t].attempts + 1 /\ <<t, k>> \in Attempts(Plan)
      /\ Lacks(memory[t].integration.before, t, k)
  BY <1>1, PendingFacts
<1> HIDE DEF k
<1>3. Task' = t /\ Attempt' = k
  BY <1>1 DEF Task, Attempt
<1>4. CurrentKnown'
  BY <1>1, <1>2, <1>3 DEF CurrentKnown, InFlight, InProgress, Unsaved, Saving
<1>5. Typed
  BY DEF EngineInv
<1> QED
  BY <1>1, <1>2, <1>3, <1>4, <1>5, QuietStep DEF Typed, Saving, Handling

LEMMA DispatchStep ==
  ASSUME EngineInv, NEW t \in Tasks, Dispatch(t) \/ Refuse(t)
  PROVE  EngineInv'
<1> DEFINE k == memory[t].attempts + 1
<1>1. /\ CanDispatch(t) /\ current' = <<t, k>> /\ recovering' = FALSE
      /\ pc' \in {"writing", "failing"}
      /\ contract' = contract /\ lapses' = lapses /\ records' = records /\ inbox' = inbox /\ target' = target
      /\ DOMAIN worktrees' = DOMAIN worktrees /\ checkout' = checkout /\ memory' = memory
      /\ policy' = policy /\ jammed' = jammed /\ budget' = budget /\ faults' = faults
  BY DEF Dispatch, Refuse, durable, Goto
<1>2. /\ pc \in {"top", "choose"}
      /\ \A u \in Tasks : memory[u] = records[u] /\ ~Flying(u)
      /\ memory[t].status # "INTEGRATION_PENDING"
  BY <1>1, ChoosingFacts DEF CanDispatch
<1>3. memory[t].status = "READY"
  <2>1. t \in policy.ready
    BY <1>1 DEF CanDispatch, NextTask, Eligible, ReadyTasks, Ready
  <2> QED
    BY <1>2, <2>1 DEF EngineInv, ReadyKnown, Saving
<1>4. <<t, k>> \in Attempts(Plan)
  <2>1. budget \in BudgetChoices /\ memory[t].attempts \in Nat
    BY <1>2, PlanFacts DEF EngineInv, Typed, Record
  <2>2. budget.attempts \in 1..MaxAttempts /\ MaxAttempts \in Nat
    BY <2>1, BoundsAssumption
  <2>3. k \in 1..MaxAttempts
    BY <1>1, <2>1, <2>2 DEF CanDispatch
  <2> QED
    BY <2>3 DEF Attempts, Tasks
<1> HIDE DEF k
<1>5. Task' = t /\ Attempt' = k
  BY <1>1 DEF Task, Attempt
<1>6. CurrentKnown'
  BY <1>1, <1>2, <1>3, <1>5 DEF CurrentKnown, InFlight, InProgress, Unsaved, Saving, k
<1>7. Typed
  BY DEF EngineInv
<1> QED
  BY <1>1, <1>2, <1>4, <1>5, <1>6, <1>7, QuietStep DEF Typed, Saving, Handling
(* The task in hand goes on, or what it is at fails.                       *)
LEMMA HandStep ==
  ASSUME EngineInv, NEW from, pc = from,
         from \in {"writing", "written", "stage", "apply", "swap", "refresh", "accept", "deliver"},
         contract' = contract, lapses \subseteq lapses', records' = records, memory' = memory, inbox' = inbox,
         target' = target, DOMAIN worktrees' = DOMAIN worktrees, current' = current,
         budget' = budget, recovering' = recovering, jammed' = jammed,
         checkout' \in Checkouts, faults' \in 0..contract.faults,
         policy'.ready \subseteq policy.ready,
         \/ from = "writing" /\ pc' = "written"
         \/ from = "written" /\ pc' = "stage" /\ Orchestrated
         \/ from = "written" /\ pc' = "accept" /\ ~Orchestrated
         \/ from = "refresh" /\ pc' = "accept"
         \/ from = "accept" /\ pc' = "deliver" /\ ~Orchestrated /\ Task \notin policy'.ready
         \/ pc' = "failing"
         \/ from \in {"apply", "swap", "refresh", "accept"} /\ recovering /\ pc' = "reconcile"
  PROVE  EngineInv'
<1>1. /\ Task' = Task /\ Attempt' = Attempt /\ (Orchestrated' <=> Orchestrated)
      /\ (Integrated(Task, Attempt))' <=> Integrated(Task, Attempt)
  BY DEF Task, Attempt, Orchestrated, Integrated
<1>2. InHand /\ current \in Attempts(Plan) /\ Typed
  BY DEF EngineInv, Typed, InHand, Handling
<1>3. \A t \in Tasks : memory[t] = records[t] /\ (Flying(t) => t = Task)
  BY <1>2, Synced DEF EngineInv, Alone
<1>4. Task \in Tasks
  BY <1>2, HandFacts
<1>5. CurrentKnown
  BY DEF EngineInv
<1>6. InFlight \/ InProgress
  BY DEF InFlight, InProgress
<1>7. /\ Attempt = memory[Task].attempts + 1
      /\ InFlight => memory[Task].status = "INTEGRATION_PENDING"
      /\ InProgress => memory[Task].status = "READY" /\ ~recovering
      /\ from = "refresh" \/ (from = "accept" /\ Orchestrated) => Integrated(Task, Attempt)
  BY <1>5, <1>6 DEF CurrentKnown
<1>8. from = "refresh" => Orchestrated
  <2>1. PendingKnown(contract.mode, inbox, Task, memory[Task])
    BY <1>4 DEF EngineInv, Sound, SoundRecord
  <2> QED
    BY <1>7, <2>1 DEF PendingKnown, Orchestrated, InFlight
<1>9. pc' # "save" /\ pc' \in Handling
  BY DEF Handling
<1>10. CurrentKnown'
  <2>1. memory[Task].status \in {"READY", "INTEGRATION_PENDING"} /\ memory[Task] = records[Task]
    BY <1>3, <1>4, <1>6, <1>7
  <2>2. CASE pc' = "failing"
    BY <1>1, <1>7, <2>1, <2>2 DEF CurrentKnown, InFlight, InProgress, Unsaved, Saving
  <2>3. CASE pc' = "reconcile"
    <3>1. InFlight
      BY <1>7, <1>6, <2>3
    <3> QED
      BY <1>1, <1>7, <2>1, <2>3, <3>1 DEF CurrentKnown, InFlight, InProgress, Unsaved, Saving
  <2>4. CASE pc' = "accept" /\ from = "refresh"
    <3>1. InFlight
      BY <2>4 DEF InFlight
    <3> QED
      BY <1>1, <1>7, <1>8, <2>1, <2>4, <3>1
         DEF CurrentKnown, InFlight, InProgress, Unsaved, Saving
  <2>5. CASE /\ pc' \in {"written", "stage", "accept", "deliver"} /\ from # "refresh"
             /\ pc' = "stage" => Orchestrated
             /\ pc' \in {"accept", "deliver"} => ~Orchestrated
             /\ pc' = "deliver" => Task \notin policy'.ready
    <3>1. InProgress
      BY <2>5 DEF InProgress
    <3> QED
      BY <1>1, <1>7, <2>1, <2>5, <3>1
         DEF CurrentKnown, InFlight, InProgress, Unsaved, Saving
  <2> QED
    BY <2>2, <2>3, <2>4, <2>5
<1> QED
  BY <1>1, <1>2, <1>3, <1>9, <1>10, QuietStep DEF Typed, Saving

LEMMA WriterStep ==
  ASSUME EngineInv,
         \/ Write \/ WriterFails \/ ReviewFails \/ ColdReviewFails \/ CommitCandidate
         \/ DeliverSolo \/ IntegrationFails \/ InboxFails \/ Refresh \/ AcceptRaises
  PROVE  EngineInv'
<1>0. faults \in 0..contract.faults /\ checkout \in Checkouts /\ contract.faults \in Nat
      /\ "clean" \in Checkouts
  BY PlanFacts DEF Checkouts, EngineInv, Typed
<1>1. CASE Write
  BY <1>0, <1>1, HandStep DEF Write, engine, Goto
<1>2. CASE WriterFails \/ ReviewFails \/ ColdReviewFails
  BY <1>0, <1>2, HandStep DEF WriterFails, ReviewFails, ColdReviewFails, AttemptFails,
     durable, engine, Goto
<1>3. CASE CommitCandidate
  BY <1>0, <1>3, HandStep DEF CommitCandidate, engine, Goto
<1>4. CASE DeliverSolo
  BY <1>0, <1>4, HandStep DEF DeliverSolo, durable, engine, Goto
<1>5. CASE IntegrationFails
  BY <1>0, <1>5, HandStep DEF IntegrationFails, Fails, durable, engine, Goto
<1>6. CASE InboxFails
  BY <1>0, <1>6, HandStep DEF InboxFails, Lapses, Fault, durable, engine, Goto
<1>7. CASE Refresh
  BY <1>0, <1>7, HandStep DEF Refresh, engine, Goto
<1>8. CASE AcceptRaises
  <2>1. policy'.ready \subseteq policy.ready
    BY <1>8 DEF AcceptRaises, Recorded
  <2> QED
    BY <1>0, <1>8, <2>1, HandStep DEF AcceptRaises, Fails, durable, Goto
<1> QED
  BY <1>1, <1>2, <1>3, <1>4, <1>5, <1>6, <1>7, <1>8
(* Back to the start of a step, or the run ends.                           *)
LEMMA TopStep ==
  ASSUME EngineInv, pc \notin {"down", "blocked", "save"},
         \A t \in Tasks : memory[t] = records[t],
         contract' = contract, lapses' = lapses, records' = records, memory' = memory, inbox' = inbox,
         target' = target, DOMAIN worktrees' = DOMAIN worktrees, policy' = policy,
         budget' = budget, recovering' = recovering, jammed' = jammed, checkout' \in Checkouts,
         faults' \in 0..contract.faults, pc' = "top"
  PROVE  EngineInv'
<1>1. CurrentKnown'
  BY DEF CurrentKnown, InFlight, InProgress, Unsaved, Saving
<1>2. Typed
  BY DEF EngineInv
<1> QED
  BY <1>1, <1>2, QuietStep DEF Typed, Saving

LEMMA InPlaceFacts ==
  ASSUME EngineInv, pc # "down", NEW t \in Tasks, InPlace(memory, t)
  PROVE  /\ target = Append(memory[t].integration.before, Candidate(t, memory[t].attempts + 1))
         /\ memory[t].integration.before \in Histories
         /\ memory[t].attempts + 1 \in Nat /\ t \in Nat
         /\ Integrated(t, memory[t].attempts + 1)
         /\ Lacks(memory[t].integration.before, t, memory[t].attempts + 1)
         /\ Orchestrated /\ memory[t].status = "INTEGRATION_PENDING"
<1> DEFINE k == memory[t].attempts + 1
           c == Candidate(t, k)
           before == memory[t].integration.before
<1>1. memory[t].status = "INTEGRATION_PENDING" /\ memory[t].integration.prepared = target
  BY DEF InPlace
<1>2. target \in Histories /\ target # None /\ MaxAttempts \in Nat /\ t \in Nat
      /\ memory[t] \in Record
  BY CommitsAssumption, PlanFacts DEF EngineInv, Typed
<1>3. PendingKnown(contract.mode, inbox, t, memory[t])
  BY DEF EngineInv, Sound, SoundRecord
<1>4. /\ before \in Histories /\ memory[t].integration.attempt = k
      /\ target = Append(before, c) /\ Lacks(before, t, k) /\ contract.mode = "orchestrated"
  BY <1>1, <1>2, <1>3 DEF PendingKnown, Intents
<1>5. k \in Nat /\ c \in Commits
  <2>1. k \in Nat
    BY <1>2 DEF Record
  <2> QED
    BY <1>2, <2>1, CandidateFacts
<1>6. Integrated(t, k)
  <2>1. Len(before) + 1 \in DOMAIN target /\ target[Len(before) + 1] = c
    <3> HIDE DEF before, c
    <3> QED
      BY <1>4, <1>5, Appended
  <2> QED
    BY <2>1 DEF Integrated
<1> QED
  BY <1>1, <1>2, <1>4, <1>5, <1>6 DEF Orchestrated

LEMMA LoopStep ==
  ASSUME EngineInv,
         \/ BudgetEnds \/ GiveUp \/ NothingToDo \/ Crash \/ Retire \/ LeaveToRecovery
         \/ (\E t \in Tasks : Exhausted(t)) \/ (\E s \in Signatures : Retry(s))
  PROVE  EngineInv'
<1>0. /\ faults \in 0..contract.faults /\ checkout \in Checkouts /\ contract.faults \in Nat
      /\ "clean" \in Checkouts /\ "dirty" \in Checkouts
      /\ DOMAIN worktrees = Attempts(Plan) /\ recovering \in BOOLEAN /\ jammed \in BOOLEAN
  BY PlanFacts DEF EngineInv, Typed, Checkouts
<1>1. CASE BudgetEnds \/ GiveUp \/ NothingToDo \/ (\E t \in Tasks : Exhausted(t))
  <2>1. /\ Idle /\ faults' = faults /\ contract' = contract /\ lapses' = lapses /\ UNCHANGED durable
    BY <1>1 DEF BudgetEnds, GiveUp, NothingToDo, Exhausted, Exit
  <2> QED
    BY <1>0, <2>1, ExitStep DEF durable
<1>2. CASE Crash
  BY <1>0, <1>2, ExitStep DEF Crash, Exit, Fault, durable
<1>3. CASE Retire
  <2>1. /\ pc = "retire" /\ DOMAIN worktrees' = DOMAIN worktrees
        /\ faults' \in 0..contract.faults
        /\ contract' = contract /\ records' = records /\ inbox' = inbox /\ target' = target
        /\ checkout' = checkout /\ lapses' = lapses
    BY <1>0, <1>3 DEF Retire, RetireWriter, NoteFails, Fault
  <2>2. CASE Idle
    BY <1>0, <2>1, <2>2, ExitStep
  <2>3. CASE pc' = "top" /\ UNCHANGED <<memory, policy, recovering, jammed, budget>>
    <3>1. \A t \in Tasks : memory[t] = records[t]
      BY <2>1, Synced
    <3> QED
      BY <1>0, <2>1, <2>3, <3>1, TopStep
  <2> QED
    BY <1>3, <2>2, <2>3 DEF Retire, NoteFails, Exit, Goto
<1>4. CASE LeaveToRecovery
  <2>1. /\ pc = "failing" /\ pc' = "top" /\ InPlace(memory, Task)
        /\ checkout' = "clean"
        /\ UNCHANGED <<contract, lapses, records, state, inbox, worktrees, target, memory, policy,
                       recovering, jammed, budget, faults>>
    BY <1>4 DEF LeaveToRecovery, Goto
  <2>2. Typed /\ InHand /\ CurrentKnown
    BY <2>1 DEF EngineInv, InHand, Handling
  <2>3. Task \in Tasks /\ Attempt = memory[Task].attempts + 1
    BY <2>1, <2>2, HandFacts DEF CurrentKnown
  <2>4. Integrated(Task, Attempt)
    BY <2>1, <2>3, InPlaceFacts
  <2>5. memory[Task] = records[Task]
    BY <2>1, <2>2, <2>4 DEF CurrentKnown, Lacks, Integrated
  <2>6. \A t \in Tasks : memory[t] = records[t]
    BY <2>1, <2>5 DEF EngineInv, Agree
  <2> QED
    BY <1>0, <2>1, <2>6, TopStep
<1>5. CASE \E s \in Signatures : Retry(s)
  <2>1. pc = "retry" /\ UNCHANGED <<contract, lapses, durable, faults>>
    BY <1>5 DEF Retry
  <2>2. CASE Idle
    BY <1>0, <2>1, <2>2, ExitStep DEF durable
  <2>3. CASE pc' = "top" /\ UNCHANGED <<memory, policy, recovering, jammed, budget>>
    <3>1. \A t \in Tasks : memory[t] = records[t]
      BY <2>1, Synced
    <3> QED
      BY <1>0, <2>1, <2>3, <3>1, TopStep DEF durable
  <2> QED
    BY <1>5, <2>2, <2>3 DEF Retry, Exit, Goto
<1> QED
  BY <1>1, <1>2, <1>3, <1>4, <1>5

(* A new engine starts from what is saved.                                 *)
LEMMA ResumeStep ==
  ASSUME EngineInv, NEW b \in BudgetChoices, Resume(b)
  PROVE  EngineInv'
<1>0. Typed /\ Sound /\ Alone /\ IntegratedOnce /\ pc = "down"
      /\ UNCHANGED <<contract, lapses, durable, faults>>
  BY DEF EngineInv, Resume
<1>1. CASE Idle
  BY <1>0, <1>1, ExitStep DEF durable, Typed
<1>2. CASE /\ memory' = records /\ policy'.ready = Loaded(records) /\ budget' = b
           /\ pc' = "top" /\ UNCHANGED <<recovering, jammed>>
  <2>1. Tasks' = Tasks /\ Plan' = Plan /\ Attempts(Plan)' = Attempts(Plan)
    BY <1>0 DEF Tasks, Plan, Attempts
  <2>2. Typed'
    BY <1>0, <1>2, <2>1 DEF Typed, InHand, Saving, Handling, durable
  <2>3. Sound' /\ IntegratedOnce'
    BY <1>0, <1>2, <2>1 DEF Sound, IntegratedOnce, durable
  <2>4. Alone'
    <3>1. \A t : Flying(t)' <=> Flying(t)
      BY <1>0 DEF Flying, durable
    <3> QED
      BY <1>0, <1>2, <2>1, <3>1 DEF Alone, InHand, Saving, Handling
  <2>5. Agree' /\ CurrentKnown'
    BY <1>0, <1>2 DEF Agree, CurrentKnown, InFlight, InProgress, Unsaved, Saving, durable
  <2>6. ReadyKnown'
    <3>1. \A t \in Loaded(records) : t \in Tasks /\ records[t].status \in {"READY", "INTEGRATION_PENDING"}
      BY <1>0 DEF Loaded, Typed
    <3> QED
      BY <1>2, <2>1, <3>1 DEF ReadyKnown
  <2> QED
    BY <2>2, <2>3, <2>4, <2>5, <2>6 DEF EngineInv
<1> QED
  <2>1. \A r : Restored(Plan, Accepted(records), r, state).ready = r
    BY DEF Restored
  <2> QED
    BY <1>1, <1>2, <2>1 DEF Resume, Exit, Goto
----------------------------------------------------------------------------
(* The steps that change a record in memory and save it.                   *)
LEMMA RecordFacts ==
  ASSUME EngineInv, NEW t \in Tasks
  PROVE  /\ records[t] \in Record /\ memory[t] \in Record
         /\ records[t].attempts \in Nat /\ memory[t].attempts \in Nat
         /\ t \in Nat /\ MaxAttempts \in Nat
         /\ SoundRecord(contract.mode, lapses, inbox, target, t, records[t])
         /\ pc # "down" => SoundRecord(contract.mode, lapses, inbox, target, t, memory[t])
         /\ target \in Histories
         /\ inbox \in [Tasks \X (1..MaxAttempts) -> Histories \cup {None}]
         /\ Attempts(Plan) = Tasks \X (1..MaxAttempts)
<1>1. Typed /\ Sound /\ MaxAttempts \in Nat /\ Tasks \subseteq Nat
  BY PlanFacts DEF EngineInv, Typed
<1>2. records[t] \in Record /\ memory[t] \in Record
  BY <1>1 DEF Typed
<1> QED
  BY <1>1, <1>2 DEF Typed, Sound, Record, Attempts, Tasks

LEMMA AdoptStep ==
  ASSUME EngineInv, NEW t \in Tasks, Adopt(t)
  PROVE  EngineInv'
<1> DEFINE k == memory[t].attempts + 1
           staged == [memory[t] EXCEPT !.status = "INTEGRATION_PENDING",
                                       !.integration = Intent(k, inbox[<<t, k>>])]
           blocked == [memory[t] EXCEPT !.status = "BLOCKED"]
<1>1. /\ pc = "top" /\ Orphan(t) /\ current' = <<t, k>> /\ pc' = "save"
      /\ UNCHANGED <<contract, lapses, durable, policy, recovering, jammed, budget, faults>>
  BY DEF Adopt, Stepping, Save
<1>2. /\ \A u \in Tasks : memory[u] = records[u]
      /\ Typed /\ Alone /\ Sound
  BY <1>1, Synced DEF EngineInv
<1>3. /\ memory[t].status = "READY" /\ k \in 1..MaxAttempts /\ inbox[<<t, k>>] # None
      /\ <<t, k>> \in Attempts(Plan)
  BY <1>1, <1>2 DEF Orphan, Typed, Attempts
<1>4. \A u \in Tasks : Flies(inbox, u, records[u]) => u = t
  <2>1. Flying(t)
    BY <1>2, <1>3 DEF Flying, Flies
  <2> QED
    BY <1>2, <2>1 DEF Alone, Flying
<1>5. Task' = t /\ Attempt' = k /\ (Orchestrated' <=> Orchestrated)
  BY <1>1 DEF Task, Attempt, Orchestrated
<1>6. /\ memory[t] \in Record /\ records[t] \in Record /\ t \in Nat /\ k \in Nat
      /\ target \in Histories /\ inbox' = inbox /\ target' = target
      /\ SoundRecord(contract.mode, lapses, inbox, target, t, memory[t])
  BY <1>1, <1>2, <1>3, RecordFacts DEF durable
<1>7. memory[t].status = records[t].status /\ memory[t].attempts = records[t].attempts
  BY <1>2
<1>8. CASE Exact(t, k) /\ cont' = <<"recover", "reconcile">>
  <2>1. memory' = [memory EXCEPT ![t] = staged] /\ cont' = <<"recover", "reconcile">>
    <3>1. memory' = [memory EXCEPT ![t].status = "INTEGRATION_PENDING",
                                   ![t].integration = Intent(k, inbox[<<t, k>>])]
          /\ cont' = <<"recover", "reconcile">>
      BY <1>8 DEF Adopt, Save
    <3> QED
      BY <3>1
  <2>2. contract.mode = "orchestrated" /\ inbox[<<t, k>>] = target
    BY <1>8 DEF Exact, Orchestrated
  <2>9. staged \in Record
    BY <1>3, <1>6, <2>2 DEF Record, Statuses, Intent, Intents
  <2>3. /\ SoundRecord(contract.mode, lapses, inbox, target, t, staged)
        /\ Lacks(target, t, k)
    <3>1. /\ staged.status = "INTEGRATION_PENDING" /\ staged.attempts = memory[t].attempts
          /\ staged.integration = Intent(memory[t].attempts + 1, target)
      BY <1>6, <2>2 DEF Record
    <3> HIDE DEF staged
    <3> QED
      BY <1>3, <1>6, <2>2, <2>9, <3>1, SoundStaged
  <2>4. staged.status = "INTEGRATION_PENDING" /\ staged.attempts + 1 = k
    BY <1>6 DEF Record
  <2> HIDE DEF staged, k
  <2>5. memory'[t] = staged
    BY <1>2, <2>1 DEF Typed
  <2>6. CurrentKnown'
    <3>1. UNCHANGED <<records, target, contract>> /\ records[t].attempts + 1 = k
      BY <1>1, <1>7 DEF durable, k
    <3>2. cont'[1] = "recover" /\ (Lacks(target, Task, Attempt))'
      BY <1>5, <1>6, <2>1, <2>3 DEF Lacks
    <3> QED
      BY <1>1, <1>3, <1>5, <1>7, <2>4, <2>5, <3>1, <3>2
         DEF CurrentKnown, InFlight, InProgress, Unsaved, Saving, Retryable
  <2> QED
    BY <1>1, <1>2, <1>3, <1>4, <1>5, <1>6, <2>1, <2>3, <2>4, <2>6, <2>9, MemoryStep
       DEF durable, Typed, Sound, Saved, Retryable, Saving
<1>9. CASE cont' = <<"blocked", "exit">>
  <2>1. memory' = [memory EXCEPT ![t] = blocked] /\ cont' = <<"blocked", "exit">>
    BY <1>9 DEF Adopt, Save
  <2>2. blocked \in Record /\ SoundRecord(contract.mode, lapses, inbox, target, t, blocked)
    BY <1>6, SoundBlocked
  <2>3. blocked.status = "BLOCKED"
    BY <1>6 DEF Record
  <2> HIDE DEF blocked, k
  <2>4. memory'[t] = blocked
    BY <1>2, <2>1 DEF Typed
  <2>5. CurrentKnown'
    <3>1. UNCHANGED <<records, target, contract>> /\ records[t].attempts + 1 = k
      BY <1>1, <1>7 DEF durable, k
    <3>2. cont'[1] = "blocked"
      BY <2>1
    <3> QED
      BY <1>1, <1>3, <1>5, <1>7, <2>3, <2>4, <3>1, <3>2
         DEF CurrentKnown, InFlight, InProgress, Unsaved, Saving, Retryable
  <2> QED
    BY <1>1, <1>2, <1>3, <1>4, <1>5, <1>6, <2>1, <2>2, <2>3, <2>5, MemoryStep
       DEF durable, Typed, Sound, Saved, Retryable, Saving
<1>10. cont' = <<"blocked", "exit">> \/ (Exact(t, k) /\ cont' = <<"recover", "reconcile">>)
  BY DEF Adopt, Save
<1> QED
  BY <1>8, <1>9, <1>10
(* The task in hand, when its attempt is not over.                         *)
LEMMA AttemptFacts ==
  ASSUME EngineInv, pc \in Handling \ {"retire"}
  PROVE  /\ current = <<Task, Attempt>> /\ current \in Attempts(Plan)
         /\ Task \in Tasks /\ Attempt \in 1..MaxAttempts /\ Attempt \in Nat
         /\ \A t \in Tasks \ {Task} : memory[t] = records[t] /\ ~Flying(t)
         /\ \A rec \in {memory[Task], records[Task]} :
              /\ rec.status \in {"READY", "INTEGRATION_PENDING"}
              /\ Attempt = rec.attempts + 1
         /\ contract.mode = "orchestrated" <=> Orchestrated
<1>1. Typed /\ Agree /\ Alone /\ CurrentKnown /\ InHand
  BY DEF EngineInv, InHand
<1>2. /\ current = <<Task, Attempt>> /\ current \in Attempts(Plan)
      /\ Task \in Tasks /\ Attempt \in 1..MaxAttempts /\ Attempt \in Nat
  BY <1>1, HandFacts DEF Typed
<1>3. \A t \in Tasks \ {Task} : memory[t] = records[t] /\ ~Flying(t)
  BY <1>1 DEF Agree, Alone, Handling
<1>4. InFlight \/ InProgress \/ pc = "failing"
  BY DEF InFlight, InProgress, Handling
<1>5. /\ memory[Task].status \in {"READY", "INTEGRATION_PENDING"}
      /\ Attempt = memory[Task].attempts + 1
  BY <1>1, <1>4 DEF CurrentKnown
<1>6. /\ records[Task].status \in {"READY", "INTEGRATION_PENDING"}
      /\ Attempt = records[Task].attempts + 1
  <2>1. CASE Unsaved
    BY <1>1, <2>1 DEF CurrentKnown
  <2>2. CASE ~Unsaved
    BY <1>1, <1>2, <1>5, <2>2 DEF Agree, Handling
  <2> QED
    BY <2>1, <2>2
<1> QED
  BY <1>2, <1>3, <1>5, <1>6 DEF Orchestrated

(* A new record of the task in hand.                                       *)
LEMMA SaveStep ==
  ASSUME EngineInv, pc \in Handling \ {"retire"},
         UNCHANGED <<contract, records, worktrees, target, checkout, current, recovering,
                     jammed, budget, faults>>,
         lapses \subseteq lapses',
         \/ inbox' = inbox
         \/ inbox' = [inbox EXCEPT ![current] = target],
         NEW rec \in Record, memory' = [memory EXCEPT ![Task] = rec],
         SoundRecord(contract.mode, lapses', inbox', target, Task, rec),
         NEW then \in Saved \ {"choose"}, NEW else \in {"exit", "failing", "reconcile"},
         Save(then, else), else # "exit" <=> then \in Retryable,
         policy'.ready \subseteq policy.ready,
         rec.status \notin {"READY", "INTEGRATION_PENDING"} =>
             then = "blocked" \/ Task \notin policy'.ready,
         then = "blocked" => rec.status = "BLOCKED",
         then = "retry" => rec.status = "READY" /\ rec.attempts = Attempt,
         then = "retire" => rec.status = "ACCEPTED",
         then \in Retryable => /\ rec.status = "INTEGRATION_PENDING"
                               /\ rec.attempts + 1 = Attempt
                               /\ Lacks(target, Task, Attempt),
         then = "swap" => rec.integration.prepared # None
  PROVE  EngineInv'
<1>1. /\ current = <<Task, Attempt>> /\ current \in Attempts(Plan)
      /\ Task \in Tasks /\ Attempt \in 1..MaxAttempts
      /\ \A t \in Tasks \ {Task} : memory[t] = records[t] /\ ~Flying(t)
      /\ records[Task].status \in {"READY", "INTEGRATION_PENDING"}
      /\ Attempt = records[Task].attempts + 1
  BY AttemptFacts
<1>2. /\ Task' = Task /\ Attempt' = Attempt /\ (Orchestrated' <=> Orchestrated)
      /\ Lacks(target, Task, Attempt)' <=> Lacks(target, Task, Attempt)
      /\ pc' = "save" /\ cont' = <<then, else>>
  BY DEF Task, Attempt, Orchestrated, Lacks, Save
<1>3. Typed /\ target \in Histories /\ target # None
  BY CommitsAssumption DEF EngineInv, Typed
<1>4. memory'[Task] = rec
  BY <1>1, <1>3 DEF Typed
<1>5. /\ inbox' \in [Attempts(Plan) -> Histories \cup {None}]
      /\ \A t \in Tasks : SoundRecord(contract.mode, lapses, inbox', target, t, records[t])
      /\ \A t \in Tasks : Flies(inbox', t, records[t]) => t = Task
  <2>1. CASE inbox' = inbox
    BY <1>1, <1>3, <2>1 DEF EngineInv, Typed, Sound, Flying
  <2>2. CASE inbox' = [inbox EXCEPT ![current] = target]
    <3>1. inbox' \in [Attempts(Plan) -> Histories \cup {None}]
      BY <1>3, <2>2 DEF Typed
    <3>2. ASSUME NEW t \in Tasks
          PROVE  SoundRecord(contract.mode, lapses, inbox', target, t, records[t])
      <4>1. /\ records[t] \in Record /\ target # None
            /\ SoundRecord(contract.mode, lapses, inbox, target, t, records[t])
            /\ inbox \in [Tasks \X (1..MaxAttempts) -> Histories \cup {None}]
        BY <1>3, RecordFacts
      <4>2. t = Task => Attempt <= records[t].attempts + 1
        BY <1>1, RecordFacts
      <4>3. inbox' = [inbox EXCEPT ![<<Task, Attempt>>] = target]
        BY <1>1, <2>2
      <4> QED
        BY <1>1, <4>1, <4>2, <4>3, SoundAfterResult
    <3>3. ASSUME NEW t \in Tasks \ {Task}, Flies(inbox', t, records[t]) PROVE FALSE
      <4>1. \A k : inbox'[<<t, k>>] = inbox[<<t, k>>] \/ <<t, k>> \notin Attempts(Plan)
        BY <1>1, <1>3, <2>2 DEF Typed
      <4>2. Flies(inbox, t, records[t])
        BY <3>3, <4>1 DEF Flies, Attempts, Tasks
      <4> QED
        BY <1>1, <4>2 DEF Flying
    <3> QED
      BY <3>1, <3>2, <3>3
  <2> QED
    BY <2>1, <2>2
<1>6. CurrentKnown'
  <2>1. \A S : Saving(S)' <=> then \in S
    BY <1>2 DEF Saving
  <2> QED
    BY <1>1, <1>2, <1>4, <2>1 DEF CurrentKnown, InFlight, InProgress, Unsaved, Retryable
<1>7. ~Saving({"blocked"})
  BY DEF Saving, Handling
<1> QED
  BY <1>1, <1>2, <1>3, <1>5, <1>6, <1>7, MemoryStep DEF Typed, Handling
LEMMA ReconcileStep ==
  ASSUME EngineInv, Reconcile
  PROVE  EngineInv'
<1> DEFINE rec == [memory[Task] EXCEPT !.status = "BLOCKED"]
<1>1. /\ pc = "reconcile" /\ memory' = [memory EXCEPT ![Task] = rec] /\ Save("blocked", "exit")
      /\ UNCHANGED <<contract, lapses, durable, policy, current, recovering, jammed, budget, faults>>
  BY DEF Reconcile
<1>2. Task \in Tasks
  BY <1>1, AttemptFacts DEF Handling
<1>3. /\ memory[Task] \in Record
      /\ SoundRecord(contract.mode, lapses, inbox, target, Task, memory[Task])
  BY <1>1, <1>2, RecordFacts
<1>4. rec \in Record /\ SoundRecord(contract.mode, lapses, inbox, target, Task, rec)
  BY <1>3, SoundBlocked
<1>5. rec.status = "BLOCKED"
  BY <1>3 DEF Record
<1> HIDE DEF rec
<1> QED
  BY <1>1, <1>4, <1>5, SaveStep DEF durable, Handling, Saved, Retryable

LEMMA StageStep ==
  ASSUME EngineInv, Stage
  PROVE  EngineInv'
<1> DEFINE rec == [memory[Task] EXCEPT !.status = "INTEGRATION_PENDING",
                                       !.integration = Intent(Attempt, target)]
<1>1. /\ pc = "stage" /\ memory' = [memory EXCEPT ![Task] = rec] /\ Save("apply", "failing")
      /\ inbox' = [inbox EXCEPT ![current] = target]
      /\ UNCHANGED <<contract, lapses, records, worktrees, target, checkout, policy, current, recovering,
                     jammed, budget, faults>>
  BY DEF Stage
<1>2. /\ current = <<Task, Attempt>> /\ current \in Attempts(Plan)
      /\ Task \in Tasks /\ Attempt \in 1..MaxAttempts /\ Attempt \in Nat
      /\ Attempt = memory[Task].attempts + 1
      /\ contract.mode = "orchestrated" <=> Orchestrated
  BY <1>1, AttemptFacts DEF Handling
<1>3. contract.mode = "orchestrated" /\ memory[Task].status = "READY"
  BY <1>1, <1>2 DEF EngineInv, CurrentKnown, InProgress
<1>4. /\ memory[Task] \in Record /\ Task \in Nat /\ target \in Histories /\ target # None
      /\ SoundRecord(contract.mode, lapses, inbox, target, Task, memory[Task])
      /\ inbox \in [Tasks \X (1..MaxAttempts) -> Histories \cup {None}]
  BY <1>1, <1>2, RecordFacts, CommitsAssumption
<1>5. SoundRecord(contract.mode, lapses, inbox', target, Task, memory[Task])
  <2>1. inbox' = [inbox EXCEPT ![<<Task, Attempt>>] = target]
    BY <1>1, <1>2
  <2>2. Attempt <= memory[Task].attempts + 1
    BY <1>2
  <2> QED
    BY <1>2, <1>4, <2>1, <2>2, SoundAfterResult
<1>6. inbox'[<<Task, Attempt>>] # None
  <2>1. <<Task, Attempt>> \in DOMAIN inbox
    BY <1>2, <1>4
  <2> QED
    BY <1>1, <1>2, <1>4, <2>1
<1>9. rec \in Record
  BY <1>2, <1>4 DEF Record, Statuses, Intent, Intents
<1>7. /\ SoundRecord(contract.mode, lapses, inbox', target, Task, rec)
      /\ Lacks(target, Task, Attempt)
  <2>1. /\ rec.status = "INTEGRATION_PENDING" /\ rec.attempts = memory[Task].attempts
        /\ rec.integration = Intent(memory[Task].attempts + 1, target)
    BY <1>2, <1>4 DEF Record
  <2> HIDE DEF rec
  <2> QED
    BY <1>2, <1>3, <1>4, <1>5, <1>6, <1>9, <2>1, SoundStaged
<1>8. rec.status = "INTEGRATION_PENDING" /\ rec.attempts + 1 = Attempt
  BY <1>2, <1>4 DEF Record
<1> HIDE DEF rec
<1> QED
  BY <1>1, <1>7, <1>8, <1>9, SaveStep DEF Handling, Saved, Retryable

LEMMA TestsPassStep ==
  ASSUME EngineInv, TestsPass
  PROVE  EngineInv'
<1> DEFINE old == memory[Task]
           rec == [old EXCEPT !.integration =
                     [old.integration EXCEPT !.prepared =
                         Append(target, Candidate(Task, old.integration.attempt))]]
           else == IF recovering THEN "reconcile" ELSE "failing"
<1>1. /\ pc = "apply" /\ old.integration.before = target /\ Save("swap", else)
      /\ UNCHANGED <<contract, lapses, durable, policy, current, recovering, jammed, budget, faults>>
  BY DEF TestsPass
<1>2. memory' = [memory EXCEPT ![Task] = rec]
  BY DEF TestsPass, CandidateOf
<1>3. /\ Task \in Tasks /\ Attempt = old.attempts + 1
      /\ contract.mode = "orchestrated" <=> Orchestrated
  BY <1>1, AttemptFacts DEF Handling
<1>4. old.status = "INTEGRATION_PENDING"
  BY <1>1 DEF EngineInv, CurrentKnown, InFlight
<1>5. /\ old \in Record /\ Task \in Nat /\ target \in Histories
      /\ SoundRecord(contract.mode, lapses, inbox, target, Task, old)
  BY <1>1, <1>3, RecordFacts
<1>6. old.integration.attempt = Attempt
  BY <1>3, <1>4, <1>5 DEF SoundRecord, PendingKnown
<1>7. /\ rec \in Record /\ SoundRecord(contract.mode, lapses, inbox, target, Task, rec)
      /\ rec.integration.prepared # None /\ Lacks(target, Task, Attempt)
  <2> HIDE DEF old
  <2> QED
    BY <1>1, <1>4, <1>5, <1>6, SoundPrepared
<1>8. rec.status = "INTEGRATION_PENDING" /\ rec.attempts + 1 = Attempt
  BY <1>3, <1>4, <1>5 DEF Record
<1> HIDE DEF rec
<1> QED
  BY <1>1, <1>2, <1>7, <1>8, SaveStep DEF durable, Handling, Saved, Retryable

LEMMA FailStep ==
  ASSUME EngineInv, Fail
  PROVE  EngineInv'
<1> DEFINE spent == memory[Task].attempts + 1
           over  == spent >= budget.attempts
           s == IF over THEN "BLOCKED" ELSE "READY"
           rec == [status |-> s, attempts |-> spent, integration |-> None]
<1>1. /\ pc = "failing" /\ memory' = [memory EXCEPT ![Task] = rec]
      /\ Save(IF over THEN "blocked" ELSE "retry", "exit")
      /\ UNCHANGED <<contract, durable, policy, current, recovering, jammed, budget, faults>>
      /\ lapses \subseteq lapses'
      /\ ~InPlace(memory, Task) \/ <<"refused", Task, Attempt>> \in lapses'
  BY DEF Fail, Lapses
<1>2. /\ Task \in Tasks /\ Attempt = spent /\ spent \in 1..MaxAttempts
      /\ memory[Task].status \in {"READY", "INTEGRATION_PENDING"}
  BY <1>1, AttemptFacts DEF Handling
<1>3. /\ memory[Task] \in Record /\ Task \in Nat /\ target \in Histories
      /\ SoundRecord(contract.mode, lapses, inbox, target, Task, memory[Task])
  BY <1>1, <1>2, RecordFacts
<1>4. /\ ~Placed(memory[Task], target) \/ <<"refused", Task, Attempt>> \in lapses'
      /\ SoundRecord(contract.mode, lapses', inbox, target, Task, memory[Task])
  BY <1>1, <1>3, SoundExcused DEF Placed, InPlace
<1>5. rec \in Record /\ SoundRecord(contract.mode, lapses', inbox, target, Task, rec)
  <2>1. rec \in Record /\ rec.status \in {"READY", "BLOCKED"}
        /\ rec.attempts = memory[Task].attempts + 1
    BY <1>2, BoundsAssumption DEF Record, Statuses
  <2>2. ~Placed(memory[Task], target)
        \/ <<"refused", Task, memory[Task].attempts + 1>> \in lapses'
    BY <1>2, <1>4
  <2> HIDE DEF rec
  <2> QED
    BY <1>2, <1>3, <1>4, <2>1, <2>2, SoundFailed
<1>6. rec.status = s /\ rec.attempts = Attempt
  BY <1>2
<1> HIDE DEF rec, spent
<1> QED
  BY <1>1, <1>5, <1>6, SaveStep DEF durable, Handling, Saved, Retryable

LEMMA DeliverInboxStep ==
  ASSUME EngineInv, DeliverInbox
  PROVE  EngineInv'
<1> DEFINE rec == [memory[Task] EXCEPT !.status = "ACCEPTED", !.attempts = Attempt]
<1>1. /\ pc = "deliver" /\ memory' = [memory EXCEPT ![Task] = rec] /\ Save("retire", "exit")
      /\ inbox' = [inbox EXCEPT ![current] = target]
      /\ UNCHANGED <<contract, lapses, records, worktrees, target, checkout, policy, current, recovering,
                     jammed, budget, faults>>
  BY DEF DeliverInbox, Finalized
<1>2. /\ current = <<Task, Attempt>> /\ current \in Attempts(Plan)
      /\ Task \in Tasks /\ Attempt \in 1..MaxAttempts /\ Attempt \in Nat
      /\ Attempt = memory[Task].attempts + 1
      /\ memory[Task].status \in {"READY", "INTEGRATION_PENDING"}
      /\ contract.mode = "orchestrated" <=> Orchestrated
  BY <1>1, AttemptFacts DEF Handling
<1>3. contract.mode # "orchestrated" /\ Task \notin policy.ready
  BY <1>1, <1>2 DEF EngineInv, CurrentKnown
<1>4. /\ memory[Task] \in Record /\ target \in Histories /\ target # None
      /\ SoundRecord(contract.mode, lapses, inbox, target, Task, memory[Task])
      /\ inbox \in [Tasks \X (1..MaxAttempts) -> Histories \cup {None}]
  BY <1>1, <1>2, RecordFacts, CommitsAssumption
<1>5. SoundRecord(contract.mode, lapses, inbox', target, Task, memory[Task])
  <2>1. inbox' = [inbox EXCEPT ![<<Task, Attempt>>] = target]
    BY <1>1, <1>2
  <2>2. Attempt <= memory[Task].attempts + 1
    BY <1>2
  <2> QED
    BY <1>2, <1>4, <2>1, <2>2, SoundAfterResult
<1>6. inbox'[<<Task, Attempt>>] # None
  <2>1. <<Task, Attempt>> \in DOMAIN inbox
    BY <1>2, <1>4
  <2> QED
    BY <1>1, <1>2, <1>4, <2>1
<1>7. rec \in Record /\ SoundRecord(contract.mode, lapses, inbox', target, Task, rec)
  BY <1>2, <1>3, <1>4, <1>5, <1>6, SoundAccepted
<1>8. rec.status = "ACCEPTED"
  BY <1>4 DEF Record
<1> HIDE DEF rec
<1> QED
  BY <1>1, <1>3, <1>7, <1>8, SaveStep DEF Handling, Saved, Retryable

LEMMA AcceptStep ==
  ASSUME EngineInv, Accept
  PROVE  EngineInv'
<1>1. /\ pc = "accept" /\ policy' = Recorded(Plan, policy, Task)
      /\ UNCHANGED <<contract, durable, current, recovering, jammed, budget, faults>>
      /\ lapses \subseteq lapses'
  BY DEF Accept, Lapses
<1>2. policy'.ready = policy.ready \ {Task}
  BY <1>1 DEF Recorded
<1>3. CASE ~Orchestrated
  <2>1. memory' = memory /\ pc' = "deliver"
    BY <1>3 DEF Accept, Goto
  <2>2. checkout \in Checkouts /\ faults \in 0..contract.faults
    BY DEF EngineInv, Typed
  <2> QED
    BY <1>1, <1>2, <1>3, <2>1, <2>2, HandStep DEF durable
<1>4. CASE Orchestrated
  <2> DEFINE rec == [memory[Task] EXCEPT !.status = "ACCEPTED", !.attempts = Attempt]
  <2>1. memory' = [memory EXCEPT ![Task] = rec] /\ Save("retire", "exit")
    BY <1>4 DEF Accept, Finalized
  <2>2. /\ Task \in Tasks /\ Attempt \in 1..MaxAttempts
        /\ Attempt = memory[Task].attempts + 1
        /\ contract.mode = "orchestrated"
    BY <1>1, <1>4, AttemptFacts DEF Handling
  <2>3. memory[Task].status = "INTEGRATION_PENDING" /\ Integrated(Task, Attempt)
    BY <1>1, <1>4 DEF EngineInv, CurrentKnown, InFlight
  <2>4. /\ memory[Task] \in Record /\ target \in Histories
        /\ SoundRecord(contract.mode, lapses, inbox, target, Task, memory[Task])
    BY <1>1, <2>2, RecordFacts
  <2>5. inbox[<<Task, Attempt>>] # None
    BY <2>2, <2>3, <2>4 DEF SoundRecord, PendingKnown
  <2>6. rec \in Record /\ SoundRecord(contract.mode, lapses', inbox, target, Task, rec)
    <3>1. SoundRecord(contract.mode, lapses', inbox, target, Task, memory[Task])
      BY <1>1, <2>4, SoundExcused
    <3> QED
      BY <2>2, <2>3, <2>4, <2>5, <3>1, SoundAccepted DEF Integrated
  <2>7. rec.status = "ACCEPTED"
    BY <2>4 DEF Record
  <2> HIDE DEF rec
  <2> QED
    BY <1>1, <1>2, <2>1, <2>6, <2>7, SaveStep DEF durable, Handling, Saved, Retryable
<1> QED
  BY <1>3, <1>4
----------------------------------------------------------------------------
(* Saving.                                                                 *)
LEMMA ReplanStep ==
  ASSUME EngineInv, Replan
  PROVE  EngineInv'
<1>1. /\ Choosing /\ pc # "choose" /\ policy'.ready = policy.ready
      /\ pc' = "save" /\ cont' = <<"choose", "exit">>
      /\ UNCHANGED <<contract, lapses, durable, memory, current, recovering, jammed, budget, faults>>
  <2>1. policy' = [policy EXCEPT !.replan = FALSE, !.noDelta = 0]
    BY DEF Replan, Replanned
  <2> QED
    BY <2>1 DEF Replan, Save, CanReplan
<1>2. /\ pc = "top" /\ \A t \in Tasks : memory[t] = records[t] /\ ~Flying(t)
  BY <1>1, ChoosingFacts
<1>3. Typed /\ Sound /\ IntegratedOnce /\ ReadyKnown
  BY DEF EngineInv
<1>4. Tasks' = Tasks /\ Plan' = Plan /\ Attempts(Plan)' = Attempts(Plan)
  BY <1>1 DEF Tasks, Plan, Attempts
<1>5. \A S : Saving(S)' <=> "choose" \in S
  BY <1>1 DEF Saving
<1>6. Typed'
  BY <1>1, <1>2, <1>3, <1>4, <1>5 DEF Typed, InHand, Handling, Saved, Retryable, durable
<1>7. Sound' /\ IntegratedOnce'
  BY <1>1, <1>2, <1>3, <1>4 DEF Sound, IntegratedOnce, durable
<1>8. Agree' /\ Alone' /\ CurrentKnown'
  <2>1. \A t : Flying(t)' <=> Flying(t)
    BY <1>1 DEF Flying, durable
  <2> QED
    BY <1>1, <1>2, <1>4, <1>5, <2>1 DEF Agree, Alone, CurrentKnown, InFlight, InProgress,
       Unsaved, InHand, Handling, Saved, Retryable, durable
<1>9. ReadyKnown'
  BY <1>1, <1>2, <1>3, <1>4 DEF ReadyKnown, Saving
<1> QED
  BY <1>3, <1>6, <1>7, <1>8, <1>9 DEF EngineInv

(* The records may have reached the disk, or not.                          *)
LEMMA RecordsStep ==
  ASSUME EngineInv, pc = "save",
         UNCHANGED <<contract, lapses, inbox, worktrees, target, checkout, memory, policy, current,
                     recovering, cont, budget>>,
         records' = memory \/ (records' = records /\ pc' # cont[1]),
         \/ pc' = cont[1]
         \/ cont[2] # "exit" /\ pc' = cont[2],
         jammed' \in BOOLEAN, faults' \in 0..contract.faults
  PROVE  EngineInv'
<1>1. Typed /\ Sound /\ Agree /\ Alone /\ CurrentKnown /\ ReadyKnown /\ IntegratedOnce
  BY DEF EngineInv
<1>2. /\ cont[1] \in Saved /\ cont[2] \in {"exit", "failing", "reconcile"}
      /\ cont[2] # "exit" <=> cont[1] \in Retryable
      /\ \A S : Saving(S) <=> cont[1] \in S
  BY <1>1 DEF Typed, Saving
<1>3. Tasks' = Tasks /\ Plan' = Plan /\ Attempts(Plan)' = Attempts(Plan)
  BY DEF Tasks, Plan, Attempts
<1>4. /\ pc' \in Saved \cup {"failing", "reconcile"}
      /\ pc' \in {"failing", "reconcile"} => cont[1] \in Retryable
      /\ pc' \notin {"failing", "reconcile"} => pc' = cont[1] /\ records' = memory
      /\ \A S : ~Saving(S)'
  BY <1>2 DEF Saved, Retryable, Saving
<1>5. InHand' => InHand
  BY <1>2, <1>4 DEF InHand, Handling, Saved, Retryable
<1>6. Typed'
  <2>1. pc' \in Handling \cup {"choose", "blocked", "retry"} /\ pc' # "save"
    BY <1>4 DEF Saved, Retryable, Handling
  <2>2. records' \in [Tasks -> Record]
    BY <1>1 DEF Typed
  <2>3. InHand => current \in Attempts(Plan)
    BY <1>1 DEF Typed
  <2>4. InHand' => current' \in Attempts(Plan)'
    BY <1>3, <1>5, <2>3
  <2>5. pc' \notin {"save", "down"} /\ pc' \in Handling \cup {"choose", "blocked", "retry"}
    BY <2>1 DEF Handling
  <2>6. pc # "down" /\ budget' \in BudgetChoices
    BY <1>1 DEF Typed
  <2> QED
    BY <1>1, <1>3, <2>2, <2>4, <2>5, <2>6 DEF Typed
<1>7. Sound' /\ IntegratedOnce'
  BY <1>1, <1>3 DEF Sound, IntegratedOnce
<1>8. Agree'
  <2>1. \A t \in Tasks : memory[t] # records[t] => t = Task
    BY <1>1 DEF Agree
  <2>2. Task' = Task
    BY DEF Task
  <2>3. pc' \in {"failing", "reconcile"} => Unsaved'
    BY DEF Unsaved
  <2> QED
    BY <1>3, <1>4, <2>1, <2>2, <2>3 DEF Agree
<1>9. Alone'
  <2>1. \A t : Flying(t)' <=> Flies(inbox, t, records'[t])
    BY DEF Flying
  <2>2. CASE records' = records /\ pc' # cont[1]
    <3>1. cont[1] \in Retryable /\ InHand
      BY <1>2, <1>4, <2>2 DEF InHand, Saved, Retryable
    <3>2. pc' \in {"failing", "reconcile"}
      BY <1>4, <2>2
    <3> QED
      BY <1>1, <1>3, <1>4, <2>1, <2>2, <3>1, <3>2 DEF Alone, Flying, Task
  <2>3. CASE records' = memory
    <3>1. \A t \in Tasks : Flying(t)' => t = Task /\ cont[1] \in Retryable
      BY <2>1, <2>3, SavedFlying
    <3>2. pc' = "choose" => cont[1] \notin Retryable
      BY <1>4 DEF Retryable
    <3> QED
      BY <1>3, <1>4, <3>1, <3>2 DEF Alone, Task
  <2> QED
    BY <2>2, <2>3
<1>10. CurrentKnown'
  <2>1. Task' = Task /\ Attempt' = Attempt /\ Lacks(target', Task', Attempt') = Lacks(target, Task, Attempt)
    BY DEF Task, Attempt
  <2>2. cont[1] \in Retryable =>
          /\ Attempt = memory[Task].attempts + 1
          /\ memory[Task].status = "INTEGRATION_PENDING"
          /\ Lacks(target, Task, Attempt)
          /\ records[Task].status \in {"READY", "INTEGRATION_PENDING"}
          /\ Attempt = records[Task].attempts + 1
    BY <1>1, <1>2 DEF CurrentKnown, InFlight, Unsaved, Saved, Retryable
  <2>3. /\ cont[1] = "retire" => memory[Task].status = "ACCEPTED"
        /\ cont[1] = "swap" => memory[Task].integration.prepared # None
    BY <1>1, <1>2 DEF CurrentKnown
  <2> QED
    BY <1>4, <2>1, <2>2, <2>3 DEF CurrentKnown, InFlight, InProgress, Unsaved, Saved, Retryable
<1>11. ReadyKnown'
  BY <1>1, <1>2, <1>3, <1>4 DEF ReadyKnown, Retryable
<1> QED
  BY <1>6, <1>7, <1>8, <1>9, <1>10, <1>11 DEF EngineInv

LEMMA PersistStep ==
  ASSUME EngineInv, Persist \/ PersistFails
  PROVE  EngineInv'
<1>1. /\ checkout \in Checkouts /\ jammed \in BOOLEAN /\ faults \in 0..contract.faults
      /\ contract.faults \in Nat
  BY PlanFacts DEF EngineInv, Typed
<1>2. CASE Persist
  BY <1>1, <1>2, RecordsStep DEF Persist, engine, Goto
<1>3. CASE PersistFails
  <2>1. /\ pc = "save" /\ (records' = records \/ records' = memory)
        /\ faults' \in 0..contract.faults
        /\ UNCHANGED <<contract, lapses, inbox, worktrees, target, checkout>>
    BY <1>1, <1>3 DEF PersistFails, Fault
  <2>2. CASE Idle
    BY <1>1, <2>1, <2>2, ExitStep
  <2>3. CASE /\ cont[2] # "exit" /\ pc' = cont[2] /\ jammed' = (jammed \/ records' # records)
             /\ UNCHANGED <<memory, policy, current, recovering, cont, budget>>
    <3>1. pc' # cont[1]
      BY <2>1, <2>3 DEF EngineInv, Typed, Saved, Retryable
    <3>2. jammed' \in BOOLEAN
      BY <1>1, <2>3
    <3> QED
      BY <2>1, <2>3, <3>1, <3>2, RecordsStep
  <2> QED
    BY <1>3, <2>2, <2>3 DEF PersistFails, Exit, Goto
<1> QED
  BY <1>2, <1>3
----------------------------------------------------------------------------
(* The steps that move the target.                                         *)
LEMMA OnceAfterAppend ==
  ASSUME EngineInv, NEW c \in Commits, target' = Append(target, c), Tasks' = Tasks,
         lapses' = lapses,
         \A t \in Tasks : IsCandidateOf(c, t) =>
             \A i \in DOMAIN target : IsCandidateOf(target[i], t) =>
                 \/ i < Len(target) /\ target[i + 1] = Foreign
                 \/ <<"refused", t, target[i].attempt>> \in lapses
  PROVE  IntegratedOnce'
<1>1. /\ Len(target) \in Nat /\ DOMAIN target = 1..Len(target)
      /\ DOMAIN target' = 1..(Len(target) + 1) /\ target'[Len(target) + 1] = c
      /\ \A i \in 1..Len(target) : target'[i] = target[i]
  BY Appended DEF EngineInv, Typed
<1> SUFFICES ASSUME NEW t \in Tasks, NEW i \in DOMAIN target', NEW j \in DOMAIN target',
                    i < j, IsCandidateOf(target'[i], t), IsCandidateOf(target'[j], t),
                    <<"refused", t, target'[i].attempt>> \notin lapses
             PROVE  target'[i + 1] = Foreign
  BY DEF IntegratedOnce
<1>2. i \in DOMAIN target /\ target'[i] = target[i]
  BY <1>1
<1>3. CASE j \in DOMAIN target
  <2>1. target[i + 1] = Foreign
    BY <1>1, <1>2, <1>3 DEF EngineInv, IntegratedOnce
  <2> QED
    BY <1>1, <1>2, <1>3, <2>1
<1>4. CASE j = Len(target) + 1
  <2>1. i < Len(target) /\ target[i + 1] = Foreign
    BY <1>1, <1>2, <1>4
  <2> QED
    BY <1>1, <1>2, <2>1
<1> QED
  BY <1>1, <1>3, <1>4

LEMMA ForeignCommitStep ==
  ASSUME EngineInv, ForeignCommit
  PROVE  EngineInv'
<1>1. /\ pc # "down" /\ target' = Append(target, Foreign)
      /\ UNCHANGED <<contract, lapses, records, state, inbox, worktrees, checkout, pc, engine, outcome>>
      /\ faults' \in 0..contract.faults
  BY PlanFacts DEF ForeignCommit, Fault, EngineInv, Typed
<1>2. Typed /\ Sound /\ Agree /\ Alone /\ CurrentKnown /\ ReadyKnown
  BY DEF EngineInv
<1>3. Tasks' = Tasks /\ Plan' = Plan /\ Attempts(Plan)' = Attempts(Plan)
      /\ Task' = Task /\ Attempt' = Attempt /\ (Orchestrated' <=> Orchestrated)
  BY <1>1 DEF Tasks, Plan, Attempts, Task, Attempt, Orchestrated, engine
<1>4. Foreign \in Commits
  BY DEF Commits
<1>5. /\ target \in Histories /\ target' \in Histories
      /\ Len(target) \in Nat /\ DOMAIN target = 1..Len(target)
      /\ DOMAIN target' = 1..(Len(target) + 1) /\ target'[Len(target) + 1] = Foreign
      /\ \A i \in 1..Len(target) : target'[i] = target[i]
  BY <1>1, <1>2, <1>4, Appended DEF Typed
<1>6. Typed'
  BY <1>1, <1>2, <1>3, <1>5 DEF Typed, InHand, Saving, engine
<1>7. Sound'
  <2>1. ASSUME NEW t \in Tasks, NEW rec \in Record,
               SoundRecord(contract.mode, lapses, inbox, target, t, rec)
        PROVE  SoundRecord(contract.mode, lapses, inbox, target', t, rec)
    BY <1>1, <1>5, <2>1, SoundAfterCommit
  <2>2. \A t \in Tasks : records[t] \in Record /\ memory[t] \in Record
    BY <1>2 DEF Typed
  <2> QED
    BY <1>1, <1>2, <1>3, <2>1, <2>2 DEF Sound, engine
<1>8. Agree' /\ ReadyKnown'
  BY <1>1, <1>2, <1>3 DEF Agree, ReadyKnown, Unsaved, Saving, engine
<1>9. Alone'
  <2>1. \A t : Flying(t)' <=> Flying(t)
    BY <1>1 DEF Flying
  <2> QED
    BY <1>1, <1>2, <1>3, <2>1 DEF Alone, InHand, Saving, engine
<1>10. CurrentKnown'
  <2>1. InHand => /\ Task \in Nat /\ Attempt \in Nat
                  /\ Lacks(target, Task, Attempt) => Lacks(target', Task, Attempt)
                  /\ Integrated(Task, Attempt) => Integrated(Task, Attempt)'
    <3> SUFFICES ASSUME InHand
                 PROVE  /\ Task \in Nat /\ Attempt \in Nat
                        /\ Lacks(target, Task, Attempt) => Lacks(target', Task, Attempt)
                        /\ Integrated(Task, Attempt) => Integrated(Task, Attempt)'
      OBVIOUS
    <3>1. Task \in Nat /\ Attempt \in Nat
      BY <1>2, HandFacts
    <3>2. Candidate(Task, Attempt) # Foreign
      BY <3>1, CandidateFacts
    <3>3. Lacks(target, Task, Attempt) => Lacks(target', Task, Attempt)
      BY <1>5, <3>2 DEF Lacks
    <3>4. Candidate(Task, Attempt)' = Candidate(Task, Attempt)
      BY <1>3 DEF Candidate
    <3>5. Integrated(Task, Attempt) => Integrated(Task, Attempt)'
      BY <1>5, <3>4 DEF Integrated
    <3> QED
      BY <3>1, <3>3, <3>5
  <2>2. \A S : Saving(S)' <=> Saving(S)
    BY <1>1 DEF Saving, engine
  <2>3. /\ (InFlight' <=> InFlight) /\ (InProgress' <=> InProgress) /\ (Unsaved' <=> Unsaved)
    BY <1>1, <1>3, <2>2 DEF InFlight, InProgress, Unsaved
  <2>4. /\ pc \in {"apply", "swap", "failing", "reconcile", "refresh", "accept"} => InHand
        /\ Saving(Retryable) => InHand
    BY DEF InHand, Handling, Saved, Retryable, Saving
  <2>5. /\ pc' = pc /\ memory' = memory /\ records' = records /\ policy' = policy
        /\ recovering' = recovering
    BY <1>1 DEF engine
  <2> QED
    BY <1>2, <1>3, <2>1, <2>2, <2>3, <2>4, <2>5 DEF CurrentKnown
<1>11. IntegratedOnce'
  BY <1>1, <1>3, <1>4, OnceAfterAppend DEF IsCandidateOf
<1> QED
  BY <1>6, <1>7, <1>8, <1>9, <1>10, <1>11 DEF EngineInv

(* The engine moves the target; the records are as they were.              *)
LEMMA MovedStep ==
  ASSUME EngineInv, pc \in {"top", "recover", "swap", "refresh"},
         UNCHANGED <<contract, lapses, records, inbox, worktrees, memory, policy, jammed, budget>>,
         target' \in Histories, checkout' \in Checkouts, faults' \in 0..contract.faults,
         NEW t \in Tasks, memory[t].status = "INTEGRATION_PENDING",
         current' = <<t, memory[t].attempts + 1>>, current' \in Attempts(Plan),
         recovering' \in BOOLEAN,
         \/ pc' \in {"failing", "reconcile"}
         \/ /\ pc' = "refresh" /\ memory[t].integration.prepared # None
            /\ Integrated(t, memory[t].attempts + 1)',
         \A u \in Tasks : SoundRecord(contract.mode, lapses, inbox, target', u, memory[u]),
         IntegratedOnce'
  PROVE  EngineInv'
<1>1. Typed /\ Alone /\ ReadyKnown
  BY DEF EngineInv
<1>2. Tasks' = Tasks /\ Plan' = Plan /\ Attempts(Plan)' = Attempts(Plan)
  BY DEF Tasks, Plan, Attempts
<1>3. \A u \in Tasks : memory[u] = records[u]
  BY Synced
<1>4. /\ pc' \in {"failing", "reconcile", "refresh"} /\ Task' = t
      /\ Attempt' = memory[t].attempts + 1
      /\ \A S : ~Saving(S)'
  BY DEF Task, Attempt, Saving
<1>5. Typed'
  BY <1>1, <1>2, <1>4 DEF Typed, Handling
<1>6. Sound'
  BY <1>2, <1>3 DEF Sound
<1>7. Alone'
  <2>1. \A u : Flying(u)' <=> Flying(u)
    BY DEF Flying
  <2>2. Flying(t)
    BY <1>3 DEF Flying, Flies
  <2> QED
    BY <1>1, <1>2, <1>4, <2>1, <2>2 DEF Alone
<1>8. Agree' /\ ReadyKnown'
  BY <1>1, <1>2, <1>3, <1>4 DEF Agree, ReadyKnown, Saving
<1>9. CurrentKnown'
  <2>1. memory'[t].status = "INTEGRATION_PENDING" /\ records'[t] = memory'[t]
    BY <1>3
  <2>2. pc' = "refresh" => Integrated(Task, Attempt)'
    BY <1>4 DEF Integrated, Candidate
  <2> QED
    BY <1>4, <2>1, <2>2 DEF CurrentKnown, InFlight, InProgress, Unsaved
<1> QED
  BY <1>5, <1>6, <1>7, <1>8, <1>9 DEF EngineInv
LEMMA SwapStep ==
  ASSUME EngineInv, Swap
  PROVE  EngineInv'
<1> DEFINE rec == memory[Task]
           c == Candidate(Task, Attempt)
<1>1. /\ pc = "swap" /\ target = rec.integration.before /\ target' = rec.integration.prepared
      /\ checkout' = "stale" /\ pc' = "refresh"
      /\ UNCHANGED <<contract, lapses, records, inbox, worktrees, memory, policy, current, recovering,
                     jammed, budget, faults>>
  BY DEF Swap, engine, Goto
<1>2. /\ current = <<Task, Attempt>> /\ current \in Attempts(Plan)
      /\ Task \in Tasks /\ Attempt \in Nat
      /\ Attempt = rec.attempts + 1
      /\ \A t \in Tasks \ {Task} : memory[t] = records[t] /\ ~Flying(t)
  BY <1>1, AttemptFacts DEF Handling
<1>3. rec.status = "INTEGRATION_PENDING" /\ rec.integration.prepared # None
  BY <1>1 DEF EngineInv, CurrentKnown, InFlight
<1>4. /\ target \in Histories /\ Task \in Nat
      /\ SoundRecord(contract.mode, lapses, inbox, target, Task, rec)
  BY <1>1, <1>2, RecordFacts
<1>5. target' = Append(target, c) /\ rec.integration.attempt = Attempt
  BY <1>1, <1>2, <1>3, <1>4 DEF SoundRecord, PendingKnown
<1>6. /\ c \in Commits /\ \A t : IsCandidateOf(c, t) <=> t = Task
  BY <1>2, <1>4, CandidateFacts
<1>7. /\ target' \in Histories /\ target' # target /\ Len(target) \in Nat
      /\ DOMAIN target' = 1..(Len(target) + 1) /\ target'[Len(target) + 1] = c
  BY <1>4, <1>5, <1>6, Appended
<1>8. ASSUME NEW t \in Tasks
      PROVE  SoundRecord(contract.mode, lapses, inbox, target', t, memory[t])
  <2>1. /\ memory[t] \in Record /\ t \in Nat
        /\ SoundRecord(contract.mode, lapses, inbox, target, t, memory[t])
    BY <1>1, RecordFacts
  <2>2. t = Task => Placed(memory[t], Append(target, c)) /\ Attempt <= memory[t].attempts + 1
    <3> SUFFICES ASSUME t = Task
                 PROVE  Placed(rec, Append(target, c)) /\ Attempt <= rec.attempts + 1
      OBVIOUS
    <3>1. Placed(rec, Append(target, c))
      BY <1>1, <1>3, <1>5 DEF Placed
    <3>2. Attempt <= Attempt
      BY <1>2
    <3> QED
      BY <1>2, <3>1, <3>2
  <2>3. t # Task => memory[t].status # "INTEGRATION_PENDING"
    BY <1>2 DEF Flying, Flies
  <2> QED
    BY <1>2, <1>4, <1>5, <2>1, <2>2, <2>3, SoundAfterSwap
<1>9. IntegratedOnce'
  <2>1. ASSUME NEW i \in DOMAIN target, IsCandidateOf(target[i], Task)
        PROVE  \/ i < Len(target) /\ target[i + 1] = Foreign
               \/ <<"refused", Task, target[i].attempt>> \in lapses
    <3>1. ~Placed(rec, target)
      BY <1>1, <1>7 DEF Placed
    <3> QED
      BY <1>3, <1>4, <2>1, <3>1 DEF SoundRecord, CandidatesKnown
  <2>2. Tasks' = Tasks
    BY <1>1 DEF Tasks, Plan
  <2> HIDE DEF c
  <2> QED
    BY <1>1, <1>5, <1>6, <2>1, <2>2, OnceAfterAppend
<1>10. recovering \in BOOLEAN /\ faults \in 0..contract.faults
  BY DEF EngineInv, Typed
<1> QED
  <2>1. PICK t \in Tasks : t = Task
    BY <1>2
  <2>2. Integrated(t, memory[t].attempts + 1)'
    <3>1. Len(target) + 1 \in DOMAIN target'
      BY <1>7
    <3>2. target'[Len(target) + 1] = Candidate(t, memory[t].attempts + 1)
      BY <1>2, <1>7, <2>1
    <3> QED
      BY <1>1, <3>1, <3>2 DEF Integrated, Candidate
  <2>3. current' = <<t, memory[t].attempts + 1>>
    BY <1>1, <1>2, <2>1
  <2> HIDE DEF c
  <2> QED
    BY <1>1, <1>2, <1>3, <1>7, <1>8, <1>9, <1>10, <2>1, <2>2, <2>3, MovedStep DEF Checkouts

(* The target is moved back to before the candidate of t.                  *)
LEMMA WithdrawStep ==
  ASSUME EngineInv, pc \in {"top", "recover", "refresh"},
         UNCHANGED <<contract, lapses, records, inbox, worktrees, memory, policy, jammed, budget>>,
         NEW t \in Tasks, InPlace(memory, t), target' = memory[t].integration.before,
         current' = <<t, memory[t].attempts + 1>>, current' \in Attempts(Plan),
         recovering' \in BOOLEAN, checkout' \in Checkouts, faults' \in 0..contract.faults,
         pc' \in {"failing", "reconcile"}
  PROVE  EngineInv'
<1> DEFINE k == memory[t].attempts + 1
           c == Candidate(t, k)
<1>1. /\ target = Append(target', c) /\ target' \in Histories /\ k \in Nat /\ t \in Nat
      /\ memory[t].status = "INTEGRATION_PENDING"
  BY InPlaceFacts
<1>2. c \in Commits
  BY <1>1, CandidateFacts
<1> HIDE DEF k
<1>3. /\ Len(target') \in Nat /\ DOMAIN target' = 1..Len(target')
      /\ DOMAIN target = 1..(Len(target') + 1)
      /\ \A i \in 1..Len(target') : target[i] = target'[i]
  <2> HIDE DEF c
  <2> QED
    BY <1>1, <1>2, Appended
<1>4. ASSUME NEW u \in Tasks
      PROVE  SoundRecord(contract.mode, lapses, inbox, target', u, memory[u])
  <2>1. /\ memory[u] \in Record /\ u \in Nat
        /\ SoundRecord(contract.mode, lapses, inbox, target, u, memory[u])
    BY RecordFacts
  <2>2. u = t => memory[u].status # "ACCEPTED"
    BY <1>1
  <2> QED
    BY <1>1, <2>1, <2>2, SoundAfterUndo
<1>5. IntegratedOnce'
  <2>1. Tasks' = Tasks
    BY DEF Tasks, Plan
  <2> SUFFICES ASSUME NEW u \in Tasks, NEW i \in DOMAIN target', NEW j \in DOMAIN target',
                      i < j, IsCandidateOf(target'[i], u), IsCandidateOf(target'[j], u),
                      <<"refused", u, target'[i].attempt>> \notin lapses
               PROVE  target'[i + 1] = Foreign
    BY <2>1 DEF IntegratedOnce
  <2>2. target[i + 1] = Foreign
    BY <1>3 DEF EngineInv, IntegratedOnce
  <2> QED
    BY <1>3, <2>2
<1> QED
  BY <1>1, <1>4, <1>5, MovedStep

LEMMA UndoStep ==
  ASSUME EngineInv, Undo
  PROVE  EngineInv'
<1>1. /\ pc = "refresh" /\ pc' = (IF recovering THEN "reconcile" ELSE "failing")
      /\ UNCHANGED <<contract, lapses, records, state, inbox, worktrees, engine, outcome>>
  BY DEF Undo, Fails, Goto
<1>2. Typed /\ contract.faults \in Nat
  BY PlanFacts DEF EngineInv, Typed
<1>3. /\ current = <<Task, Attempt>> /\ current \in Attempts(Plan) /\ Task \in Tasks
      /\ Attempt = memory[Task].attempts + 1
  BY <1>1, AttemptFacts DEF Handling
<1>4. CASE InPlace(memory, Task)
  <2>1. /\ target' = memory[Task].integration.before /\ checkout' \in Checkouts
        /\ faults' \in 0..contract.faults
    BY <1>2, <1>4 DEF Undo, Fault, Typed, Checkouts
  <2>2. current' = <<Task, memory[Task].attempts + 1>> /\ current' \in Attempts(Plan)
    BY <1>1, <1>3 DEF engine
  <2>3. recovering' \in BOOLEAN
    BY <1>1, <1>2 DEF engine, Typed
  <2>4. PICK t \in Tasks : t = Task
    BY <1>3
  <2>5. UNCHANGED <<contract, lapses, records, inbox, worktrees, memory, policy, jammed, budget>>
    BY <1>1 DEF engine
  <2> QED
    BY <1>1, <1>4, <2>1, <2>2, <2>3, <2>4, <2>5, WithdrawStep
<1>5. CASE ~InPlace(memory, Task)
  <2>1. target' = target /\ faults' = faults /\ checkout' \in Checkouts
    BY <1>5 DEF Undo
  <2> QED
    BY <1>1, <1>2, <2>1, HandStep DEF engine, Typed
<1> QED
  BY <1>4, <1>5

LEMMA ResumePendingStep ==
  ASSUME EngineInv, NEW t \in Tasks, ResumePending(t)
  PROVE  EngineInv'
<1> DEFINE k == memory[t].attempts + 1
<1>1. /\ Pending(t) /\ InPlace(memory, t) /\ recovering' = TRUE /\ checkout' \in Checkouts
      /\ current' = <<t, memory[t].integration.attempt>>
      /\ UNCHANGED <<contract, lapses, records, inbox, worktrees, memory, policy, jammed, budget>>
  BY DEF ResumePending, Checkouts
<1>2. /\ pc \in {"top", "recover"}
      /\ \A u \in Tasks : memory[u] = records[u] /\ (Flying(u) => u = t)
      /\ memory[t].integration.attempt = k /\ <<t, k>> \in Attempts(Plan)
      /\ memory[t].status = "INTEGRATION_PENDING" /\ Orchestrated
  BY <1>1, PendingFacts
<1>3. Integrated(t, k)
  BY <1>1, <1>2, InPlaceFacts
<1>4. Typed /\ contract.faults \in Nat
  BY PlanFacts DEF EngineInv, Typed
<1>5. CASE pc' = "accept" /\ UNCHANGED <<target, faults>>
  <2> HIDE DEF k
  <2>1. Task' = t /\ Attempt' = k /\ Orchestrated'
    BY <1>1, <1>2 DEF Task, Attempt, Orchestrated
  <2>2. Integrated(Task, Attempt)'
    BY <1>3, <1>5, <2>1 DEF Integrated, Candidate
  <2>3. CurrentKnown'
    BY <1>1, <1>2, <1>5, <2>1, <2>2
       DEF CurrentKnown, InFlight, InProgress, Unsaved, Saving, k
  <2> QED
    BY <1>1, <1>2, <1>4, <1>5, <2>1, <2>3, QuietStep DEF Typed, Saving, Handling
<1>6. CASE Fault /\ target' = memory[t].integration.before /\ pc' = "reconcile"
  <2>1. faults' \in 0..contract.faults
    BY <1>4, <1>6 DEF Fault, Typed
  <2> QED
    BY <1>1, <1>2, <1>6, <2>1, WithdrawStep
<1> QED
  BY <1>5, <1>6 DEF ResumePending, Goto
----------------------------------------------------------------------------
(* The user works in the checkout, or is done with it.                     *)
LEMMA CheckoutStep ==
  ASSUME EngineInv, Disturb \/ Tidy
  PROVE  EngineInv'
<1>1. /\ UNCHANGED <<contract, lapses, records, inbox, worktrees, target, pc, engine>>
      /\ checkout' \in Checkouts /\ faults' \in 0..contract.faults
  BY PlanFacts DEF Disturb, Tidy, Fault, Checkouts, EngineInv, Typed
<1>2. /\ Tasks' = Tasks /\ Plan' = Plan /\ Attempts(Plan)' = Attempts(Plan)
      /\ Task' = Task /\ Attempt' = Attempt /\ (Orchestrated' <=> Orchestrated)
      /\ \A S : Saving(S)' <=> Saving(S)
      /\ \A t : Flying(t)' <=> Flying(t)
      /\ \A t, k : Integrated(t, k)' <=> Integrated(t, k)
  BY <1>1 DEF Tasks, Plan, Attempts, Task, Attempt, Orchestrated, Saving, Flying, Integrated,
     Candidate, engine
<1>3. (InHand' <=> InHand) /\ (Unsaved' <=> Unsaved) /\ (InFlight' <=> InFlight)
      /\ (InProgress' <=> InProgress)
  BY <1>1, <1>2 DEF InHand, Unsaved, InFlight, InProgress
<1>4. Typed'
  BY <1>1, <1>2, <1>3 DEF EngineInv, Typed, engine
<1>5. Sound' /\ IntegratedOnce'
  BY <1>1, <1>2 DEF EngineInv, Sound, IntegratedOnce, engine
<1>6. Agree' /\ Alone' /\ ReadyKnown'
  BY <1>1, <1>2, <1>3 DEF EngineInv, Agree, Alone, ReadyKnown, engine
<1>7. CurrentKnown'
  BY <1>1, <1>2, <1>3 DEF EngineInv, CurrentKnown, engine
<1> QED
  BY <1>4, <1>5, <1>6, <1>7 DEF EngineInv

LEMMA EngineNext ==
  ASSUME EngineInv, [Next]_vars
  PROVE  EngineInv'
<1>1. CASE \E b \in BudgetChoices : Resume(b)
  BY <1>1, ResumeStep
<1>2. CASE Crash \/ ForeignCommit
  BY <1>2, LoopStep, ForeignCommitStep
<1>9. CASE Disturb \/ Tidy
  BY <1>9, CheckoutStep
<1>3. ASSUME NEW t \in Tasks, StepOf(t) PROVE EngineInv'
  <2>1. CASE Exhausted(t)
    BY <2>1, LoopStep
  <2> QED
    BY <1>3, <2>1, AdoptStep, ReapplyStep, ResumePendingStep, DispatchStep DEF StepOf
<1>4. CASE \/ BudgetEnds \/ GiveUp \/ NothingToDo \/ Retire \/ LeaveToRecovery
           \/ \E s \in Signatures : Retry(s)
  BY <1>4, LoopStep
<1>5. CASE \/ Write \/ WriterFails \/ ReviewFails \/ ColdReviewFails \/ CommitCandidate
           \/ DeliverSolo \/ IntegrationFails \/ InboxFails \/ Refresh \/ AcceptRaises
  BY <1>5, WriterStep
<1>6. CASE Reconcile \/ Stage \/ TestsPass \/ Fail \/ DeliverInbox \/ Accept
  BY <1>6, ReconcileStep, StageStep, TestsPassStep, FailStep, DeliverInboxStep, AcceptStep
<1>7. CASE Replan \/ Persist \/ PersistFails \/ Swap \/ Undo
  BY <1>7, ReplanStep, PersistStep, SwapStep, UndoStep
<1>8. CASE UNCHANGED vars
  <2>1. EngineInv' <=> EngineInv
    BY <1>8 DEF EngineInv, Typed, Sound, Agree, Alone, CurrentKnown, ReadyKnown, IntegratedOnce,
       Flying, InHand, InFlight, InProgress, Unsaved, Saving, Integrated, Orchestrated, Tasks,
       Plan, Task, Attempt, vars, durable, engine
  <2> QED
    BY <2>1
<1> QED
  BY <1>1, <1>2, <1>3, <1>4, <1>5, <1>6, <1>7, <1>8, <1>9 DEF Next, EngineStep

LEMMA EngineInvariant == Spec => []EngineInv
<1>1. Init => EngineInv
  BY EngineInit
<1>2. EngineInv /\ [Next]_vars => EngineInv'
  BY EngineNext
<1> QED
  BY <1>1, <1>2, PTL DEF Spec

(* The types, for any plans and budgets.                                   *)
THEOREM TypeCorrect == Spec => []TypeOK
<1>1. EngineInv => TypeOK
  <2> SUFFICES ASSUME EngineInv PROVE TypeOK
    OBVIOUS
  <2>1. Typed /\ Sound /\ MaxAttempts \in Nat
    BY PlanFacts DEF EngineInv, Typed
  <2>2. ASSUME NEW recs \in {records, memory}, NEW t \in Tasks
        PROVE  /\ recs[t].status \in Statuses
               /\ recs[t].attempts \in 0..MaxAttempts
               /\ recs[t].status = "INTEGRATION_PENDING" =>
                    recs[t].integration.attempt = recs[t].attempts + 1
    <3>1. recs[t] \in Record
      BY <2>1 DEF Typed
    <3>2. CASE SoundRecord(contract.mode, lapses, inbox, target, t, recs[t])
      BY <3>1, <3>2 DEF SoundRecord, PendingKnown, Record
    <3>3. CASE recs[t] = NewRecord
      BY <3>1, <3>3 DEF NewRecord, Record
    <3> QED
      BY <2>1, <3>2, <3>3 DEF Sound, Typed
  <2> QED
    BY <2>1, <2>2 DEF TypeOK, Typed, Statuses
<1> QED
  BY <1>1, EngineInvariant, PTL

(* An accepted task has its result in the inbox and, when orchestrated,    *)
(* the candidate of the very attempt it was accepted for in the target:    *)
(* whatever is lost, crashes, or is committed meanwhile.                   *)
THEOREM AcceptanceIsReal == Spec => []AcceptedIsReal
<1>1. EngineInv => AcceptedIsReal
  <2> SUFFICES ASSUME EngineInv, NEW t \in Accepted(records)
               PROVE  /\ inbox[<<t, records[t].attempts>>] # None
                      /\ Orchestrated => Integrated(t, records[t].attempts)
    BY DEF AcceptedIsReal
  <2>1. t \in Tasks /\ records[t].status = "ACCEPTED"
    BY DEF Accepted, EngineInv, Typed
  <2>2. AcceptedKnown(contract.mode, inbox, target, t, records[t])
    BY <2>1 DEF EngineInv, Sound, SoundRecord
  <2> QED
    BY <2>1, <2>2 DEF AcceptedKnown, Integrated, Orchestrated
<1> QED
  BY <1>1, EngineInvariant, PTL

(* No task's work enters the target twice, except on top of a commit the   *)
(* user made on it before it was accepted, or after an attempt that was    *)
(* refused for the state of the checkout.                                  *)
THEOREM WorkIsIntegratedOnce == Spec => []IntegratedOnce
BY EngineInvariant, PTL DEF EngineInv
----------------------------------------------------------------------------
(* What the target branch sees of a step.                                  *)
Listed == IF Orchestrated THEN {Candidate(t, records[t].attempts) : t \in Accepted(records)}
          ELSE {}
TakesBack(t) ==
    /\ pc \in {"top", "recover", "refresh"} /\ InPlace(memory, t)
    /\ target' = memory[t].integration.before

LEMMA Effects ==
  ASSUME EngineInv, Next
  PROVE  /\ contract' = contract /\ lapses \subseteq lapses'
         /\ \/ Swap \/ ForeignCommit
            \/ (\E t \in Tasks : TakesBack(t)) /\ records' = records
            \/ target' = target /\ records' = records
            \/ target' = target /\ pc = "save" /\ records' = memory
<1>1. CASE \E b \in BudgetChoices : Resume(b)
  BY <1>1 DEF Resume, durable
<1>2. CASE Crash \/ ForeignCommit
  BY <1>2 DEF Crash, ForeignCommit, durable
<1>10. CASE Disturb \/ Tidy
  BY <1>10 DEF Disturb, Tidy
<1>3. ASSUME NEW t \in Tasks, StepOf(t)
      PROVE  /\ contract' = contract /\ records' = records /\ lapses \subseteq lapses'
             /\ TakesBack(t) \/ target' = target
  <2>1. CASE ResumePending(t)
    BY <2>1 DEF ResumePending, Pending, Recovering, Stepping, TakesBack
  <2> QED
    BY <1>3, <2>1 DEF StepOf, Adopt, Reapply, Ambiguous, Lapses, Exhausted, Dispatch, Refuse, durable
<1>4. CASE \/ BudgetEnds \/ GiveUp \/ NothingToDo \/ Retire \/ LeaveToRecovery
           \/ \E s \in Signatures : Retry(s)
  BY <1>4 DEF BudgetEnds, GiveUp, NothingToDo, Retire, LeaveToRecovery, Retry, durable
<1>5. CASE \/ Write \/ WriterFails \/ ReviewFails \/ ColdReviewFails \/ CommitCandidate
           \/ DeliverSolo \/ IntegrationFails \/ InboxFails \/ Refresh \/ AcceptRaises
  BY <1>5 DEF Write, WriterFails, ReviewFails, ColdReviewFails, AttemptFails, CommitCandidate,
     DeliverSolo, IntegrationFails, InboxFails, Lapses, Refresh, AcceptRaises, durable
<1>6. CASE Reconcile \/ Stage \/ TestsPass \/ Fail \/ DeliverInbox \/ Accept \/ Replan
  BY <1>6 DEF Reconcile, Stage, TestsPass, Fail, DeliverInbox, Accept, Replan, Lapses, durable
<1>7. CASE Persist \/ PersistFails
  BY <1>7 DEF Persist, PersistFails
<1>8. CASE Swap
  BY <1>8 DEF Swap
<1>9. CASE Undo
  <2>1. pc = "refresh" /\ contract' = contract /\ records' = records /\ lapses' = lapses
    BY <1>9 DEF Undo
  <2>2. Task \in Tasks
    BY <2>1, AttemptFacts DEF Handling
  <2>3. TakesBack(Task) \/ target' = target
    BY <1>9, <2>1 DEF Undo, TakesBack
  <2> QED
    BY <2>1, <2>2, <2>3
<1> QED
  BY <1>1, <1>2, <1>3, <1>4, <1>5, <1>6, <1>7, <1>8, <1>9, <1>10 DEF Next, EngineStep

LEMMA BranchGrows ==
  ASSUME EngineInv, NEW c \in Commits, target' = Append(target, c),
         UNCHANGED <<contract, lapses, records>>
  PROVE  /\ Branch!Grows("target") /\ UNCHANGED Listed
         /\ Branch!Last(target') = c
<1> DEFINE refs0 == [b \in {"target"} |-> target]
           refs1 == [b \in {"target"} |-> target']
<1>1. target \in Histories /\ Len(target') = Len(target) + 1 /\ target'[Len(target) + 1] = c
  BY Appended DEF EngineInv, Typed
<1>2. Branch!Last(target') = c
  BY <1>1 DEF Branch!Last
<1>3. refs1["target"] = target' /\ refs0["target"] = target
  OBVIOUS
<1>4. refs1 = [refs0 EXCEPT !["target"] = Append(@, Branch!Last(refs1["target"]))]
  BY <1>2, <1>3
<1>5. Branch!Grows("target")
  BY <1>1, <1>3, <1>4 DEF Branch!Grows
<1>6. UNCHANGED Listed
  BY DEF Listed, Orchestrated, Candidate, Accepted
<1> QED
  BY <1>2, <1>5, <1>6

LEMMA BranchStep ==
  ASSUME EngineInv, [Next]_vars
  PROVE  [Branch!Next]_(Branch!target)
<1>1. CASE target' = target /\ records' = records /\ contract' = contract
  BY <1>1 DEF Branch!target, Orchestrated, Candidate, Accepted
<1>2. CASE Swap
  <2> DEFINE c == Candidate(Task, Attempt)
  <2>1. /\ pc = "swap" /\ target = memory[Task].integration.before
        /\ target' = memory[Task].integration.prepared /\ UNCHANGED <<contract, lapses, records>>
    BY <1>2 DEF Swap
  <2>2. Task \in Tasks /\ Attempt = memory[Task].attempts + 1 /\ Attempt \in Nat
    BY <2>1, AttemptFacts DEF Handling
  <2>3. /\ memory[Task].status = "INTEGRATION_PENDING" /\ Lacks(target, Task, Attempt)
        /\ memory[Task].integration.prepared # None
    BY <2>1 DEF EngineInv, CurrentKnown, InFlight
  <2>4. Task \in Nat /\ SoundRecord(contract.mode, lapses, inbox, target, Task, memory[Task])
    BY <2>1, <2>2, RecordFacts
  <2>5. target' = Append(target, c)
    BY <2>1, <2>2, <2>3, <2>4 DEF SoundRecord, PendingKnown
  <2>6. c \in Commits /\ c # Foreign
    BY <2>2, <2>4, CandidateFacts
  <2>7. \A i \in 1..Len(target) : target[i] # c
    BY <2>3, LenProperties DEF Lacks, EngineInv, Typed, Histories
  <2> HIDE DEF c
  <2>8. Branch!Grows("target") /\ UNCHANGED Listed /\ Branch!Last(target') = c
    BY <2>1, <2>5, <2>6, BranchGrows
  <2>9. Branch!Integrate("target")
    BY <2>6, <2>7, <2>8 DEF Branch!Integrate, Branch!Contains, Branch!Last, IsForeign, Listed
  <2> QED
    BY <2>9 DEF Branch!Next
<1>3. CASE ForeignCommit
  <2>1. target' = Append(target, Foreign) /\ UNCHANGED <<contract, lapses, records>> /\ Foreign \in Commits
    BY <1>3 DEF ForeignCommit, Commits
  <2>2. Branch!Grows("target") /\ UNCHANGED Listed /\ Branch!Last(target') = Foreign
    BY <2>1, BranchGrows
  <2>3. Branch!Commit("target")
    BY <2>2 DEF Branch!Commit, Branch!Last, IsForeign, Listed
  <2> QED
    BY <2>3 DEF Branch!Next
<1>4. ASSUME NEW t \in Tasks, TakesBack(t), records' = records, contract' = contract
      PROVE  Branch!Next
  <2> DEFINE k == memory[t].attempts + 1
             c == Candidate(t, k)
  <2>1. /\ target = Append(target', c) /\ target' \in Histories /\ k \in Nat /\ t \in Nat
        /\ Orchestrated /\ memory[t].status = "INTEGRATION_PENDING"
    BY <1>4, InPlaceFacts DEF TakesBack
  <2>2. memory[t] = records[t]
    BY <1>4, Synced DEF TakesBack
  <2>3. c \in Commits /\ c # Foreign /\ \A u, j : Candidate(u, j) = c <=> u = t /\ j = k
    BY <2>1, CandidateFacts
  <2>4. c \notin Listed
    <3> SUFFICES ASSUME NEW u \in Accepted(records), Candidate(u, records[u].attempts) = c
                 PROVE  FALSE
      BY DEF Listed
    <3> QED
      BY <2>1, <2>2, <2>3 DEF Accepted
  <2> HIDE DEF c, k
  <2>5. target # <<>> /\ Branch!Last(target) = c /\ Branch!Front(target) = target'
    <3>1. target' \in Seq(Commits)
      BY <2>1 DEF Histories
    <3> QED
      BY <2>1, <2>3, <3>1 DEF Branch!Last, Branch!Front
  <2>6. UNCHANGED Listed
    BY <1>4 DEF Listed, Orchestrated, Candidate, Accepted
  <2>7. [b \in {"target"} |-> target'] =
          [[b \in {"target"} |-> target] EXCEPT !["target"] = Branch!Front(@)]
    BY <2>5
  <2>8. Branch!Withdraw("target")
    BY <2>3, <2>4, <2>5, <2>6, <2>7 DEF Branch!Withdraw, Branch!Last, Branch!Front, IsForeign,
       Listed
  <2> QED
    BY <2>8 DEF Branch!Next
<1>5. CASE target' = target /\ pc = "save" /\ records' = memory /\ contract' = contract
  <2>1. \A t \in Tasks : memory[t] # records[t] => Unsaved /\ t = Task
    BY <1>5 DEF EngineInv, Agree
  <2>2. CASE ~Orchestrated
    BY <1>5, <2>2 DEF Branch!target, Orchestrated
  <2>3. CASE memory = records
    BY <1>1, <1>5, <2>3
  <2>4. CASE Orchestrated /\ memory # records
    <3>1. Typed /\ Sound
      BY DEF EngineInv
    <3>2. Task \in Tasks /\ Unsaved
      BY <2>1, <2>4, <3>1 DEF Typed
    <3>3. records[Task].status # "ACCEPTED"
      BY <3>2 DEF EngineInv, CurrentKnown
    <3>4. \A t \in Tasks \ {Task} : memory[t] = records[t]
      BY <2>1
    <3>5. Accepted(records) = {t \in Tasks : records[t].status = "ACCEPTED"}
          /\ Accepted(memory) = {t \in Tasks : memory[t].status = "ACCEPTED"}
      BY <3>1 DEF Accepted, Typed
    <3>6. Listed' = {Candidate(t, memory[t].attempts) : t \in Accepted(memory)}
          /\ Listed = {Candidate(t, records[t].attempts) : t \in Accepted(records)}
      BY <1>5, <2>4 DEF Listed, Orchestrated, Candidate, Accepted
    <3>7. CASE memory[Task].status = "ACCEPTED"
      <4> DEFINE c == Candidate(Task, memory[Task].attempts)
      <4>1. Accepted(memory) = Accepted(records) \cup {Task} /\ Task \notin Accepted(records)
        BY <3>2, <3>3, <3>4, <3>5, <3>7
      <4>2. Listed' = Listed \cup {c}
        BY <3>4, <3>5, <3>6, <4>1
      <4>3. SoundRecord(contract.mode, lapses, inbox, target, Task, memory[Task])
        BY <1>5, <3>1, <3>2 DEF Sound
      <4>4. /\ memory[Task].attempts \in Nat /\ Task \in Nat
            /\ \E i \in DOMAIN target : target[i] = c
        BY <2>4, <3>2, <3>7, <4>3, RecordFacts DEF SoundRecord, AcceptedKnown, Orchestrated
      <4>5. c # Foreign
        BY <4>4, CandidateFacts
      <4> HIDE DEF c
      <4>6. PICK i \in DOMAIN target : target[i] = c
        BY <4>4
      <4>7. ~IsForeign(target[i]) /\ Listed' = Listed \cup {target[i]}
        BY <4>2, <4>5, <4>6 DEF IsForeign
      <4>8. Branch!Report("target")
        BY <1>5, <4>7 DEF Branch!Report, Listed
      <4> QED
        BY <4>8 DEF Branch!Next
    <3>8. CASE memory[Task].status # "ACCEPTED"
      <4>1. Accepted(memory) = Accepted(records)
        BY <3>2, <3>3, <3>4, <3>5, <3>8
      <4>2. \A t \in Accepted(records) : memory[t] = records[t]
        BY <3>3, <3>4, <3>5
      <4>3. Listed' = Listed
        BY <3>6, <4>1, <4>2
      <4> QED
        BY <1>5, <4>3 DEF Branch!target, Listed
    <3> QED
      BY <3>7, <3>8
  <2> QED
    BY <2>2, <2>3, <2>4
<1> QED
  <2>1. CASE UNCHANGED vars
    BY <1>1, <2>1 DEF vars, durable
  <2>2. CASE Next
    BY <1>1, <1>2, <1>3, <1>4, <1>5, <2>2, Effects
  <2> QED
    BY <2>1, <2>2

LEMMA BranchInit == Init => Branch!Init
<1> SUFFICES ASSUME Init PROVE Branch!Init
  OBVIOUS
<1>1. target = <<>> /\ \A t \in Tasks : records[t].status = "READY"
  BY DEF Init, NewRecord
<1>2. Accepted(records) = {}
  BY DEF Init, NewRecord, Accepted
<1> QED
  BY <1>1, <1>2 DEF Branch!Init

(* The engine keeps the promise that TargetBranch makes to the user of the *)
(* branch: it loses no commit of the user and no accepted candidate, and   *)
(* lets no candidate in twice.                                             *)
THEOREM ExecutionImplementsTarget == Spec => ImplementsTarget
<1>1. EngineInv /\ [Next]_vars => [Branch!Next]_(Branch!target)
  BY BranchStep
<1>2. EngineInv /\ [Next]_vars => EngineInv'
  BY EngineNext
<1> QED
  BY <1>1, <1>2, BranchInit, EngineInit, PTL DEF Spec, ImplementsTarget, Branch!Spec
----------------------------------------------------------------------------
(* What the policy owes.                                                   *)
LEMMA OwedFacts ==
  ASSUME contract \in Runs, NEW A \in SUBSET Tasks
  PROVE  /\ Owed(Plan, A) \subseteq Tasks \ A
         /\ None \notin Tasks
         /\ \A t \in Tasks : Plan[t].class = "enabler" => Plan[t].unblocks \in Tasks
<1>1. WellFormed(Plan) /\ None \notin Tasks
  BY PlanFacts
<1>2. \A t \in Tasks : Plan[t].class = "enabler" => Plan[t].unblocks \in Tasks
  BY <1>1 DEF WellFormed, Tasks
<1> QED
  BY <1>1, <1>2 DEF Owed, OfClass

(* What __post_init__ makes of a state that can be restored.               *)
LEMMA RestoredFacts ==
  ASSUME contract \in Runs, NEW A \in SUBSET Tasks, NEW R, Restorable(Plan, A, state),
         NEW p, p = Restored(Plan, A, R, state)
  PROVE  /\ (IF p.debt = None THEN {} ELSE {p.debt}) = DebtOf(Plan, A, state)
         /\ p.accepted = A /\ p.ready = R /\ p.replan = state.replan
         /\ DebtOf(Plan, A, state) \subseteq Tasks \ A
         /\ Owed(Plan, A) \subseteq DebtOf(Plan, A, state)
<1> DEFINE debt == DebtOf(Plan, A, state)
<1>1. /\ debt \subseteq Tasks \ A /\ Owed(Plan, A) \subseteq debt
      /\ \A d, e \in Owed(Plan, A) : d = e
  BY DEF Restorable, Tasks
<1>2. None \notin debt
  BY <1>1, OwedFacts
<1>3. \A d, e \in debt : d = e
  BY <1>1 DEF DebtOf
<1>4. p.debt = IF debt = {} THEN None ELSE CHOOSE d \in debt : TRUE
  BY DEF Restored
<1>5. p.accepted = A /\ p.ready = R /\ p.replan = state.replan
  BY DEF Restored
<1> HIDE DEF debt
<1>8. (IF p.debt = None THEN {} ELSE {p.debt}) = debt
  <2>1. CASE debt = {}
    BY <1>4, <2>1
  <2>2. CASE debt # {}
    <3>1. p.debt \in debt
      BY <1>4, <2>2
    <3> QED
      BY <1>2, <1>3, <3>1
  <2> QED
    BY <2>1, <2>2
<1> QED
  BY <1>1, <1>5, <1>8 DEF debt

(* What is saved is what is owed in memory.                                *)
LEMMA SavedDebt ==
  ASSUME AcceptedTogether, pc # "deliver"
  PROVE  DebtOf(Plan, Accepted(memory), DurableState(policy)) = Debts
<1>1. Owed(Plan, Accepted(memory)) \subseteq Debts
  BY DEF AcceptedTogether, Done
<1>2. DurableState(policy).debt = policy.debt
  BY DEF DurableState
<1> QED
  BY <1>1, <1>2 DEF DebtOf, Debts

LEMMA NotPlaced ==
  ASSUME NEW mode, NEW out, NEW box, NEW h \in Histories, NEW t \in Nat, NEW rec \in Record,
         NEW k \in Nat, k = rec.attempts + 1,
         PendingKnown(mode, box, t, rec), Lacks(h, t, k)
  PROVE  ~Placed(rec, h)
<1> SUFFICES ASSUME Placed(rec, h) PROVE FALSE
  OBVIOUS
<1>1. h # None
  BY CommitsAssumption
<1>2. h = Append(rec.integration.before, Candidate(t, k)) /\ rec.integration.before \in Histories
  BY <1>1 DEF Placed, PendingKnown, Intents
<1>3. Candidate(t, k) \in Commits
  BY CandidateFacts
<1>4. /\ Len(rec.integration.before) + 1 \in DOMAIN h
      /\ h[Len(rec.integration.before) + 1] = Candidate(t, k)
  BY <1>2, <1>3, Appended
<1> QED
  BY <1>4 DEF Lacks

LEMMA NotPlacedAfter ==
  ASSUME NEW mode, NEW out, NEW box, NEW h \in Histories, NEW t \in Nat, NEW rec \in Record,
         PendingKnown(mode, box, t, rec), ~Placed(rec, h)
  PROVE  ~Placed(rec, Append(h, Foreign))
<1> SUFFICES ASSUME Placed(rec, Append(h, Foreign)) PROVE FALSE
  OBVIOUS
<1> DEFINE k == rec.integration.attempt
           before == rec.integration.before
           c == Candidate(t, k)
<1>1. Append(h, Foreign) # None /\ Foreign \in Commits
  BY Appended DEF Commits
<1>2. Append(h, Foreign) = Append(before, c) /\ before \in Histories /\ k \in 1..MaxAttempts
  BY <1>1 DEF Placed, PendingKnown, Intents
<1>3. c \in Commits /\ c # Foreign
  <2>1. k \in Nat
    BY <1>2, BoundsAssumption
  <2> HIDE DEF k
  <2> QED
    BY <2>1, CandidateFacts
<1> HIDE DEF c, before
<1>4. /\ Len(Append(h, Foreign)) = Len(h) + 1 /\ Append(h, Foreign)[Len(h) + 1] = Foreign
      /\ Len(Append(before, c)) = Len(before) + 1 /\ Append(before, c)[Len(before) + 1] = c
      /\ Len(h) \in Nat /\ Len(before) \in Nat
  BY <1>1, <1>2, <1>3, Appended
<1> QED
  BY <1>2, <1>3, <1>4

(* The same acceptances, records and state.                                *)
LEMMA SamePolicy ==
  ASSUME EngineInv, PolicyInv, UNCHANGED <<contract, records, state, policy>>,
         Lapsed("lost")' <=> Lapsed("lost"),
         inbox' = inbox \/ (Reliable => FlightStands'),
         pc \notin {"down", "deliver"}, pc' \notin {"down", "deliver"},
         ~Saving({"choose", "retire"}),
         memory' \in [Tasks -> Record],
         \A t \in Tasks : /\ memory'[t].status = "ACCEPTED" <=> memory[t].status = "ACCEPTED"
                          /\ memory'[t].status \in {"READY", "INTEGRATION_PENDING"} =>
                               memory[t].status \in {"READY", "INTEGRATION_PENDING"},
         Reliable => HandStands', PlacedKept'
  PROVE  PolicyInv'
<1>1. Tasks' = Tasks /\ Plan' = Plan /\ (Orchestrated' <=> Orchestrated)
      /\ (Reliable' <=> Reliable)
  BY DEF Tasks, Plan, Orchestrated, Reliable
<1>2. memory \in [Tasks -> Record]
  BY DEF EngineInv, Typed
<1>3. Accepted(memory') = Accepted(memory)
  BY <1>2 DEF Accepted
<1>4. Done' = Done /\ Debts' = Debts /\ SavedDebts' = SavedDebts
  BY <1>1, <1>3 DEF Done, Debts, SavedDebts, Accepted
<1> SUFFICES ASSUME Reliable
             PROVE  FlightStands' /\ AcceptedTogether' /\ SavedTogether'
  BY <1>1 DEF PolicyInv
<1>5. FlightStands /\ AcceptedTogether /\ SavedTogether
  BY DEF PolicyInv
<1>6. FlightStands'
  <2> SUFFICES ASSUME inbox' = inbox PROVE FlightStands'
    OBVIOUS
  <2>1. \A t : /\ Flying(t)' <=> Flying(t)
               /\ Claims(Accepted(records), t)' <=> Claims(Accepted(records), t)
    BY DEF Flying, Claims, Accepted, Plan
  <2> QED
    BY <1>1, <1>4, <1>5, <2>1 DEF FlightStands
<1>7. AcceptedTogether'
  <2>1. Refused' <=> Refused
    BY <1>1, <1>4 DEF Refused
  <2>2. Owed(Plan, Done)' = Owed(Plan, Done)
    BY <1>1, <1>4
  <2> QED
    BY <1>1, <1>4, <1>5, <2>1, <2>2 DEF AcceptedTogether
<1>8. SavedTogether'
  BY <1>4, <1>5 DEF SavedTogether
<1> QED
  BY <1>6, <1>7, <1>8
(* The task in hand may be accepted, and is the debt if there is one.      *)
LEMMA HandDebts ==
  ASSUME EngineInv, PolicyInv, Reliable, pc \in {"writing", "written", "stage", "accept"}
  PROVE  /\ Debts \subseteq {Task} /\ Task \in Tasks \ Done
         /\ Done = Accepted(memory) /\ Accepted(memory) = Accepted(records)
         /\ memory[Task].status \in {"READY", "INTEGRATION_PENDING"}
         /\ pc = "accept" /\ Orchestrated => Claims(Accepted(records), Task)
         /\ Task \in policy.ready => policy.accepted = Done
         /\ FlightStands /\ AcceptedTogether /\ SavedTogether
<1>1. FlightStands /\ AcceptedTogether /\ SavedTogether /\ HandStands
  BY DEF PolicyInv
<1>2. /\ Task \in Tasks /\ memory[Task].status \in {"READY", "INTEGRATION_PENDING"}
      /\ \A t \in Tasks : memory[t] = records[t]
  BY AttemptFacts, Synced DEF Handling
<1>3. Done = Accepted(memory) /\ Task \notin Done
  BY <1>2 DEF Done, Accepted
<1>4. Accepted(memory) = Accepted(records)
  BY <1>2 DEF Accepted, EngineInv, Typed
<1>5. Debts = SavedDebts
  BY <1>1 DEF SavedTogether, Saving
<1>6. ASSUME pc = "accept", Orchestrated
      PROVE  Claims(Accepted(records), Task) /\ Debts \subseteq {Task}
  <2>1. memory[Task].status = "INTEGRATION_PENDING"
    BY <1>6 DEF EngineInv, CurrentKnown, InFlight
  <2>2. Flying(Task)
    BY <1>2, <2>1 DEF Flying, Flies
  <2> QED
    BY <1>1, <1>2, <1>5, <1>6, <2>2 DEF FlightStands
<1>7. Debts \subseteq {Task}
  BY <1>1, <1>6 DEF HandStands, InProgress
<1>8. ASSUME Task \in policy.ready PROVE policy.accepted = Done
  <2>1. None \notin Tasks
    BY PlanFacts DEF EngineInv, Typed
  <2>2. ~Refused
    BY <1>7, <1>8, <2>1 DEF Refused, Debts
  <2> QED
    BY <1>1, <2>2 DEF AcceptedTogether
<1> QED
  BY <1>1, <1>2, <1>3, <1>4, <1>6, <1>7, <1>8

(* What is saved to be retried was in flight before.                       *)
LEMMA RetriedFlying ==
  ASSUME EngineInv, pc = "save", cont[1] \in Retryable
  PROVE  /\ Flying(Task) /\ Task \in Tasks
         /\ memory[Task].status = "INTEGRATION_PENDING"
         /\ records[Task].status \in {"READY", "INTEGRATION_PENDING"}
<1>1. Saving(Retryable) /\ Unsaved /\ InFlight /\ InHand
  BY DEF Saving, Unsaved, Saved, InFlight, InHand, Retryable
<1>2. Task \in Tasks
  BY <1>1, HandFacts DEF EngineInv
<1>3. /\ memory[Task].status = "INTEGRATION_PENDING"
      /\ Attempt = memory[Task].attempts + 1
      /\ records[Task].status \in {"READY", "INTEGRATION_PENDING"}
      /\ Attempt = records[Task].attempts + 1
  BY <1>1 DEF EngineInv, CurrentKnown
<1>4. PendingKnown(contract.mode, inbox, Task, memory[Task])
  BY <1>2 DEF EngineInv, Sound, SoundRecord
<1>5. inbox[<<Task, Attempt>>] # None /\ Attempt \in 1..MaxAttempts
  BY <1>3, <1>4 DEF PendingKnown, Intents
<1> QED
  BY <1>2, <1>3, <1>5 DEF Flying, Flies

LEMMA FlightSaved ==
  ASSUME EngineInv, PolicyInv, Reliable, pc = "save",
         contract' = contract, inbox' = inbox, records' = memory,
         state' = DurableState(policy)
  PROVE  FlightStands' /\ SavedDebts' = Debts /\ state'.replan = policy.replan
<1>1. FlightStands /\ AcceptedTogether /\ SavedTogether
  BY DEF PolicyInv
<1>2. Tasks' = Tasks /\ Plan' = Plan /\ (Orchestrated' <=> Orchestrated)
  BY DEF Tasks, Plan, Orchestrated
<1>3. SavedDebts' = Debts /\ state'.replan = policy.replan
  BY <1>1, <1>2, SavedDebt DEF SavedDebts, DurableState
<1>4. ASSUME NEW t \in Tasks, Flying(t)', Orchestrated
      PROVE  Claims(Accepted(records), t)' /\ Debts \subseteq {t}
  <2>1. t = Task /\ cont[1] \in Retryable
    BY <1>4, SavedFlying DEF Flying
  <2>2. Saving(Retryable) /\ ~Saving({"choose", "retire"})
    BY <2>1 DEF Saving, Retryable
  <2>3. /\ memory[Task].status = "INTEGRATION_PENDING"
        /\ records[Task].status \in {"READY", "INTEGRATION_PENDING"}
    BY <2>1, RetriedFlying
  <2>4. Flying(Task)
    BY <2>1, RetriedFlying
  <2>5. Claims(Accepted(records), Task) /\ SavedDebts \subseteq {Task}
    BY <1>1, <1>4, <2>1, <2>4 DEF FlightStands
  <2>6. Accepted(records)' = Accepted(records)
    <3>1. \A u \in Tasks : memory[u] # records[u] => u = Task
      BY DEF EngineInv, Agree
    <3> QED
      BY <2>1, <2>3, <3>1 DEF Accepted, EngineInv, Typed
  <2>7. Claims(Accepted(records), t)'
    BY <1>2, <2>1, <2>5, <2>6 DEF Claims
  <2> QED
    BY <1>1, <2>1, <2>2, <2>5, <2>7 DEF SavedTogether
<1>5. FlightStands'
  BY <1>2, <1>3, <1>4 DEF FlightStands
<1> QED
  BY <1>3, <1>5

LEMMA ExitPolicy ==
  ASSUME EngineInv, PolicyInv, contract' = contract, lapses' = lapses, inbox' = inbox, pc' = "down",
         \/ records' = records /\ state' = state
         \/ pc = "save" /\ records' = memory /\ state' = DurableState(policy)
  PROVE  PolicyInv'
<1>1. Reliable' <=> Reliable
  BY DEF Reliable, Orchestrated, Lapsed
<1>2. PlacedKept'
  BY DEF PlacedKept, Saving
<1>3. ASSUME Reliable PROVE FlightStands'
  <2>1. CASE records' = records /\ state' = state
    <3>1. FlightStands
      BY <1>3 DEF PolicyInv
    <3> QED
      BY <2>1, <3>1 DEF FlightStands, Flying, Claims, SavedDebts, Accepted, Plan, Tasks,
         Orchestrated
  <2>2. CASE pc = "save" /\ records' = memory /\ state' = DurableState(policy)
    BY <1>3, <2>2, FlightSaved
  <2> QED
    BY <2>1, <2>2
<1> QED
  BY <1>1, <1>2, <1>3 DEF PolicyInv

LEMMA ResumePolicy ==
  ASSUME EngineInv, PolicyInv, NEW b \in BudgetChoices, Resume(b)
  PROVE  PolicyInv'
<1>1. /\ pc = "down" /\ UNCHANGED <<contract, lapses, durable, faults>>
  BY DEF Resume
<1>2. CASE Idle
  BY <1>1, <1>2, ExitPolicy DEF durable, Idle
<1>3. CASE /\ Restorable(Plan, Accepted(records), state) /\ memory' = records /\ pc' = "top"
           /\ policy' = Restored(Plan, Accepted(records), Loaded(records), state)
  <2>1. Tasks' = Tasks /\ Plan' = Plan /\ (Orchestrated' <=> Orchestrated)
        /\ (Reliable' <=> Reliable)
    BY <1>1 DEF Tasks, Plan, Orchestrated, Reliable, Lapsed
  <2>2. /\ contract \in Runs /\ records \in [Tasks -> Record]
        /\ Accepted(records) \in SUBSET Tasks
    BY DEF EngineInv, Typed, Accepted
  <2>3. /\ Debts' = SavedDebts /\ policy'.accepted = Accepted(records)
        /\ policy'.ready = Loaded(records) /\ policy'.replan = state.replan
        /\ SavedDebts \subseteq Tasks /\ Owed(Plan, Accepted(records)) \subseteq SavedDebts
    BY <1>3, <2>2, RestoredFacts DEF Debts, SavedDebts
  <2>4. Done' = Accepted(records) /\ SavedDebts' = SavedDebts /\ state' = state
    BY <1>1, <1>3, <2>1 DEF Done, SavedDebts, Accepted, durable
  <2>5. AcceptedTogether'
    <3>1. \A t \in Tasks : memory'[t].status \in {"READY", "INTEGRATION_PENDING"}
            => t \in policy'.ready
      BY <1>3, <2>2, <2>3 DEF Loaded
    <3> QED
      BY <2>1, <2>3, <2>4, <3>1 DEF AcceptedTogether
  <2>6. SavedTogether' /\ HandStands' /\ PlacedKept'
    BY <1>3, <2>3, <2>4 DEF SavedTogether, HandStands, PlacedKept, InProgress, Saving
  <2>7. ASSUME Reliable PROVE FlightStands'
    <3>1. FlightStands
      BY <2>7 DEF PolicyInv
    <3> QED
      BY <1>1, <2>1, <3>1 DEF FlightStands, Flying, Claims, SavedDebts, Accepted, durable
  <2> QED
    BY <2>1, <2>5, <2>6, <2>7 DEF PolicyInv
<1> QED
  BY <1>2, <1>3 DEF Resume, Exit, Goto
(* The policy may have reached the disk with the records, or not.          *)
LEMMA SavedPolicy ==
  ASSUME EngineInv, PolicyInv, pc = "save",
         UNCHANGED <<contract, lapses, inbox, target, memory, policy, current>>,
         \/ pc' = cont[1] /\ records' = memory /\ state' = DurableState(policy)
         \/ /\ cont[2] # "exit" /\ pc' = cont[2]
            /\ \/ records' = memory /\ state' = DurableState(policy)
               \/ records' = records /\ state' = state
  PROVE  PolicyInv'
<1>1. /\ cont[1] \in Saved /\ cont[2] \in {"exit", "failing", "reconcile"}
      /\ cont[2] # "exit" <=> cont[1] \in Retryable
      /\ \A S : Saving(S) <=> cont[1] \in S
  BY DEF EngineInv, Typed, Saving
<1>2. /\ pc' \in Saved \cup {"failing", "reconcile"}
      /\ pc' \in {"failing", "reconcile"} \/ records' # memory => cont[1] \in Retryable
      /\ pc' \notin {"save", "deliver", "down"}
  BY <1>1 DEF Saved, Retryable
<1>3. Tasks' = Tasks /\ Plan' = Plan /\ (Orchestrated' <=> Orchestrated)
      /\ (Reliable' <=> Reliable) /\ Task' = Task
  BY DEF Tasks, Plan, Orchestrated, Reliable, Lapsed, Task
<1>4. PlacedKept'
  <2> SUFFICES ASSUME pc' = "reconcile" PROVE ~Placed(records[Task], target)'
    BY <1>2 DEF PlacedKept, Saving
  <2>1. Saving(Retryable)
    BY <1>1, <1>2
  <2>2. InHand /\ Unsaved /\ InFlight
    BY <2>1 DEF InHand, Unsaved, InFlight, Saving, Saved, Retryable
  <2>3. Task \in Tasks /\ Attempt \in Nat
    BY <2>2, HandFacts DEF EngineInv
  <2>4. /\ Lacks(target, Task, Attempt) /\ Attempt = memory[Task].attempts + 1
        /\ Attempt = records[Task].attempts + 1
    BY <2>1, <2>2 DEF EngineInv, CurrentKnown
  <2>5. ASSUME NEW rec \in {memory[Task], records[Task]} PROVE ~Placed(rec, target)
    <3>1. /\ rec \in Record /\ target \in Histories /\ Task \in Nat
          /\ PendingKnown(contract.mode, inbox, Task, rec)
      BY <2>3, RecordFacts DEF SoundRecord
    <3> QED
      BY <2>3, <2>4, <3>1, NotPlaced
  <2> QED
    BY <1>3, <2>5 DEF Placed
<1> SUFFICES ASSUME Reliable
             PROVE  FlightStands' /\ AcceptedTogether' /\ SavedTogether' /\ HandStands'
  BY <1>3, <1>4 DEF PolicyInv
<1>5. FlightStands /\ AcceptedTogether /\ SavedTogether
  BY DEF PolicyInv
<1>6. Done' = Done /\ Debts' = Debts
  BY <1>2, <1>3 DEF Done, Debts, Accepted
<1>7. AcceptedTogether'
  <2>1. (Refused' <=> Refused) /\ Owed(Plan, Done)' = Owed(Plan, Done)
    BY <1>3, <1>6 DEF Refused
  <2> QED
    BY <1>3, <1>5, <1>6, <2>1 DEF AcceptedTogether
<1>8. FlightStands' /\ SavedDebts' = Debts /\ (state'.replan <=> policy.replan)
  <2>1. CASE records' = memory /\ state' = DurableState(policy)
    BY <2>1, FlightSaved
  <2>2. CASE records' = records /\ state' = state /\ cont[1] \in Retryable
    <3>1. SavedDebts' = SavedDebts
      BY <1>3, <2>2 DEF SavedDebts, Accepted
    <3>2. Debts = SavedDebts /\ (policy.replan <=> state.replan)
      BY <1>1, <1>5, <2>2 DEF SavedTogether, Retryable
    <3>3. FlightStands'
      BY <1>3, <1>5, <2>2, <3>1 DEF FlightStands, Flying, Claims, Accepted
    <3> QED
      BY <2>2, <3>1, <3>2, <3>3
  <2> QED
    BY <1>1, <2>1, <2>2
<1>9. SavedTogether'
  BY <1>6, <1>8 DEF SavedTogether
<1>10. HandStands'
  BY <1>2 DEF HandStands, InProgress, Saved, Retryable
<1> QED
  BY <1>7, <1>8, <1>9, <1>10

LEMMA PersistPolicy ==
  ASSUME EngineInv, PolicyInv, Persist \/ PersistFails
  PROVE  PolicyInv'
<1>1. CASE Persist
  BY <1>1, SavedPolicy DEF Persist, engine, Goto
<1>2. CASE PersistFails
  <2>1. /\ pc = "save" /\ UNCHANGED <<contract, lapses, inbox, target>>
        /\ \/ records' = memory /\ state' = DurableState(policy)
           \/ records' = records /\ state' = state
    BY <1>2 DEF PersistFails
  <2>2. CASE Idle
    BY <2>1, <2>2, ExitPolicy DEF Idle
  <2>3. CASE cont[2] # "exit" /\ pc' = cont[2] /\ UNCHANGED <<memory, policy, current>>
    BY <2>1, <2>3, SavedPolicy
  <2> QED
    BY <1>2, <2>2, <2>3 DEF PersistFails, Exit, Goto
<1> QED
  BY <1>1, <1>2

(* The policy and the records stay; the target stays unless the engine     *)
(* moves it.                                                               *)
LEMMA QuietPolicy ==
  ASSUME EngineInv, PolicyInv, UNCHANGED <<contract, records, state, inbox, policy, memory>>,
         Lapsed("lost")' <=> Lapsed("lost"),
         pc \notin {"down", "deliver", "save"}, pc' \notin {"down", "deliver", "save"},
         Reliable => HandStands',
         pc' = "reconcile" => \/ ~Placed(records[Task'], target') \/ Plan[Task'].class = "enabler"
                             \/ <<"refused", Task', Attempt'>> \in lapses'
  PROVE  PolicyInv'
<1>1. PlacedKept'
  <2>1. Placed(records[Task], target)' <=> Placed(records[Task'], target')
    BY DEF Placed
  <2>2. Plan' = Plan
    BY DEF Plan
  <2> QED
    BY <2>1, <2>2 DEF PlacedKept, Saving
<1>2. ~Saving({"choose", "retire"}) /\ memory \in [Tasks -> Record]
  BY DEF Saving, EngineInv, Typed
<1> QED
  BY <1>1, <1>2, SamePolicy

(* What is tested but not swapped in is not in place.                      *)
LEMMA HandNotPlaced ==
  ASSUME EngineInv, pc \in {"apply", "swap"} \/ (pc = "failing" /\ ~InPlace(memory, Task))
  PROVE  ~Placed(records[Task], target)
<1>1. /\ Task \in Tasks /\ Attempt \in Nat /\ Attempt = records[Task].attempts + 1
  BY AttemptFacts DEF Handling
<1>2. CASE memory[Task] = records[Task] /\ pc = "failing"
  BY <1>2 DEF Placed, InPlace
<1>3. CASE pc \in {"apply", "swap"} \/ memory[Task] # records[Task]
  <2>1. Lacks(target, Task, Attempt)
    BY <1>3 DEF EngineInv, CurrentKnown
  <2>2. /\ records[Task] \in Record /\ target \in Histories /\ Task \in Nat
        /\ PendingKnown(contract.mode, inbox, Task, records[Task])
    BY <1>1, RecordFacts DEF SoundRecord
  <2> QED
    BY <1>1, <2>1, <2>2, NotPlaced
<1> QED
  BY <1>2, <1>3
LEMMA WriterPolicy ==
  ASSUME EngineInv, PolicyInv,
         \/ Write \/ WriterFails \/ ReviewFails \/ ColdReviewFails \/ CommitCandidate
         \/ DeliverSolo
  PROVE  PolicyInv'
<1>1. /\ UNCHANGED <<contract, lapses, records, state, inbox, policy, memory, current>>
      /\ pc \in {"writing", "written"}
      /\ pc' \in {"written", "stage", "accept", "failing"}
  BY DEF Write, WriterFails, ReviewFails, ColdReviewFails, AttemptFails, CommitCandidate,
     DeliverSolo, durable, engine, Goto
<1>2. Tasks' = Tasks /\ Plan' = Plan /\ Task' = Task /\ Debts' = Debts
  BY <1>1 DEF Tasks, Plan, Task, Debts
<1>3. ASSUME Reliable PROVE HandStands'
  <2>1. Debts \subseteq {Task} /\ Task \in Tasks \ Done /\ Done = Accepted(records)
        /\ (Task \in policy.ready => policy.accepted = Done)
    BY <1>1, <1>3, HandDebts
  <2>2. ASSUME pc' = "stage" PROVE Claims(Accepted(records), Task)
    <3>1. CommitCandidate
      BY <2>2 DEF Write, WriterFails, ReviewFails, ColdReviewFails, AttemptFails, DeliverSolo, Goto
    <3>2. Claimable(Plan, policy, Task)
      BY <3>1 DEF CommitCandidate, ClaimStands
    <3>3. policy.accepted = Accepted(records)
      BY <2>1, <3>2 DEF Claimable, Ready
    <3> QED
      BY <2>1, <3>2, <3>3 DEF Claims, Claimable, Ready
  <2>3. Claims(Accepted(records), Task) => Claims(Accepted(records), Task)'
    BY <1>1, <1>2 DEF Claims, Accepted
  <2> QED
    BY <1>2, <2>1, <2>2, <2>3 DEF HandStands
<1> QED
  BY <1>1, <1>3, QuietPolicy DEF Lapsed

LEMMA DispatchPolicy ==
  ASSUME EngineInv, PolicyInv, NEW t \in Tasks, Dispatch(t) \/ Refuse(t)
  PROVE  PolicyInv'
<1>1. /\ UNCHANGED <<contract, lapses, records, state, inbox, policy, memory>>
      /\ CanDispatch(t) /\ Task' = t /\ pc' \in {"writing", "failing"}
  BY DEF Dispatch, Refuse, durable, Goto, Task
<1>2. pc \in {"top", "choose"}
  BY <1>1, ChoosingFacts DEF CanDispatch
<1>3. Debts \subseteq {t}
  BY <1>1 DEF CanDispatch, NextTask, Eligible, Debts
<1>4. HandStands'
  BY <1>1, <1>3 DEF HandStands, InProgress, Debts
<1> QED
  BY <1>1, <1>2, <1>4, QuietPolicy DEF Lapsed

LEMMA RecoveryPolicy ==
  ASSUME EngineInv, PolicyInv, NEW t \in Tasks,
         Reapply(t) \/ Ambiguous(t) \/ ResumePending(t)
  PROVE  PolicyInv'
<1>1. /\ UNCHANGED <<contract, records, state, inbox, policy, memory>>
      /\ Lapsed("lost")' <=> Lapsed("lost")
      /\ Pending(t) /\ Task' = t /\ Attempt' = memory[t].integration.attempt /\ pc' \in {"apply", "reconcile", "accept"}
  <2>1. lapses' = lapses \/ lapses' = lapses \cup {<<"refused", t, memory[t].integration.attempt>>}
    BY DEF Reapply, Ambiguous, ResumePending, Lapses
  <2>2. Lapsed("lost")' <=> Lapsed("lost")
    BY <2>1 DEF Lapsed
  <2> QED
    BY <2>2 DEF Reapply, Ambiguous, ResumePending, durable, Goto, Task, Attempt
<1>2. /\ pc \in {"top", "recover"} /\ Orchestrated /\ memory[t] = records[t]
  BY <1>1, PendingFacts
<1>3. HandStands'
  BY <1>1, <1>2 DEF HandStands, InProgress, Orchestrated
<1>4. ASSUME pc' = "reconcile"
      PROVE  ~Placed(records[t], target') \/ <<"refused", t, Attempt'>> \in lapses'
  <2>1. CASE Ambiguous(t)
    BY <1>1, <1>2, <2>1 DEF Ambiguous, Lapses, Placed, InPlace, durable
  <2>2. CASE ResumePending(t)
    <3> DEFINE c == Candidate(t, memory[t].attempts + 1)
    <3>1. target' = memory[t].integration.before /\ InPlace(memory, t)
      BY <1>4, <2>2 DEF ResumePending, Goto
    <3>2. target = Append(target', c) /\ target' \in Histories /\ c \in Commits
      BY <1>2, <3>1, InPlaceFacts, CandidateFacts
    <3> HIDE DEF c
    <3>3. target # target'
      BY <3>2, Appended
    <3> QED
      BY <1>2, <3>1, <3>3 DEF Placed, InPlace
  <2>3. CASE Reapply(t)
    BY <1>4, <2>3 DEF Reapply, Goto
  <2> QED
    BY <2>1, <2>2, <2>3
<1> QED
  BY <1>1, <1>2, <1>3, <1>4, QuietPolicy

LEMMA IntegrationPolicy ==
  ASSUME EngineInv, PolicyInv, IntegrationFails \/ Swap \/ Refresh \/ Undo \/ InboxFails
  PROVE  PolicyInv'
<1>1. /\ UNCHANGED <<contract, records, state, inbox, policy, memory, current>>
      /\ pc \in {"apply", "swap", "refresh", "stage", "deliver"}
      /\ pc' \in {"failing", "reconcile", "refresh", "accept"}
      /\ pc # "deliver" => lapses' = lapses
      /\ pc = "deliver" => pc' = "failing" /\ Lapses(Task, "lost", Attempt)
  BY DEF IntegrationFails, Swap, Refresh, Undo, InboxFails, Fails, durable, engine, Goto
<1>2. Task' = Task /\ (Orchestrated' <=> Orchestrated)
  BY <1>1 DEF Task, Orchestrated
<1>3. CASE pc = "deliver"
  <2>1. ~Reliable' /\ pc' = "failing"
    <3>1. ~Orchestrated'
      BY <1>2, <1>3 DEF EngineInv, CurrentKnown
    <3>2. <<"lost", Task, Attempt>> \in lapses'
      BY <1>1, <1>3 DEF Lapses
    <3> QED
      BY <1>1, <1>3, <3>1, <3>2 DEF Reliable, Lapsed
  <2> QED
    BY <1>2, <2>1 DEF PolicyInv, PlacedKept, Saving
<1>4. CASE pc # "deliver"
  <2>1. HandStands'
    <3>1. pc' = "accept" => Orchestrated
      <4> SUFFICES ASSUME pc' = "accept" PROVE Orchestrated
        OBVIOUS
      <4>1. pc = "refresh" /\ InPlace(memory, Task)
        BY DEF IntegrationFails, Swap, Refresh, Undo, InboxFails, Fails, Goto
      <4>2. Task \in Tasks
        BY <4>1, AttemptFacts DEF Handling
      <4> QED
        BY <4>1, <4>2, InPlaceFacts
    <3> QED
      BY <1>1, <1>2, <3>1 DEF HandStands, InProgress
  <2>2. ASSUME pc' = "reconcile" PROVE ~Placed(records[Task], target')
    <3>1. CASE IntegrationFails
      <4>1. target' = target /\ pc \in {"apply", "swap"}
        BY <3>1 DEF IntegrationFails, durable
      <4> QED
        BY <4>1, HandNotPlaced
    <3>2. CASE Undo
      <4>1. pc = "refresh"
        BY <3>2 DEF Undo
      <4>2. Task \in Tasks /\ memory[Task] = records[Task]
        BY <4>1, AttemptFacts, Synced DEF Handling
      <4>3. CASE ~InPlace(memory, Task)
        BY <3>2, <4>2, <4>3 DEF Undo, Placed, InPlace
      <4>4. CASE InPlace(memory, Task)
        <5> DEFINE c == Candidate(Task, memory[Task].attempts + 1)
        <5>1. target' = memory[Task].integration.before
          BY <3>2, <4>4 DEF Undo
        <5>2. target = Append(target', c) /\ target' \in Histories /\ c \in Commits
          BY <4>1, <4>2, <4>4, <5>1, InPlaceFacts, CandidateFacts
        <5> HIDE DEF c
        <5>3. target # target'
          BY <5>2, Appended
        <5> QED
          BY <4>2, <4>4, <5>3 DEF Placed, InPlace
      <4> QED
        BY <4>3, <4>4
    <3>3. CASE Swap \/ Refresh \/ InboxFails
      BY <2>2, <3>3 DEF Swap, Refresh, InboxFails, Goto
    <3> QED
      BY <3>1, <3>2, <3>3
  <2> QED
    BY <1>1, <1>2, <1>4, <2>1, <2>2, QuietPolicy DEF Lapsed
<1> QED
  BY <1>3, <1>4
(* What accepting a task makes of the policy.                              *)
LEMMA RecordedFacts ==
  ASSUME contract \in Runs, NEW A \in SUBSET Tasks, NEW p, NEW t \in Tasks \ A,
         ~SecondEnabler(Plan, p, t),
         p.debt # None => p.debt \in Tasks,
         Owed(Plan, A) \subseteq (IF p.debt = None THEN {} ELSE {p.debt}),
         NEW q, q = Recorded(Plan, p, t)
  PROVE  /\ q.accepted = p.accepted \cup {t} /\ q.ready = p.ready \ {t}
         /\ q.debt # None => q.debt \in Tasks
         /\ Owed(Plan, A \cup {t}) \subseteq (IF q.debt = None THEN {} ELSE {q.debt})
<1>1. /\ q.accepted = p.accepted \cup {t} /\ q.ready = p.ready \ {t}
      /\ Plan[t].class = "enabler" =>
            q.debt = IF Plan[t].unblocks = t THEN None ELSE Plan[t].unblocks
      /\ Plan[t].class # "enabler" => q.debt = IF p.debt = t THEN None ELSE p.debt
  BY DEF Recorded, SecondEnabler
<1>2. Plan[t].class = "enabler" => p.debt = None /\ Plan[t].unblocks \in Tasks
  BY OwedFacts DEF SecondEnabler
<1>3. None \notin Tasks
  BY PlanFacts
<1>4. Owed(Plan, A \cup {t}) \subseteq
        (Owed(Plan, A) \cup (IF Plan[t].class = "enabler" THEN {Plan[t].unblocks} ELSE {})) \ {t}
  BY DEF Owed, OfClass
<1>5. CASE Plan[t].class = "enabler"
  BY <1>1, <1>2, <1>3, <1>4, <1>5
<1>6. CASE Plan[t].class # "enabler"
  BY <1>1, <1>3, <1>4, <1>6
<1> QED
  BY <1>5, <1>6

(* What _finalize_acceptance adds to what is accepted.                     *)
LEMMA FinalizedAdds ==
  ASSUME EngineInv, Task \in Tasks, memory' = Finalized(Task, Attempt)
  PROVE  /\ Accepted(memory') = Accepted(memory) \cup {Task}
         /\ \A t \in Tasks \ {Task} : memory'[t] = memory[t]
<1>1. memory \in [Tasks -> Record] /\ memory[Task] \in Record
  BY DEF EngineInv, Typed
<1>2. memory' = [memory EXCEPT ![Task] =
                    [memory[Task] EXCEPT !.status = "ACCEPTED", !.attempts = Attempt]]
  BY DEF Finalized
<1>3. /\ DOMAIN memory' = Tasks /\ memory'[Task].status = "ACCEPTED"
      /\ \A t \in Tasks \ {Task} : memory'[t] = memory[t]
  BY <1>1, <1>2 DEF Record
<1> QED
  BY <1>1, <1>3 DEF Accepted

LEMMA AcceptedAdds ==
  ASSUME EngineInv, Accept
  PROVE  Done' = Done \cup {Task}
<1>1. pc = "accept" /\ current' = current /\ Task \in Tasks
  BY AttemptFacts DEF Accept, Handling
<1>2. CASE Orchestrated
  <2>1. memory' = Finalized(Task, Attempt) /\ pc' = "save"
    BY <1>2 DEF Accept, Save
  <2> QED
    BY <1>1, <2>1, FinalizedAdds DEF Done, Accepted
<1>3. CASE ~Orchestrated
  <2>1. memory' = memory /\ pc' = "deliver"
    BY <1>3 DEF Accept, Goto
  <2> QED
    BY <1>1, <2>1 DEF Done, Accepted, Task
<1> QED
  BY <1>2, <1>3

LEMMA AcceptPolicy ==
  ASSUME EngineInv, PolicyInv, Accept
  PROVE  PolicyInv'
<1>1. /\ pc = "accept" /\ policy' = Recorded(Plan, policy, Task)
      /\ Claimable(Plan, policy, Task) /\ ~SecondEnabler(Plan, policy, Task)
      /\ UNCHANGED <<contract, records, state, inbox, target, current>>
      /\ Lapsed("lost")' <=> Lapsed("lost")
  <2>1. lapses' = lapses \/ lapses' = lapses \cup {<<"late", Task, Attempt>>}
    BY DEF Accept, Lapses
  <2>2. Lapsed("lost")' <=> Lapsed("lost")
    BY <2>1 DEF Lapsed
  <2> QED
    BY <2>2 DEF Accept, durable
<1>2. Tasks' = Tasks /\ Plan' = Plan /\ (Orchestrated' <=> Orchestrated)
      /\ (Reliable' <=> Reliable) /\ Task' = Task
  BY <1>1 DEF Tasks, Plan, Orchestrated, Reliable, Task
<1>3. \/ Orchestrated /\ memory' = Finalized(Task, Attempt) /\ pc' = "save" /\ cont'[1] = "retire"
      \/ ~Orchestrated /\ memory' = memory /\ pc' = "deliver"
  BY DEF Accept, Save, Goto
<1>4. PlacedKept'
  BY <1>3 DEF PlacedKept, Saving
<1> SUFFICES ASSUME Reliable
             PROVE  FlightStands' /\ AcceptedTogether' /\ SavedTogether' /\ HandStands'
  BY <1>2, <1>4 DEF PolicyInv
<1>5. /\ Debts \subseteq {Task} /\ Task \in Tasks \ Done /\ Done = Accepted(memory)
      /\ policy.accepted = Done
      /\ FlightStands /\ AcceptedTogether
  BY <1>1, HandDebts DEF Claimable, Ready
<1>6. memory \in [Tasks -> Record] /\ contract \in Runs /\ Done \in SUBSET Tasks
  BY <1>5 DEF EngineInv, Typed, Accepted
<1>7. Done' = Done \cup {Task}
  BY AcceptedAdds
<1>8. /\ policy'.accepted = policy.accepted \cup {Task} /\ policy'.ready = policy.ready \ {Task}
      /\ policy'.debt # None => policy'.debt \in Tasks
      /\ Owed(Plan, Done \cup {Task}) \subseteq Debts'
  <2>1. policy.debt # None => policy.debt \in Tasks
    BY <1>5 DEF Debts
  <2>2. Owed(Plan, Done) \subseteq (IF policy.debt = None THEN {} ELSE {policy.debt})
    BY <1>5 DEF AcceptedTogether, Debts
  <2> QED
    BY <1>1, <1>5, <1>6, <2>1, <2>2, RecordedFacts DEF Debts
<1>9. AcceptedTogether'
  <2>1. \A t \in Tasks \ {Task} : memory'[t] = memory[t]
    BY <1>3, <1>6 DEF Finalized
  <2>2. \A t \in Tasks \ policy'.accepted :
          memory'[t].status \in {"READY", "INTEGRATION_PENDING"} => t \in policy'.ready
    BY <1>5, <1>8, <2>1 DEF AcceptedTogether
  <2>3. Debts' \subseteq Tasks /\ policy'.accepted = Done'
    BY <1>5, <1>7, <1>8 DEF Debts
  <2> QED
    BY <1>2, <1>7, <1>8, <2>2, <2>3 DEF AcceptedTogether
<1>10. FlightStands'
  BY <1>1, <1>2, <1>5 DEF FlightStands, Flying, Claims, SavedDebts, Accepted
<1>11. SavedTogether' /\ HandStands'
  BY <1>3 DEF SavedTogether, HandStands, InProgress, Saving
<1> QED
  BY <1>9, <1>10, <1>11
LEMMA AcceptRaisesPolicy ==
  ASSUME EngineInv, PolicyInv, AcceptRaises
  PROVE  PolicyInv'
<1>1. /\ pc = "accept" /\ pc' = (IF recovering THEN "reconcile" ELSE "failing")
      /\ UNCHANGED <<contract, lapses, records, state, inbox, target, memory, current>>
  BY DEF AcceptRaises, Fails, durable, Goto
<1>2. Tasks' = Tasks /\ Plan' = Plan /\ (Orchestrated' <=> Orchestrated)
      /\ (Reliable' <=> Reliable) /\ Task' = Task
  BY <1>1 DEF Tasks, Plan, Orchestrated, Reliable, Lapsed, Task
<1>3. HandStands'
  BY <1>1 DEF HandStands, InProgress
<1>4. recovering => Orchestrated /\ Reliable
  BY <1>1 DEF EngineInv, CurrentKnown, InProgress, Reliable
<1>5. CASE ~Claimable(Plan, policy, Task) /\ UNCHANGED policy
  <2>1. ASSUME recovering PROVE Plan[Task].class = "enabler"
    <3>1. /\ Debts \subseteq {Task} /\ Task \in Tasks \ Done /\ Done = Accepted(records)
          /\ memory[Task].status \in {"READY", "INTEGRATION_PENDING"}
          /\ Claims(Accepted(records), Task) /\ AcceptedTogether
      BY <1>1, <1>4, <2>1, HandDebts
    <3>2. CASE Refused
      <4>1. None \notin Tasks
        BY PlanFacts DEF EngineInv, Typed
      <4> QED
        BY <3>1, <3>2, <4>1 DEF Refused, Debts
    <3>3. CASE policy.accepted = Done
      <4>1. Task \in policy.ready
        BY <3>1, <3>3 DEF AcceptedTogether
      <4>2. Claimable(Plan, policy, Task)
        BY <3>1, <3>3, <4>1 DEF Claims, Claimable, Ready
      <4> QED
        BY <1>5, <4>2
    <3> QED
      BY <3>1, <3>2, <3>3 DEF AcceptedTogether
  <2> QED
    BY <1>1, <1>2, <1>3, <1>5, <2>1, QuietPolicy DEF Lapsed
<1>6. CASE /\ Claimable(Plan, policy, Task) /\ SecondEnabler(Plan, policy, Task)
           /\ policy' = Recorded(Plan, policy, Task)
  <2>1. Plan[Task].class = "enabler" /\ policy.debt # None
    BY <1>6 DEF SecondEnabler
  <2>2. /\ policy'.accepted = policy.accepted \cup {Task}
        /\ policy'.ready = policy.ready \ {Task}
        /\ policy'.debt = policy.debt
    BY <1>6, <2>1 DEF Recorded, SecondEnabler
  <2>3. policy'.replan <=> policy.replan
    BY <1>6 DEF Recorded, SecondEnabler
  <2>4. PlacedKept'
    BY <1>1, <1>2, <2>1 DEF PlacedKept, Saving
  <2> SUFFICES ASSUME Reliable
               PROVE  FlightStands' /\ AcceptedTogether' /\ SavedTogether'
    BY <1>2, <1>3, <2>4 DEF PolicyInv
  <2>5. /\ Debts \subseteq {Task} /\ Task \in Tasks \ Done /\ Done = Accepted(memory)
        /\ policy.accepted = Done /\ FlightStands /\ AcceptedTogether /\ SavedTogether
    BY <1>1, <1>6, HandDebts DEF Claimable, Ready
  <2>6. policy.debt = Task
    BY <2>1, <2>5 DEF Debts
  <2>7. Done' = Done /\ Debts' = Debts /\ SavedDebts' = SavedDebts
    BY <1>1, <1>2, <2>2, <2>5 DEF Done, Debts, SavedDebts, Accepted
  <2>8. Refused'
    BY <1>2, <2>1, <2>2, <2>5, <2>6, <2>7 DEF Refused
  <2>9. Owed(Plan, Done)' = Owed(Plan, Done)
    BY <1>2, <2>7
  <2>10. AcceptedTogether'
    BY <1>1, <1>2, <2>2, <2>5, <2>7, <2>8, <2>9 DEF AcceptedTogether
  <2>11. FlightStands'
    BY <1>1, <1>2, <2>5, <2>7 DEF FlightStands, Flying, Claims, Accepted
  <2>12. SavedTogether'
    <3>1. Debts = SavedDebts /\ (policy.replan <=> state.replan)
      BY <1>1, <2>5 DEF SavedTogether, Saving
    <3> QED
      BY <1>1, <2>3, <2>7, <3>1 DEF SavedTogether
  <2> QED
    BY <2>10, <2>11, <2>12
<1> QED
  BY <1>5, <1>6 DEF AcceptRaises

(* A new record of a task that is accepted neither before nor after.       *)
LEMMA RecordPolicy ==
  ASSUME EngineInv, PolicyInv,
         UNCHANGED <<contract, records, state, inbox, policy>>, target' = target,
         Lapsed("lost")' <=> Lapsed("lost"),
         NEW t \in Tasks, NEW rec \in Record, memory' = [memory EXCEPT ![t] = rec],
         memory[t].status \in {"READY", "INTEGRATION_PENDING"}, rec.status # "ACCEPTED",
         pc \notin {"down", "deliver", "save"}, pc' = "save", Task' = t,
         cont'[1] \in {"blocked", "retry"} =>
             \/ ~Placed(records[t], target) \/ Plan[t].class = "enabler"
             \/ <<"refused", t, Attempt'>> \in lapses'
  PROVE  PolicyInv'
<1>1. memory \in [Tasks -> Record]
  BY DEF EngineInv, Typed
<1>2. memory' \in [Tasks -> Record] /\ memory'[t] = rec
      /\ \A u \in Tasks \ {t} : memory'[u] = memory[u]
  BY <1>1
<1>3. HandStands' /\ ~Saving({"choose", "retire"})
  BY DEF HandStands, InProgress, Saving
<1>4. PlacedKept'
  <2>1. Plan' = Plan
    BY DEF Plan
  <2>2. Placed(records[Task], target)' <=> Placed(records[t], target)
    BY DEF Placed
  <2> QED
    BY <2>1, <2>2 DEF PlacedKept, Saving
<1> QED
  BY <1>2, <1>3, <1>4, SamePolicy

(* The record of a task that is not accepted changes to another such one.  *)
LEMMA RecordChanges ==
  ASSUME EngineInv, Reconcile \/ TestsPass \/ Fail \/ Stage \/ \E t \in Tasks : Adopt(t)
  PROVE  \E t, rec :
            /\ t \in Tasks /\ memory' = [memory EXCEPT ![t] = rec]
            /\ memory[t].status \in {"READY", "INTEGRATION_PENDING"} /\ rec.status # "ACCEPTED"
            /\ t = Task' /\ (Adopt(t) \/ t = Task)
<1>1. memory \in [Tasks -> Record]
  BY DEF EngineInv, Typed
<1>2. ASSUME NEW t \in Tasks, Adopt(t)
      PROVE  /\ memory[t].status = "READY" /\ t = Task'
             /\ \E rec : memory' = [memory EXCEPT ![t] = rec] /\ rec.status # "ACCEPTED"
  <2> DEFINE k == memory[t].attempts + 1
             staged == [memory[t] EXCEPT !.status = "INTEGRATION_PENDING",
                                         !.integration = Intent(k, inbox[<<t, k>>])]
             blocked == [memory[t] EXCEPT !.status = "BLOCKED"]
  <2>1. staged.status = "INTEGRATION_PENDING" /\ blocked.status = "BLOCKED"
    BY <1>1 DEF Record
  <2>2. /\ memory[t].status = "READY" /\ t = Task'
        /\ memory' = [memory EXCEPT ![t] = staged] \/ memory' = [memory EXCEPT ![t] = blocked]
    BY <1>2 DEF Adopt, Orphan, Task
  <2> HIDE DEF staged, blocked
  <2> QED
    BY <2>1, <2>2
<1> SUFFICES ASSUME Reconcile \/ TestsPass \/ Fail \/ Stage
             PROVE  /\ Task \in Tasks /\ Task' = Task
                    /\ memory[Task].status \in {"READY", "INTEGRATION_PENDING"}
                    /\ \E rec : /\ memory' = [memory EXCEPT ![Task] = rec]
                                /\ rec.status # "ACCEPTED"
  BY <1>2
<1>3. pc \in {"reconcile", "apply", "failing", "stage"} /\ Task' = Task
  BY DEF Reconcile, TestsPass, Fail, Stage, Task
<1>4. /\ Task \in Tasks /\ memory[Task] \in Record
      /\ memory[Task].status \in {"READY", "INTEGRATION_PENDING"}
  BY <1>1, <1>3, AttemptFacts DEF Handling
<1>5. CASE Reconcile
  <2> DEFINE r == [memory[Task] EXCEPT !.status = "BLOCKED"]
  <2>1. memory' = [memory EXCEPT ![Task] = r] /\ r.status = "BLOCKED"
    BY <1>4, <1>5 DEF Reconcile, Record
  <2> HIDE DEF r
  <2> QED
    BY <1>3, <1>4, <2>1
<1>6. CASE Fail
  <2> DEFINE spent == memory[Task].attempts + 1
             r == [status |-> IF spent >= budget.attempts THEN "BLOCKED" ELSE "READY",
                   attempts |-> spent, integration |-> None]
  <2>1. memory' = [memory EXCEPT ![Task] = r] /\ r.status # "ACCEPTED"
    BY <1>6 DEF Fail
  <2> HIDE DEF r
  <2> QED
    BY <1>3, <1>4, <2>1
<1>7. CASE TestsPass
  <2> DEFINE p == Append(target, CandidateOf(Task))
             r == [memory[Task] EXCEPT !.integration =
                      [memory[Task].integration EXCEPT !.prepared = p]]
  <2>1. memory' = [memory EXCEPT ![Task] = r]
    BY <1>7 DEF TestsPass
  <2>2. r.status = memory[Task].status
    BY <1>4 DEF Record
  <2> HIDE DEF r
  <2> QED
    BY <1>3, <1>4, <2>1, <2>2
<1>8. CASE Stage
  <2> DEFINE r == [memory[Task] EXCEPT !.status = "INTEGRATION_PENDING",
                                       !.integration = Intent(Attempt, target)]
  <2>1. memory' = [memory EXCEPT ![Task] = r] /\ r.status = "INTEGRATION_PENDING"
    BY <1>4, <1>8 DEF Stage, Record
  <2> HIDE DEF r
  <2> QED
    BY <1>3, <1>4, <2>1
<1> QED
  BY <1>5, <1>6, <1>7, <1>8

LEMMA MemoryPolicy ==
  ASSUME EngineInv, PolicyInv, EngineInv',
         Reconcile \/ TestsPass \/ Fail \/ \E t \in Tasks : Adopt(t)
  PROVE  PolicyInv'
<1>1. /\ UNCHANGED <<contract, records, state, inbox, policy>> /\ target' = target
      /\ Lapsed("lost")' <=> Lapsed("lost")
      /\ pc \in {"reconcile", "apply", "failing", "top"} /\ pc' = "save"
  <2>1. lapses' = lapses \/ lapses' = lapses \cup {<<"refused", Task, Attempt>>}
    BY DEF Reconcile, TestsPass, Fail, Adopt, Lapses
  <2>2. Lapsed("lost")' <=> Lapsed("lost")
    BY <2>1 DEF Lapsed
  <2> QED
    BY <2>2 DEF Reconcile, TestsPass, Fail, Adopt, Stepping, Save, durable
<1>2. PICK t, rec :
           /\ t \in Tasks /\ memory' = [memory EXCEPT ![t] = rec]
           /\ memory[t].status \in {"READY", "INTEGRATION_PENDING"} /\ rec.status # "ACCEPTED"
           /\ t = Task' /\ (Adopt(t) \/ t = Task)
  BY RecordChanges
<1>3. rec \in Record
  <2>1. memory \in [Tasks -> Record] /\ memory' \in [Tasks' -> Record] /\ Tasks' = Tasks
    BY <1>1 DEF EngineInv, Typed, Tasks, Plan
  <2>2. memory'[t] = rec
    BY <1>2, <2>1
  <2> QED
    BY <1>2, <2>1, <2>2
<1>4. cont'[1] \in {"blocked", "retry"} =>
          \/ ~Placed(records[t], target) \/ Plan[t].class = "enabler"
          \/ <<"refused", t, Attempt'>> \in lapses'
  <2>1. CASE Adopt(t)
    <3>1. memory[t] = records[t] /\ memory[t].status = "READY"
      BY <1>2, <2>1, Synced DEF Adopt, Orphan, Stepping
    <3> QED
      BY <3>1 DEF Placed
  <2>2. CASE Reconcile /\ t = Task
    BY <2>2 DEF Reconcile, PolicyInv, PlacedKept, Attempt
  <2>3. CASE Fail /\ t = Task
    BY <2>3, HandNotPlaced DEF Fail, Lapses, Attempt
  <2>4. CASE TestsPass
    BY <2>4 DEF TestsPass, Save
  <2>5. CASE (\E u \in Tasks : Adopt(u)) /\ ~Adopt(t)
    BY <1>2, <2>5 DEF Adopt, Task
  <2> QED
    BY <1>2, <2>1, <2>2, <2>3, <2>4, <2>5
<1> QED
  BY <1>1, <1>2, <1>3, <1>4, RecordPolicy

LEMMA StagePolicy ==
  ASSUME EngineInv, PolicyInv, Stage \/ DeliverInbox
  PROVE  PolicyInv'
<1>1. /\ UNCHANGED <<contract, lapses, records, state, target, policy, current>>
      /\ pc \in {"stage", "deliver"} /\ pc' = "save" /\ cont'[1] \in {"apply", "retire"}
      /\ inbox' = [inbox EXCEPT ![current] = target]
  BY DEF Stage, DeliverInbox, Save
<1>2. Tasks' = Tasks /\ Plan' = Plan /\ (Orchestrated' <=> Orchestrated)
      /\ (Reliable' <=> Reliable) /\ Task' = Task /\ Debts' = Debts
  BY <1>1 DEF Tasks, Plan, Orchestrated, Reliable, Lapsed, Task, Debts
<1>3. HandStands' /\ PlacedKept'
  BY <1>1 DEF HandStands, PlacedKept, InProgress, Saving
<1>4. /\ current = <<Task, Attempt>> /\ Task \in Tasks /\ Attempt \in 1..MaxAttempts
      /\ \A t \in Tasks \ {Task} : memory[t] = records[t] /\ ~Flying(t)
      /\ memory[Task].status \in {"READY", "INTEGRATION_PENDING"}
  BY <1>1, AttemptFacts DEF Handling
<1>5. /\ memory \in [Tasks -> Record] /\ memory[Task] \in Record
      /\ inbox \in [Attempts(Plan) -> Histories \cup {None}]
  BY <1>4 DEF EngineInv, Typed
<1>6. CASE Stage
  <2>1. pc = "stage" /\ cont'[1] = "apply" /\ Orchestrated
    BY <1>6 DEF Stage, Save, EngineInv, CurrentKnown
  <2> DEFINE rec == [memory[Task] EXCEPT !.status = "INTEGRATION_PENDING",
                                         !.integration = Intent(Attempt, target)]
  <2>2. memory' = [memory EXCEPT ![Task] = rec] /\ rec.status = "INTEGRATION_PENDING"
    BY <1>5, <1>6 DEF Stage, Record
  <2> HIDE DEF rec
  <2>3. memory'[Task].status = "INTEGRATION_PENDING"
        /\ \A t \in Tasks \ {Task} : memory'[t] = memory[t]
    BY <1>4, <1>5, <2>2
  <2>4. ASSUME Reliable PROVE FlightStands'
    <3>1. Claims(Accepted(records), Task) /\ Debts \subseteq {Task} /\ SavedTogether
      BY <2>1, <2>4 DEF PolicyInv, HandStands, InProgress
    <3>2. SavedDebts \subseteq {Task}
      BY <2>1, <3>1 DEF SavedTogether, Saving
    <3>3. ASSUME NEW t \in Tasks, Flying(t)' PROVE t = Task
      <4> SUFFICES ASSUME t # Task PROVE FALSE
        OBVIOUS
      <4>1. \A k \in 1..MaxAttempts : inbox'[<<t, k>>] = inbox[<<t, k>>]
        BY <1>1, <1>4, <1>5 DEF Attempts, Tasks
      <4>2. Flying(t)
        BY <1>1, <3>3, <4>1 DEF Flying, Flies
      <4> QED
        BY <1>4, <4>2
    <3>4. Claims(Accepted(records), Task)' /\ SavedDebts' = SavedDebts
      BY <1>1, <1>2, <3>1 DEF Claims, SavedDebts, Accepted
    <3> QED
      BY <1>2, <3>2, <3>3, <3>4 DEF FlightStands, Claims
  <2>5. memory' \in [Tasks -> Record]
    <3>1. EngineInv'
      BY <1>6, StageStep
    <3> QED
      BY <1>2, <3>1 DEF EngineInv, Typed
  <2>6. ~Saving({"choose", "retire"})
    BY <2>1 DEF Saving
  <2>7. Lapsed("lost")' <=> Lapsed("lost")
    BY <1>1 DEF Lapsed
  <2> QED
    BY <1>1, <1>3, <1>4, <2>1, <2>3, <2>4, <2>5, <2>6, <2>7, SamePolicy
<1>7. CASE DeliverInbox
  <2>1. pc = "deliver" /\ cont'[1] = "retire" /\ ~Orchestrated
        /\ memory' = Finalized(Task, Attempt)
    BY <1>7 DEF DeliverInbox, Save, EngineInv, CurrentKnown
  <2>2. /\ Accepted(memory') = Accepted(memory) \cup {Task}
        /\ \A t \in Tasks \ {Task} : memory'[t] = memory[t]
    BY <1>4, <2>1, FinalizedAdds
  <2>3. Done' = Done /\ memory'[Task].status = "ACCEPTED"
    BY <1>1, <1>2, <2>1, <2>2 DEF Done, Accepted
  <2>4. ASSUME Reliable PROVE AcceptedTogether'
    <3>1. AcceptedTogether
      BY <2>1, <2>4 DEF PolicyInv
    <3>2. (Refused' <=> Refused) /\ Owed(Plan, Done)' = Owed(Plan, Done)
      BY <1>1, <1>2, <2>3 DEF Refused
    <3> QED
      BY <1>1, <1>2, <1>4, <2>2, <2>3, <3>1, <3>2 DEF AcceptedTogether
  <2>5. FlightStands' /\ SavedTogether'
    BY <1>1, <1>2, <2>1 DEF FlightStands, SavedTogether, Saving
  <2> QED
    BY <1>2, <1>3, <2>4, <2>5 DEF PolicyInv
<1> QED
  BY <1>6, <1>7

LEMMA ReplanPolicy ==
  ASSUME EngineInv, PolicyInv, Replan
  PROVE  PolicyInv'
<1>1. /\ UNCHANGED <<contract, lapses, records, state, inbox, target, memory>> /\ Choosing
      /\ pc # "choose" /\ pc' = "save" /\ cont'[1] = "choose"
      /\ policy' = [policy EXCEPT !.replan = FALSE, !.noDelta = 0]
  BY DEF Replan, Replanned, Save, durable
<1>2. pc = "top" /\ policy'.debt = policy.debt /\ policy'.accepted = policy.accepted
      /\ policy'.ready = policy.ready
  BY <1>1, ChoosingFacts
<1>3. Tasks' = Tasks /\ Plan' = Plan /\ (Orchestrated' <=> Orchestrated)
      /\ (Reliable' <=> Reliable) /\ Debts' = Debts /\ Done' = Done /\ SavedDebts' = SavedDebts
  BY <1>1, <1>2 DEF Tasks, Plan, Orchestrated, Reliable, Lapsed, Debts, Done, SavedDebts, Accepted
<1>4. HandStands' /\ PlacedKept' /\ SavedTogether'
  BY <1>1 DEF HandStands, PlacedKept, SavedTogether, InProgress, Saving
<1> SUFFICES ASSUME Reliable PROVE FlightStands' /\ AcceptedTogether'
  BY <1>3, <1>4 DEF PolicyInv
<1>5. FlightStands /\ AcceptedTogether
  BY <1>2 DEF PolicyInv
<1>6. FlightStands'
  BY <1>1, <1>3, <1>5 DEF FlightStands, Flying, Claims, Accepted
<1>7. (Refused' <=> Refused) /\ Owed(Plan, Done)' = Owed(Plan, Done)
  BY <1>1, <1>2, <1>3 DEF Refused
<1>8. AcceptedTogether'
  BY <1>1, <1>2, <1>3, <1>5, <1>7 DEF AcceptedTogether
<1> QED
  BY <1>6, <1>8

LEMMA ForeignCommitPolicy ==
  ASSUME EngineInv, PolicyInv, ForeignCommit
  PROVE  PolicyInv'
<1>1. /\ UNCHANGED <<contract, lapses, records, state, inbox, pc, memory, policy, current, cont>>
      /\ target' = Append(target, Foreign) /\ pc # "down"
  BY DEF ForeignCommit, engine
<1>2. Tasks' = Tasks /\ Plan' = Plan /\ (Orchestrated' <=> Orchestrated)
      /\ (Reliable' <=> Reliable) /\ Task' = Task /\ Debts' = Debts /\ Done' = Done
      /\ SavedDebts' = SavedDebts
  BY <1>1 DEF Tasks, Plan, Orchestrated, Reliable, Lapsed, Task, Debts, Done, SavedDebts, Accepted
<1>3. PlacedKept'
  <2> SUFFICES ASSUME pc = "reconcile" \/ Saving({"blocked", "retry"}),
                      Plan[Task].class # "enabler",
                      <<"refused", Task, Attempt>> \notin lapses
               PROVE  ~Placed(records[Task], target')
    BY <1>1, <1>2 DEF PlacedKept, Saving, Placed, Attempt
  <2>1. InHand
    BY DEF InHand, Saving, Handling, Saved, Retryable
  <2>2. Task \in Tasks
    BY <2>1, HandFacts DEF EngineInv
  <2>3. /\ records[Task] \in Record /\ target \in Histories /\ Task \in Nat
        /\ PendingKnown(contract.mode, inbox, Task, records[Task])
    BY <2>2, RecordFacts DEF SoundRecord
  <2>4. ~Placed(records[Task], target)
    BY DEF PolicyInv, PlacedKept
  <2> QED
    BY <1>1, <2>3, <2>4, NotPlacedAfter
<1> SUFFICES ASSUME Reliable
             PROVE  FlightStands' /\ AcceptedTogether' /\ SavedTogether' /\ HandStands'
  BY <1>2, <1>3 DEF PolicyInv
<1>4. FlightStands /\ AcceptedTogether /\ SavedTogether /\ HandStands
  BY <1>1 DEF PolicyInv
<1>5. FlightStands'
  BY <1>1, <1>2, <1>4 DEF FlightStands, Flying, Claims, Accepted
<1>8. HandStands'
  <2>1. Claims(Accepted(records), Task)' <=> Claims(Accepted(records), Task)
    BY <1>1, <1>2 DEF Claims, Accepted
  <2>2. InProgress' <=> InProgress
    BY <1>1, <1>2 DEF InProgress
  <2> QED
    BY <1>1, <1>2, <1>4, <2>1, <2>2 DEF HandStands
<1>6. (Refused' <=> Refused) /\ Owed(Plan, Done)' = Owed(Plan, Done)
  BY <1>1, <1>2 DEF Refused
<1>7. AcceptedTogether' /\ SavedTogether'
  BY <1>1, <1>2, <1>4, <1>6 DEF AcceptedTogether, SavedTogether, Saving
<1> QED
  BY <1>5, <1>7, <1>8

LEMMA LoopPolicy ==
  ASSUME EngineInv, PolicyInv,
         \/ BudgetEnds \/ GiveUp \/ NothingToDo \/ Crash \/ Retire \/ LeaveToRecovery
         \/ (\E t \in Tasks : Exhausted(t)) \/ (\E s \in Signatures : Retry(s))
  PROVE  PolicyInv'
<1>1. /\ UNCHANGED <<contract, lapses, records, state, inbox>>
  BY DEF BudgetEnds, GiveUp, NothingToDo, Crash, Retire, LeaveToRecovery, Exhausted, Retry,
     durable
<1>2. CASE Idle
  BY <1>1, <1>2, ExitPolicy DEF Idle
<1>3. CASE /\ pc' = "top" /\ UNCHANGED <<memory, policy>>
           /\ pc \in {"retire", "failing", "retry"}
  <2>1. HandStands'
    BY <1>3 DEF HandStands, InProgress
  <2> QED
    BY <1>1, <1>3, <2>1, QuietPolicy DEF Lapsed
<1> QED
  BY <1>2, <1>3 DEF BudgetEnds, GiveUp, NothingToDo, Crash, Retire, NoteFails, LeaveToRecovery,
     Exhausted, Retry, Exit, Goto

LEMMA PolicyNext ==
  ASSUME EngineInv, PolicyInv, [Next]_vars
  PROVE  PolicyInv'
<1>1. CASE \E b \in BudgetChoices : Resume(b)
  BY <1>1, ResumePolicy
<1>2. CASE Crash \/ ForeignCommit
  BY <1>2, LoopPolicy, ForeignCommitPolicy
<1>3. ASSUME NEW t \in Tasks, StepOf(t) PROVE PolicyInv'
  <2>1. CASE Exhausted(t)
    BY <2>1, LoopPolicy
  <2>2. CASE Adopt(t)
    BY <2>2, AdoptStep, MemoryPolicy
  <2> QED
    BY <1>3, <2>1, <2>2, RecoveryPolicy, DispatchPolicy DEF StepOf
<1>4. CASE \/ BudgetEnds \/ GiveUp \/ NothingToDo \/ Retire \/ LeaveToRecovery
           \/ \E s \in Signatures : Retry(s)
  BY <1>4, LoopPolicy
<1>5. CASE \/ Write \/ WriterFails \/ ReviewFails \/ ColdReviewFails \/ CommitCandidate
           \/ DeliverSolo
  BY <1>5, WriterPolicy
<1>6. CASE IntegrationFails \/ Swap \/ Refresh \/ Undo \/ InboxFails
  BY <1>6, IntegrationPolicy
<1>7. CASE Reconcile \/ TestsPass \/ Fail
  BY <1>7, MemoryPolicy, ReconcileStep, TestsPassStep, FailStep
<1>8. CASE Stage \/ DeliverInbox \/ Accept \/ AcceptRaises \/ Replan \/ Persist \/ PersistFails
  BY <1>8, StagePolicy, AcceptPolicy, AcceptRaisesPolicy, ReplanPolicy, PersistPolicy
<1>9. CASE UNCHANGED vars \/ Disturb \/ Tidy
  <2>0. UNCHANGED <<contract, lapses, records, state, inbox, target, memory, policy, current,
                    cont, pc>>
    BY <1>9 DEF Disturb, Tidy, vars, durable, engine
  <2>1. PolicyInv' <=> PolicyInv
    BY <2>0 DEF PolicyInv, Reliable, Lapsed, Attempt, FlightStands, AcceptedTogether, SavedTogether, HandStands,
       PlacedKept, Refused, Done, Debts, SavedDebts, Claims, Flying, Placed, InProgress, Saving,
       Orchestrated, Tasks, Plan, Task, Accepted
  <2> QED
    BY <2>1
<1> QED
  BY <1>1, <1>2, <1>3, <1>4, <1>5, <1>6, <1>7, <1>8, <1>9 DEF Next, EngineStep
LEMMA PolicyInit == Init => PolicyInv
<1> SUFFICES ASSUME Init PROVE PolicyInv
  OBVIOUS
<1>1. pc = "down" /\ EngineInv /\ records = [t \in Tasks |-> NewRecord]
      /\ inbox = [a \in Attempts(Plan) |-> None]
  BY EngineInit DEF Init
<1>2. \A t \in Tasks : ~Flying(t)
  BY <1>1 DEF Flying, Flies, NewRecord, Attempts, Tasks
<1> QED
  BY <1>1, <1>2 DEF PolicyInv, FlightStands, PlacedKept, Saving

LEMMA PolicyInvariant == Spec => [](EngineInv /\ PolicyInv)
<1>1. Init => EngineInv /\ PolicyInv
  BY EngineInit, PolicyInit
<1>2. EngineInv /\ PolicyInv /\ [Next]_vars => (EngineInv /\ PolicyInv)'
  BY EngineNext, PolicyNext
<1> QED
  BY <1>1, <1>2, PTL DEF Spec

LEMMA DispatchOnly ==
  ASSUME EngineInv, [Next]_vars, Dispatching
  PROVE  \E t \in Tasks : Dispatch(t)
<1>0. pc # "writing" /\ pc' = "writing"
  BY DEF Dispatching
<1>1. ASSUME NEW t \in Tasks, StepOf(t) PROVE Dispatch(t)
  BY <1>0, <1>1 DEF StepOf, Adopt, Reapply, ResumePending, Ambiguous, Exhausted, Refuse, Save,
     Goto, Exit, Idle
<1>2. ~(\E b \in BudgetChoices : Resume(b)) /\ ~Crash /\ ~ForeignCommit /\ ~Disturb /\ ~Tidy
      /\ ~(UNCHANGED vars)
  BY <1>0 DEF Resume, Crash, ForeignCommit, Disturb, Tidy, vars, Goto, Exit, Idle
<1>3. /\ ~BudgetEnds /\ ~GiveUp /\ ~NothingToDo /\ ~Retire /\ ~LeaveToRecovery
      /\ ~(\E s \in Signatures : Retry(s))
  BY <1>0 DEF BudgetEnds, GiveUp, NothingToDo, Retire, NoteFails, LeaveToRecovery, Retry, Goto, Exit, Idle
<1>4. /\ ~Write /\ ~WriterFails /\ ~ReviewFails /\ ~ColdReviewFails /\ ~CommitCandidate
      /\ ~DeliverSolo /\ ~IntegrationFails /\ ~Swap /\ ~Refresh /\ ~Undo /\ ~InboxFails
  BY <1>0 DEF Write, WriterFails, ReviewFails, ColdReviewFails, AttemptFails, CommitCandidate,
     DeliverSolo, IntegrationFails, Swap, Refresh, Undo, InboxFails, Fails, Goto
<1>5. /\ ~Reconcile /\ ~Stage /\ ~TestsPass /\ ~Fail /\ ~DeliverInbox /\ ~Accept /\ ~AcceptRaises
      /\ ~Replan
  BY <1>0 DEF Reconcile, Stage, TestsPass, Fail, DeliverInbox, Accept, AcceptRaises, Replan,
     Fails, Save, Goto
<1>6. ~Persist /\ ~PersistFails
  <2>1. pc = "save" => cont[1] # "writing" /\ cont[2] # "writing"
    BY DEF EngineInv, Typed, Saved, Retryable
  <2> QED
    BY <1>0, <2>1 DEF Persist, PersistFails, Goto, Exit, Idle
<1> QED
  BY <1>1, <1>2, <1>3, <1>4, <1>5, <1>6 DEF Next, EngineStep

StepPaysDebt == Dispatching => Owed(Plan, Accepted(records)) \subseteq {current'[1]}

(* AC-PROGRESS-002: nothing is dispatched but the target of an accepted    *)
(* enabler, as long as that target is open: whichever engine accepted the  *)
(* enabler, and whatever it lost.                                          *)
THEOREM DebtIsPaidFirst == Spec => DebtPaidFirst
<1>1. EngineInv /\ PolicyInv /\ [Next]_vars => [StepPaysDebt]_vars
  <2> SUFFICES ASSUME EngineInv, PolicyInv, [Next]_vars, Dispatching
               PROVE  Owed(Plan, Accepted(records)) \subseteq {current'[1]}
    BY DEF StepPaysDebt
  <2>1. PICK t \in Tasks : Dispatch(t)
    BY DispatchOnly
  <2>2. CanDispatch(t) /\ current'[1] = t
    BY <2>1 DEF Dispatch
  <2>3. pc \in {"top", "choose"} /\ \A u \in Tasks : memory[u] = records[u]
    BY <2>2, ChoosingFacts DEF CanDispatch
  <2>4. contract \in Runs /\ Accepted(records) = Accepted(memory)
        /\ Accepted(records) \in SUBSET Tasks
    BY <2>3 DEF EngineInv, Typed, Accepted
  <2>5. CASE Reliable
    <3>1. Owed(Plan, Accepted(records)) \subseteq Debts
      BY <2>3, <2>4, <2>5 DEF PolicyInv, AcceptedTogether, Done
    <3>2. Debts \subseteq {t}
      BY <2>2 DEF CanDispatch, NextTask, Eligible, Debts
    <3> QED
      BY <2>2, <3>1, <3>2
  <2>6. CASE ~Reliable
    <3>1. Owed(Plan, Accepted(records)) \subseteq Tasks /\ t \in Tasks
      BY <2>4, OwedFacts
    <3>2. Cardinality(Tasks) = 1 /\ IsFiniteSet(Tasks)
      BY <2>4, <2>6, PlanFacts DEF Reliable
    <3>3. \A u \in Tasks : u = t
      BY <3>1, <3>2, FS_Singleton
    <3> QED
      BY <2>2, <3>1, <3>3
  <2> QED
    BY <2>5, <2>6
<1>2. Spec => [][StepPaysDebt]_vars
  BY <1>1, PolicyInvariant, PTL DEF Spec
<1> QED
  BY <1>2 DEF DebtPaidFirst, StepPaysDebt

StepKeepsIntegration ==
    \A t \in Tasks :
        (/\ records[t].status = "INTEGRATION_PENDING"
         /\ records[t].integration.prepared = target
         /\ Plan[t].class # "enabler")
            => \/ records'[t].status \in {"INTEGRATION_PENDING", "ACCEPTED"}
               \/ target' # target
               \/ <<"refused", t, records[t].integration.attempt>> \in lapses

(* docs/OPERATIONS.md: a task whose integrated commit is in place stays    *)
(* pending until it is accepted; it is given up only after the engine has  *)
(* found the checkout dirty.                                               *)
THEOREM IntegrationIsKept == Spec => CompletedIntegrationKept
<1>1. EngineInv /\ PolicyInv /\ [Next]_vars => [StepKeepsIntegration]_vars
  <2> SUFFICES ASSUME EngineInv, PolicyInv, Next, NEW t \in Tasks,
                      Placed(records[t], target), Plan[t].class # "enabler", target' = target,
                      records'[t] # records[t],
                      <<"refused", t, records[t].integration.attempt>> \notin lapses
               PROVE  records'[t].status \in {"INTEGRATION_PENDING", "ACCEPTED"}
    BY DEF StepKeepsIntegration, Placed, vars, durable
  <2>1. ~Swap /\ ~ForeignCommit
    <3>1. ~Swap
      BY DEF Swap
    <3>2. ~ForeignCommit
      BY DEF ForeignCommit
    <3> QED
      BY <3>1, <3>2
  <2>2. pc = "save" /\ records' = memory
    BY <2>1, Effects
  <2>3. Unsaved /\ t = Task /\ memory[Task] # records[Task]
    BY <2>2 DEF EngineInv, Agree
  <2>4. cont[1] \in Saved
    BY <2>2 DEF EngineInv, Typed
  <2>5. ~Saving({"blocked", "retry"})
    <3>1. Attempt = records[t].attempts + 1
      BY <2>3 DEF EngineInv, CurrentKnown
    <3>2. records[t].integration.attempt = records[t].attempts + 1
      BY RecordFacts DEF SoundRecord, PendingKnown, Placed
    <3> QED
      BY <2>3, <3>1, <3>2 DEF PolicyInv, PlacedKept
  <2>6. CASE cont[1] \in Retryable
    BY <2>2, <2>3, <2>6 DEF EngineInv, CurrentKnown, InFlight, Saving
  <2>7. CASE cont[1] = "retire"
    BY <2>2, <2>3, <2>7 DEF EngineInv, CurrentKnown, Saving
  <2>8. cont[1] # "choose"
    BY <2>2, <2>3 DEF Unsaved, Saving
  <2> QED
    BY <2>2, <2>4, <2>5, <2>6, <2>7, <2>8 DEF Saved, Saving
<1>2. Spec => [][StepKeepsIntegration]_vars
  BY <1>1, PolicyInvariant, PTL DEF Spec
<1> QED
  BY <1>2 DEF CompletedIntegrationKept, StepKeepsIntegration
----------------------------------------------------------------------------
(* What _persist writes while the invariant holds can be restored.         *)
LEMMA RestorableNow ==
  ASSUME EngineInv, PolicyInv, Reliable, MemoryStands, pc \notin {"down", "deliver"}
  PROVE  /\ Restorable(Plan, Accepted(memory), DurableState(policy))
         /\ NeedsClosed(Accepted(memory)) /\ policy.noDelta \in Nat /\ policy.used \in Nat
<1> DEFINE A == Accepted(memory)
           s == DurableState(policy)
<1>1. /\ AcceptedTogether /\ Done = A /\ NeedsClosed(A) /\ Counts(A, policy)
      /\ Debts \cap A = {}
  BY DEF PolicyInv, MemoryStands, Done
<1>2. DebtOf(Plan, A, s) = Debts
  BY <1>1, SavedDebt
<1>3. /\ Debts \subseteq Tasks \ A /\ Owed(Plan, A) \subseteq Debts
      /\ \A d, e \in Debts : d = e
  BY <1>1 DEF AcceptedTogether, Debts
<1>4. /\ s.delta = policy.delta /\ s.noDelta = policy.noDelta /\ s.used = policy.used
      /\ s.replan = policy.replan
  BY DEF DurableState
<1> HIDE DEF s, A
<1>5. Restorable(Plan, A, s)
  BY <1>1, <1>2, <1>3, <1>4 DEF Restorable, Counts, Tasks
<1> QED
  BY <1>1, <1>5 DEF A, s, Counts

LEMMA SavedStep ==
  ASSUME EngineInv, PolicyInv, Reliable, Stands, UNCHANGED <<contract, inbox>>,
         \/ records' = records /\ state' = state
         \/ pc = "save" /\ records' = memory /\ state' = DurableState(policy)
  PROVE  SavedStands'
<1>1. Tasks' = Tasks /\ Plan' = Plan /\ (Orchestrated' <=> Orchestrated)
  BY DEF Tasks, Plan, Orchestrated
<1>2. CASE records' = records /\ state' = state
  <2>1. \A t : Flying(t)' <=> Flying(t)
    BY <1>2 DEF Flying
  <2>2. Accepted(records)' = Accepted(records)
    BY <1>2 DEF Accepted
  <2> QED
    BY <1>1, <1>2, <2>1, <2>2 DEF Stands, SavedStands, NeedsClosed
<1>3. CASE pc = "save" /\ records' = memory /\ state' = DurableState(policy)
  <2>1. /\ Restorable(Plan, Accepted(memory), DurableState(policy))
        /\ NeedsClosed(Accepted(memory)) /\ policy.noDelta \in Nat /\ policy.used \in Nat
    BY <1>3, RestorableNow DEF Stands
  <2>2. Accepted(records)' = Accepted(memory)
    BY <1>3 DEF Accepted
  <2>3. /\ state'.noDelta = policy.noDelta /\ state'.used = policy.used
        /\ state'.replan = policy.replan
    BY <1>3 DEF DurableState
  <2>4. ASSUME NEW t \in Tasks, Flying(t)', Orchestrated PROVE ~policy.replan
    <3>1. t = Task /\ cont[1] \in Retryable
      BY <1>3, <2>4, SavedFlying DEF Flying
    <3>2. Flying(Task)
      BY <1>3, <3>1, RetriedFlying
    <3>3. ~state.replan /\ SavedTogether
      <4>1. SavedStands /\ SavedTogether /\ Task \in Tasks
        BY <1>3, <3>1 DEF Stands, PolicyInv
      <4> QED
        BY <2>4, <3>2, <4>1 DEF SavedStands
    <3> QED
      BY <1>3, <3>1, <3>3 DEF SavedTogether, Saving, Retryable
  <2> QED
    BY <1>1, <1>3, <2>1, <2>2, <2>3, <2>4 DEF SavedStands, NeedsClosed
<1> QED
  BY <1>2, <1>3

(* stage_integration retains the result of a task that nothing waits for.  *)
LEMMA SavedStaged ==
  ASSUME EngineInv, PolicyInv, Reliable, Stands, Stage \/ DeliverInbox
  PROVE  SavedStands'
<1>1. UNCHANGED <<contract, records, state>> /\ pc \in {"stage", "deliver"}
  BY DEF Stage, DeliverInbox
<1>2. Tasks' = Tasks /\ Plan' = Plan /\ (Orchestrated' <=> Orchestrated)
      /\ Accepted(records)' = Accepted(records)
  BY <1>1 DEF Tasks, Plan, Orchestrated, Accepted
<1>3. Orchestrated => ~state.replan
  <2> SUFFICES ASSUME Orchestrated PROVE ~state.replan
    OBVIOUS
  <2>1. pc = "stage"
    BY <1>1 DEF EngineInv, CurrentKnown
  <2>2. ~policy.replan
    BY <2>1 DEF Stands, MemoryStands, InProgress
  <2> QED
    BY <2>1, <2>2 DEF PolicyInv, SavedTogether, Saving
<1> QED
  BY <1>1, <1>2, <1>3 DEF Stands, SavedStands, NeedsClosed
(* The steps that keep the policy, and what is accepted.                   *)
LEMMA MemoryKept ==
  ASSUME Stands, pc # "down", UNCHANGED <<contract, policy>>, Done' = Done,
         InProgress' /\ pc' # "deliver" =>
             (InProgress /\ pc # "deliver") \/ ~policy.replan
  PROVE  MemoryStands'
<1>1. Tasks' = Tasks /\ Plan' = Plan /\ Debts' = Debts
  BY DEF Tasks, Plan, Debts
<1>2. /\ NeedsClosed(Done) /\ Counts(Done, policy) /\ Debts \cap Done = {}
      /\ InProgress /\ pc # "deliver" => ~policy.replan
  BY DEF Stands, MemoryStands
<1>3. NeedsClosed(Done)' /\ Counts(Done, policy)'
  BY <1>1, <1>2 DEF NeedsClosed, Counts
<1> QED
  BY <1>1, <1>2, <1>3 DEF MemoryStands

LEMMA MemoryQuiet ==
  ASSUME Stands, pc # "down", UNCHANGED <<contract, policy, memory, current>>,
         pc' = pc \/ "deliver" \notin {pc, pc'},
         InProgress' => InProgress \/ ~policy.replan
  PROVE  MemoryStands'
<1>1. Done' = Done
  BY DEF Done, Accepted, Task
<1> QED
  BY <1>1, MemoryKept DEF InProgress

LEMMA AcceptedKept ==
  ASSUME EngineInv, Reconcile \/ TestsPass \/ Fail \/ Stage \/ \E t \in Tasks : Adopt(t)
  PROVE  Done' = Done
<1>1. /\ pc \in {"reconcile", "apply", "failing", "stage", "top"} /\ pc' = "save"
      /\ contract' = contract
  BY DEF Reconcile, TestsPass, Fail, Stage, Adopt, Stepping, Save
<1>2. PICK t, rec :
           /\ t \in Tasks /\ memory' = [memory EXCEPT ![t] = rec]
           /\ memory[t].status \in {"READY", "INTEGRATION_PENDING"} /\ rec.status # "ACCEPTED"
  BY RecordChanges
<1>3. memory \in [Tasks -> Record]
  BY DEF EngineInv, Typed
<1>4. Accepted(memory') = Accepted(memory)
  BY <1>2, <1>3 DEF Accepted
<1> QED
  BY <1>1, <1>4 DEF Done, Accepted


(* The policy is the restored one.                                         *)
LEMMA ResumeMemory ==
  ASSUME EngineInv, SavedStands, NEW b \in BudgetChoices, Resume(b)
  PROVE  MemoryStands'
<1> SUFFICES ASSUME pc' # "down" PROVE MemoryStands'
  BY DEF MemoryStands
<1>1. /\ contract' = contract /\ memory' = records /\ pc' = "top"
      /\ Restorable(Plan, Accepted(records), state)
      /\ policy' = Restored(Plan, Accepted(records), Loaded(records), state)
  BY DEF Resume, Exit, Idle, Goto
<1> DEFINE A == Accepted(records)
<1>2. Tasks' = Tasks /\ Plan' = Plan /\ Done' = A
  BY <1>1 DEF Tasks, Plan, Done, Accepted
<1>3. contract \in Runs /\ A \in SUBSET Tasks
  BY DEF EngineInv, Typed, Accepted
<1>4. Debts' = DebtOf(Plan, A, state) /\ DebtOf(Plan, A, state) \subseteq Tasks \ A
  BY <1>1, <1>3, RestoredFacts DEF Debts
<1>5. /\ DOMAIN policy' = {"accepted", "ready", "debt", "delta", "noDelta", "replan", "used"}
      /\ policy'.delta = state.delta /\ policy'.noDelta = state.noDelta
      /\ policy'.used = state.used /\ policy'.replan = state.replan
  BY <1>1 DEF Restored
<1>6. Counts(Done, policy)'
  BY <1>1, <1>2, <1>5 DEF Counts, Restorable, SavedStands
<1>7. NeedsClosed(Done)'
  BY <1>2 DEF NeedsClosed, SavedStands
<1>8. Debts' \cap Done' = {}
  BY <1>2, <1>4
<1> QED
  BY <1>1, <1>6, <1>7, <1>8 DEF MemoryStands, InProgress

(* complete_replan starts the count anew.                                  *)
LEMMA ReplanMemory ==
  ASSUME EngineInv, MemoryStands, Replan
  PROVE  MemoryStands'
<1>1. /\ UNCHANGED <<contract, memory>> /\ pc \notin {"down", "deliver"} /\ pc' = "save"
      /\ policy' = [policy EXCEPT !.replan = FALSE, !.noDelta = 0]
  BY ChoosingFacts DEF Replan, Replanned, Save
<1>2. Tasks' = Tasks /\ Plan' = Plan /\ Done' = Done
  BY <1>1 DEF Tasks, Plan, Done, Accepted
<1>3. NeedsClosed(Done) /\ Counts(Done, policy) /\ Debts \cap Done = {}
  BY <1>1 DEF MemoryStands
<1>4. /\ DOMAIN policy' = DOMAIN policy /\ policy'.delta = policy.delta
      /\ policy'.used = policy.used /\ policy'.debt = policy.debt
      /\ policy'.replan = FALSE /\ policy'.noDelta = 0
  BY <1>1, <1>3 DEF Counts
<1>5. Counts(Done, policy)' /\ NeedsClosed(Done)' /\ Debts' = Debts
  BY <1>2, <1>3, <1>4 DEF Counts, NeedsClosed, Debts
<1> QED
  BY <1>1, <1>2, <1>3, <1>5 DEF MemoryStands, InProgress

(* What _record_acceptance makes of the counts.                            *)
LEMMA RecordedCounts ==
  ASSUME contract \in Runs, NEW A \in SUBSET Tasks, NEW p, Counts(A, p), ~p.replan,
         NEW t \in Tasks \ A, NEW q, q = Recorded(Plan, p, t),
         p.accepted = A
  PROVE  /\ Counts(A \cup {t}, q)
         /\ SecondEnabler(Plan, p, t) => Counts(A, q) /\ q.debt = p.debt
<1> DEFINE claimed == Plan[t].closes \cap OpenIds(Plan, p.accepted)
           house(S) == OfClass(Plan, S, "housekeeping")
<1>1. /\ DOMAIN q = {"accepted", "ready", "debt", "delta", "noDelta", "replan", "used"}
      /\ q.delta = claimed
      /\ q.noDelta = IF claimed = {} THEN p.noDelta + 1 ELSE 0
      /\ q.replan = (p.replan \/ (~SecondEnabler(Plan, p, t) /\ q.noDelta >= 2))
      /\ q.used = IF Plan[t].class = "housekeeping" THEN p.used + 1 ELSE p.used
      /\ SecondEnabler(Plan, p, t) => q.debt = p.debt
  BY DEF Recorded
<1>2. claimed \subseteq Ids(Plan, A \cup {t})
  BY DEF Ids
<1>3. IsFiniteSet(A) /\ IsFiniteSet(house(A))
  <2>1. IsFiniteSet(Tasks)
    BY PlanFacts
  <2>2. IsFiniteSet(A)
    BY <2>1, FS_Subset
  <2>3. house(A) \in SUBSET A
    BY DEF OfClass
  <2> QED
    BY <2>2, <2>3, FS_Subset
<1>4. /\ Cardinality(house(A)) \in Nat
      /\ Plan[t].class = "housekeeping" =>
            /\ house(A \cup {t}) = house(A) \cup {t}
            /\ Cardinality(house(A \cup {t})) = Cardinality(house(A)) + 1
      /\ Plan[t].class # "housekeeping" => house(A \cup {t}) = house(A)
  <2>1. Cardinality(house(A)) \in Nat
    BY <1>3, FS_CardinalityType
  <2>2. t \notin house(A)
    BY DEF OfClass
  <2>3. Plan[t].class = "housekeeping" => house(A \cup {t}) = house(A) \cup {t}
    BY DEF OfClass
  <2>4. Plan[t].class # "housekeeping" => house(A \cup {t}) = house(A)
    BY DEF OfClass
  <2>5. Cardinality(house(A) \cup {t}) = Cardinality(house(A)) + 1
    BY <1>3, <2>2, FS_AddElement
  <2> QED
    BY <2>1, <2>3, <2>4, <2>5
<1>5. /\ p.noDelta \in Nat /\ p.used \in Nat /\ p.used >= Cardinality(house(A))
  BY DEF Counts
<1>6. q.noDelta \in Nat /\ q.used \in Nat /\ (q.replan => q.noDelta >= 2)
  <2>1. q.noDelta \in Nat /\ q.used \in Nat
    <3> HIDE DEF claimed
    <3> QED
      BY <1>1, <1>5
  <2>2. q.replan => q.noDelta >= 2
    <3> DEFINE many == q.noDelta >= 2
    <3>1. q.replan = (p.replan \/ (~SecondEnabler(Plan, p, t) /\ many))
      BY <1>1
    <3> HIDE DEF many
    <3>2. q.replan => many
      BY <3>1, Zenon
    <3> QED
      BY <3>2 DEF many
  <2> QED
    BY <2>1, <2>2
<1>7. q.used >= Cardinality(house(A \cup {t}))
  <2> HIDE DEF house
  <2> QED
    BY <1>1, <1>4, <1>5
<1>8. Counts(A \cup {t}, q)
  BY <1>1, <1>2, <1>6, <1>7 DEF Counts
<1>9. ASSUME SecondEnabler(Plan, p, t) PROVE Counts(A, q)
  <2>1. Plan[t].class = "enabler"
    BY <1>9 DEF SecondEnabler
  <2>2. WellFormed(Plan)
    BY PlanFacts
  <2>3. Plan[t].closes = {}
    BY <2>1, <2>2 DEF WellFormed, Closing, Tasks
  <2>4. q.delta = {} /\ q.used = p.used
    BY <1>1, <2>1, <2>3
  <2> QED
    BY <1>1, <1>5, <1>6, <2>4 DEF Counts
<1> QED
  BY <1>1, <1>8, <1>9

(* What is accepted is not claimed while a replan is due.                  *)
LEMMA NoReplanWaits ==
  ASSUME EngineInv, PolicyInv, Reliable, Stands, pc = "accept"
  PROVE  ~policy.replan
<1>1. CASE Orchestrated
  <2>1. Task \in Tasks /\ memory[Task] = records[Task]
    BY AttemptFacts, Synced DEF Handling
  <2>2. memory[Task].status = "INTEGRATION_PENDING"
    BY <1>1 DEF EngineInv, CurrentKnown, InFlight
  <2>3. Flying(Task)
    BY <2>1, <2>2 DEF Flying, Flies
  <2>4. ~state.replan
    BY <1>1, <2>1, <2>3 DEF Stands, SavedStands
  <2> QED
    BY <2>4 DEF PolicyInv, SavedTogether, Saving
<1>2. CASE ~Orchestrated
  BY <1>2 DEF Stands, MemoryStands, InProgress
<1> QED
  BY <1>1, <1>2

LEMMA AcceptMemory ==
  ASSUME EngineInv, PolicyInv, Reliable, Stands, ~Lapsed("late")', Accept
  PROVE  MemoryStands'
<1>1. /\ pc = "accept" /\ policy' = Recorded(Plan, policy, Task) /\ contract' = contract
      /\ Claimable(Plan, policy, Task) /\ ~SecondEnabler(Plan, policy, Task)
      /\ ~Late(Plan, policy, Task)
      /\ pc' \in {"save", "deliver"}
  <2>1. ~Late(Plan, policy, Task)
    <3> SUFFICES ASSUME Late(Plan, policy, Task) PROVE Lapsed("late")'
      OBVIOUS
    <3>1. <<"late", Task, Attempt>> \in lapses'
      BY DEF Accept, Lapses
    <3> QED
      BY <3>1 DEF Lapsed
  <2> QED
    BY <2>1 DEF Accept, Save, Goto
<1>2. Tasks' = Tasks /\ Plan' = Plan
  BY <1>1 DEF Tasks, Plan
<1>3. /\ Debts \subseteq {Task} /\ Task \in Tasks \ Done /\ policy.accepted = Done
      /\ contract \in Runs /\ Done \in SUBSET Tasks
  <2>1. /\ Debts \subseteq {Task} /\ Task \in Tasks \ Done /\ policy.accepted = Done
        /\ Done = Accepted(memory)
    BY <1>1, HandDebts DEF Claimable, Ready
  <2> QED
    BY <2>1 DEF EngineInv, Typed, Accepted
<1>4. Done' = Done \cup {Task}
  BY AcceptedAdds
<1>5. NeedsClosed(Done) /\ Counts(Done, policy)
  BY <1>1 DEF Stands, MemoryStands
<1>6. Plan[Task].needs \subseteq Done
  BY <1>1, <1>3 DEF Claimable, Ready
<1>7. NeedsClosed(Done)'
  BY <1>2, <1>4, <1>5, <1>6 DEF NeedsClosed
<1>8. Counts(Done, policy)'
  <2>1. Counts(Done \cup {Task}, policy')
    <3>1. ~policy.replan
      BY <1>1, NoReplanWaits
    <3> QED
      BY <1>1, <1>3, <1>5, <3>1, RecordedCounts
  <2> QED
    BY <1>2, <1>4, <2>1 DEF Counts
<1>9. Debts' \cap Done' = {}
  <2>1. CASE Plan[Task].class # "enabler"
    <3>1. policy'.debt = IF policy.debt = Task THEN None ELSE policy.debt
      BY <1>1, <2>1 DEF Recorded, SecondEnabler
    <3> QED
      BY <1>3, <3>1 DEF Debts
  <2>2. CASE Plan[Task].class = "enabler"
    <3> DEFINE u == Plan[Task].unblocks
    <3>1. policy'.debt = IF u = Task THEN None ELSE u
      BY <1>1, <2>2 DEF Recorded, SecondEnabler
    <3>3. u \notin Done
      BY <1>1, <1>3, <2>2 DEF Late
    <3> QED
      BY <1>4, <3>1, <3>3 DEF Debts
  <2> QED
    BY <2>1, <2>2
<1> QED
  BY <1>1, <1>7, <1>8, <1>9 DEF MemoryStands, InProgress

LEMMA AcceptRaisesMemory ==
  ASSUME EngineInv, PolicyInv, Reliable, Stands, AcceptRaises
  PROVE  MemoryStands'
<1>1. /\ pc = "accept" /\ pc' \in {"failing", "reconcile"}
      /\ UNCHANGED <<contract, memory, current>>
  BY DEF AcceptRaises, Fails, Goto
<1>2. CASE UNCHANGED policy
  BY <1>1, <1>2, MemoryQuiet DEF InProgress
<1>3. CASE /\ Claimable(Plan, policy, Task) /\ SecondEnabler(Plan, policy, Task)
           /\ policy' = Recorded(Plan, policy, Task)
  <2>1. Tasks' = Tasks /\ Plan' = Plan /\ Done' = Done
    BY <1>1 DEF Tasks, Plan, Done, Accepted
  <2>2. /\ Task \in Tasks \ Done /\ policy.accepted = Done
        /\ contract \in Runs /\ Done \in SUBSET Tasks
    <3>1. Task \in Tasks \ Done /\ policy.accepted = Done /\ Done = Accepted(memory)
      BY <1>1, <1>3, HandDebts DEF Claimable, Ready
    <3> QED
      BY <3>1 DEF EngineInv, Typed, Accepted
  <2>3. /\ NeedsClosed(Done) /\ Counts(Done, policy) /\ Debts \cap Done = {}
    BY <1>1 DEF Stands, MemoryStands
  <2>4. Counts(Done, policy') /\ policy'.debt = policy.debt
    <3>1. ~policy.replan
      BY <1>1, NoReplanWaits
    <3> DEFINE A == Done
               q == policy'
    <3>2. /\ contract \in Runs /\ A \in SUBSET Tasks /\ Counts(A, policy)
          /\ Task \in Tasks \ A /\ q = Recorded(Plan, policy, Task) /\ policy.accepted = A
      BY <1>3, <2>2, <2>3
    <3> HIDE DEF A, q
    <3>3. SecondEnabler(Plan, policy, Task) => Counts(A, q) /\ q.debt = policy.debt
      BY <3>1, <3>2, RecordedCounts
    <3> QED
      BY <1>3, <3>3 DEF A, q
  <2>5. Counts(Done, policy)' /\ NeedsClosed(Done)' /\ Debts' = Debts
    BY <2>1, <2>3, <2>4 DEF Counts, NeedsClosed, Debts
  <2> QED
    BY <1>1, <2>1, <2>3, <2>5 DEF MemoryStands, InProgress
<1> QED
  BY <1>2, <1>3 DEF AcceptRaises

LEMMA DeliveredMemory ==
  ASSUME EngineInv, Stands, DeliverInbox
  PROVE  MemoryStands'
<1>1. /\ pc = "deliver" /\ pc' = "save" /\ UNCHANGED <<contract, policy, current>>
      /\ memory' = Finalized(Task, Attempt)
  BY DEF DeliverInbox, Save
<1>2. Task \in Tasks
  BY <1>1, AttemptFacts DEF Handling
<1>3. Accepted(memory') = Accepted(memory) \cup {Task}
  BY <1>1, <1>2, FinalizedAdds
<1>4. Done' = Done
  BY <1>1, <1>3 DEF Done, Accepted
<1> QED
  BY <1>1, <1>4, MemoryKept DEF InProgress

LEMMA QuietMemory ==
  ASSUME EngineInv, PolicyInv, Stands, ~Lapsed("lost")',
         \/ Write \/ WriterFails \/ ReviewFails \/ ColdReviewFails \/ CommitCandidate
         \/ DeliverSolo \/ IntegrationFails \/ Swap \/ Refresh \/ Undo \/ InboxFails
         \/ \E t \in Tasks : \/ Reapply(t) \/ Ambiguous(t) \/ ResumePending(t)
                             \/ Dispatch(t) \/ Refuse(t)
  PROVE  MemoryStands'
<1>1. CASE \/ Write \/ WriterFails \/ ReviewFails \/ ColdReviewFails \/ CommitCandidate
           \/ DeliverSolo
  <2>1. /\ UNCHANGED <<contract, policy, memory, current>> /\ pc \in {"writing", "written"}
        /\ pc' \in {"written", "stage", "accept", "failing"}
    BY <1>1 DEF Write, WriterFails, ReviewFails, ColdReviewFails, AttemptFails,
       CommitCandidate, DeliverSolo, engine, Goto
  <2> QED
    BY <2>1, MemoryQuiet DEF InProgress
<1>2. CASE IntegrationFails \/ Swap \/ Undo \/ InboxFails
  <2>1. /\ UNCHANGED <<contract, policy, memory, current>>
        /\ pc \in {"apply", "swap", "refresh", "stage"}
        /\ pc' \in {"failing", "reconcile", "refresh"}
    <3>1. ASSUME pc = "deliver" PROVE FALSE
      <4>1. <<"lost", Task, Attempt>> \in lapses'
        BY <1>2, <3>1 DEF IntegrationFails, Swap, Undo, InboxFails, Lapses
      <4> QED
        BY <4>1 DEF Lapsed
    <3> QED
      BY <1>2, <3>1 DEF IntegrationFails, Swap, Undo, InboxFails, Fails, engine, Goto
  <2> QED
    BY <2>1, MemoryQuiet DEF InProgress
<1>3. CASE Refresh
  <2>1. /\ UNCHANGED <<contract, policy, memory, current>> /\ pc = "refresh" /\ pc' = "accept"
        /\ InPlace(memory, Task)
    BY <1>3 DEF Refresh, engine, Goto
  <2>2. Orchestrated /\ Orchestrated'
    <3>1. Task \in Tasks
      BY <2>1, AttemptFacts DEF Handling
    <3> QED
      BY <2>1, <3>1, InPlaceFacts DEF Orchestrated
  <2> QED
    BY <2>1, <2>2, MemoryQuiet DEF InProgress
<1>4. ASSUME NEW t \in Tasks, Reapply(t) \/ Ambiguous(t) \/ ResumePending(t)
      PROVE  MemoryStands'
  <2>1. /\ UNCHANGED <<contract, policy, memory>> /\ Pending(t)
        /\ pc' \in {"apply", "reconcile", "accept"}
    BY <1>4 DEF Reapply, Ambiguous, ResumePending, Goto
  <2>2. pc \in {"top", "recover"} /\ Orchestrated /\ Orchestrated'
    BY <2>1, PendingFacts DEF Orchestrated
  <2>3. Done' = Done
    BY <2>1, <2>2 DEF Done, Accepted
  <2> QED
    BY <2>1, <2>2, <2>3, MemoryKept DEF InProgress
<1>5. ASSUME NEW t \in Tasks, Dispatch(t) \/ Refuse(t) PROVE MemoryStands'
  <2>1. /\ UNCHANGED <<contract, policy, memory>> /\ CanDispatch(t)
        /\ pc' \in {"writing", "failing"}
    BY <1>5 DEF Dispatch, Refuse, Goto
  <2>2. pc \in {"top", "choose"} /\ ~policy.replan
    BY <2>1, ChoosingFacts DEF CanDispatch, NextTask
  <2>3. Done' = Done
    BY <2>1, <2>2 DEF Done, Accepted
  <2> QED
    BY <2>1, <2>2, <2>3, MemoryKept
<1> QED
  BY <1>1, <1>2, <1>3, <1>4, <1>5

LEMMA LoopMemory ==
  ASSUME EngineInv, PolicyInv, Stands,
         \/ BudgetEnds \/ GiveUp \/ NothingToDo \/ Crash \/ Retire \/ LeaveToRecovery
         \/ (\E t \in Tasks : Exhausted(t)) \/ (\E s \in Signatures : Retry(s))
         \/ Persist \/ PersistFails \/ ForeignCommit \/ Disturb \/ Tidy
  PROVE  MemoryStands'
<1> SUFFICES ASSUME pc' # "down" PROVE MemoryStands'
  BY DEF MemoryStands
<1>1. CASE ForeignCommit \/ Disturb \/ Tidy
  <2>1. UNCHANGED <<contract, policy, memory, current>> /\ pc' = pc /\ pc # "down"
    BY <1>1 DEF ForeignCommit, Disturb, Tidy, engine
  <2> QED
    BY <2>1, MemoryQuiet DEF InProgress, Orchestrated
<1>2. CASE Persist \/ PersistFails
  <2>1. /\ UNCHANGED <<contract, policy, memory, current>> /\ pc = "save"
        /\ pc' \in {cont[1], cont[2]}
    BY <1>2 DEF Persist, PersistFails, Exit, Idle, engine, Goto
  <2>2. pc' \notin {"deliver", "accept", "writing", "written", "stage"}
    BY <2>1 DEF EngineInv, Typed, Saved, Retryable
  <2> QED
    BY <2>1, <2>2, MemoryQuiet DEF InProgress
<1>3. CASE \/ BudgetEnds \/ GiveUp \/ NothingToDo \/ Crash \/ Retire \/ LeaveToRecovery
           \/ (\E t \in Tasks : Exhausted(t)) \/ (\E s \in Signatures : Retry(s))
  <2>1. /\ UNCHANGED <<contract, policy, memory, current>>
        /\ pc \in {"retire", "failing", "retry"} /\ pc' = "top"
    BY <1>3 DEF BudgetEnds, GiveUp, NothingToDo, Crash, Retire, NoteFails, LeaveToRecovery,
       Exhausted, Retry, Exit, Idle, Goto
  <2> QED
    BY <2>1, MemoryQuiet DEF InProgress
<1> QED
  BY <1>1, <1>2, <1>3

LEMMA RestoreMemory ==
  ASSUME EngineInv, PolicyInv, Stands, Spared, Spared', Next
  PROVE  MemoryStands'
<1>0. Reliable
  BY DEF Reliable, Spared
<1>1. CASE \E b \in BudgetChoices : Resume(b)
  BY <1>1, ResumeMemory DEF Stands
<1>2. ASSUME NEW t \in Tasks, StepOf(t) PROVE MemoryStands'
  <2>1. CASE Exhausted(t)
    BY <2>1, LoopMemory
  <2>2. CASE Adopt(t)
    <3>1. UNCHANGED <<contract, policy>> /\ pc = "top" /\ pc' = "save"
      BY <2>2 DEF Adopt, Stepping, Save
    <3> QED
      BY <2>2, <3>1, AcceptedKept, MemoryKept DEF InProgress
  <2> QED
    BY <1>2, <2>1, <2>2, QuietMemory DEF StepOf, Spared
<1>3. CASE \/ BudgetEnds \/ GiveUp \/ NothingToDo \/ Retire \/ LeaveToRecovery \/ Crash
           \/ (\E s \in Signatures : Retry(s)) \/ Persist \/ PersistFails \/ ForeignCommit
           \/ Disturb \/ Tidy
  BY <1>3, LoopMemory
<1>4. CASE Reconcile \/ TestsPass \/ Fail \/ Stage
  <2>1. UNCHANGED <<contract, policy>> /\ pc # "down" /\ pc' = "save"
    BY <1>4 DEF Reconcile, TestsPass, Fail, Stage, Save
  <2> QED
    BY <1>4, <2>1, AcceptedKept, MemoryKept DEF InProgress
<1>5. CASE \/ Write \/ WriterFails \/ ReviewFails \/ ColdReviewFails \/ CommitCandidate
           \/ DeliverSolo \/ IntegrationFails \/ Swap \/ Refresh \/ Undo \/ InboxFails
  BY <1>5, QuietMemory DEF Spared
<1>6. CASE Accept \/ AcceptRaises \/ DeliverInbox \/ Replan
  BY <1>0, <1>6, AcceptMemory, AcceptRaisesMemory, DeliveredMemory, ReplanMemory
     DEF Stands, Spared
<1> QED
  BY <1>1, <1>2, <1>3, <1>4, <1>5, <1>6 DEF Next, EngineStep

LEMMA RestoreSaved ==
  ASSUME EngineInv, PolicyInv, Stands, Spared, Next
  PROVE  SavedStands'
<1>0. Reliable
  BY DEF Reliable, Spared
<1>1. CASE Stage \/ DeliverInbox
  BY <1>0, <1>1, SavedStaged
<1>2. CASE Persist \/ PersistFails
  BY <1>0, <1>2, SavedStep DEF Persist, PersistFails
<1>3. CASE \/ (\E b \in BudgetChoices : Resume(b)) \/ Crash \/ ForeignCommit
           \/ Disturb \/ Tidy
           \/ BudgetEnds \/ GiveUp \/ NothingToDo \/ Retire \/ LeaveToRecovery
           \/ (\E s \in Signatures : Retry(s)) \/ (\E t \in Tasks : StepOf(t))
  <2>1. UNCHANGED <<contract, records, state, inbox>>
    BY <1>3 DEF Resume, Crash, ForeignCommit, Disturb, Tidy, BudgetEnds, GiveUp, NothingToDo, Retire,
       LeaveToRecovery, Retry, StepOf, Adopt, Reapply, ResumePending, Ambiguous, Exhausted,
       Dispatch, Refuse, durable
  <2> QED
    BY <1>0, <2>1, SavedStep
<1>4. CASE \/ Write \/ WriterFails \/ ReviewFails \/ ColdReviewFails \/ CommitCandidate
           \/ DeliverSolo \/ IntegrationFails \/ Swap \/ Refresh \/ Undo \/ InboxFails
           \/ Reconcile \/ TestsPass \/ Fail \/ Accept \/ AcceptRaises \/ Replan
  <2>1. UNCHANGED <<contract, records, state, inbox>>
    BY <1>4 DEF Write, WriterFails, ReviewFails, ColdReviewFails, AttemptFails,
       CommitCandidate, DeliverSolo, IntegrationFails, Swap, Refresh, Undo, InboxFails,
       Reconcile, TestsPass, Fail, Accept, AcceptRaises, Replan, durable
  <2> QED
    BY <1>0, <2>1, SavedStep
<1> QED
  BY <1>1, <1>2, <1>3, <1>4 DEF Next, EngineStep

LEMMA RestoreInit == Init => Stands
<1> SUFFICES ASSUME Init PROVE Stands
  OBVIOUS
<1>1. /\ EngineInv /\ pc = "down" /\ state = NoState
      /\ records = [t \in Tasks |-> NewRecord] /\ inbox = [a \in Attempts(Plan) |-> None]
  BY EngineInit DEF Init
<1>2. Accepted(records) = {}
  BY <1>1 DEF Accepted, NewRecord
<1>3. Restorable(Plan, {}, NoState)
  <2>1. Owed(Plan, {}) = {} /\ Ids(Plan, {}) = {} /\ OfClass(Plan, {}, "housekeeping") = {}
    BY DEF Owed, Ids, OfClass
  <2>2. DebtOf(Plan, {}, NoState) = {}
    BY <2>1 DEF DebtOf, NoState
  <2>3. NoState.delta = {} /\ NoState.replan = FALSE /\ NoState.used = 0
    BY DEF NoState
  <2> QED
    BY <2>1, <2>2, <2>3, FS_EmptySet DEF Restorable
<1>4. \A t \in Tasks : ~state.replan
  BY <1>1 DEF NoState
<1> QED
  BY <1>1, <1>2, <1>3, <1>4 DEF Stands, SavedStands, MemoryStands, AlwaysRestorable,
     NeedsClosed, NoState

(* Whatever an engine saves, the next one can be built from: __post_init__ *)
(* of the policy (domain/progress.py) does not raise, unless an enabler    *)
(* was accepted after its target, or a Solo result was lost on its way to  *)
(* the inbox after the policy had accepted it.                             *)
THEOREM RunsCanResume == Spec => []AlwaysRestorable
<1> DEFINE Inv == EngineInv /\ PolicyInv /\ RestoreInv
<1>1. Init => Inv
  BY EngineInit, PolicyInit, RestoreInit DEF RestoreInv
<1>2. Inv /\ [Next]_vars => Inv'
  <2> SUFFICES ASSUME Inv, [Next]_vars, Spared' PROVE Stands'
    BY EngineNext, PolicyNext DEF RestoreInv
  <2>1. Spared
    <3>1. lapses \subseteq lapses'
      BY Effects DEF vars
    <3> QED
      BY <3>1 DEF Spared, Lapsed
  <2>2. Stands
    BY <2>1 DEF RestoreInv
  <2>3. CASE Next
    BY <2>1, <2>2, <2>3, RestoreMemory, RestoreSaved DEF Stands
  <2>4. CASE UNCHANGED vars
    <3>1. Stands' <=> Stands
      BY <2>4 DEF Stands, SavedStands, MemoryStands, NeedsClosed, Counts, Done, Debts, Flying,
         InProgress, Accepted, Orchestrated, Tasks, Plan, Task, vars, durable, engine
    <3> QED
      BY <2>2, <3>1
  <2> QED
    BY <2>3, <2>4
<1>3. Inv => AlwaysRestorable
  BY DEF RestoreInv, Spared, Stands, SavedStands, AlwaysRestorable
<1> QED
  BY <1>1, <1>2, <1>3, PTL DEF Spec
=============================================================================
