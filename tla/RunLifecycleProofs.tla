------------------------- MODULE RunLifecycleProofs -------------------------
(***************************************************************************)
(* Proofs about RunLifecycle, for any number of runs, calls, processes,    *)
(* acceptance IDs and faults.  The invariant has three layers, each proved *)
(* from the one before: who holds the leases, what the files and the       *)
(* copies of them say, and what a handoff packet says.                     *)
(***************************************************************************)
EXTENDS RunLifecycle, TLAPS

(* A call between its claim and its release, which has the lease.          *)
Controlling == {"prepare", "commit", "engine", "exit", "export", "release"}
Controls(c) == pc[c] \in Controlling

(* What is true of every call by the step it is at.                        *)
CallsKnown ==
    \A c \in Callers : pc[c] # "idle" =>
        /\ call[c] # None /\ run[Run(c)] # None
        /\ pc[c] \in {"enter", "engine", "exit", "leave"} => Op(c) = "resume"
        /\ pc[c] = "prepare" => Op(c) = "start"
        /\ pc[c] = "export" => Op(c) = "handoff"
        /\ pc[c] \in {"engine", "exit", "export"} => copy[c] # None

(* Whoever controls a run has its lease, even one that has expired: nobody *)
(* replaces it while the process lives.                                    *)
LeaseHeld ==
    \A c \in Callers : Controls(c) =>
        /\ lease[Run(c)] # None
        /\ lease[Run(c)].caller = c /\ lease[Run(c)].process = Process(c)

Controlled == TypeOK /\ CallsKnown /\ LeaseHeld
----------------------------------------------------------------------------
LEMMA FileFields ==
  ASSUME NEW file \in RunFile
  PROVE  /\ file.rev \in Nat /\ file.status \in Statuses
         /\ file.closed \in SUBSET Ids
  BY DEF RunFile

LEMMA WrittenFields ==
  ASSUME NEW rev \in Nat, NEW status \in Statuses, NEW closed \in SUBSET Ids
  PROVE  /\ Written(rev, status, closed) \in RunFile
         /\ Written(rev, status, closed) # None
         /\ Written(rev, status, closed).rev = rev
         /\ Written(rev, status, closed).status = status
         /\ Written(rev, status, closed).closed = closed
  BY NothingAssumption DEF Written, RunFile

LEMMA OutcomeFields ==
  ASSUME NEW file \in RunFile, NEW status \in Statuses, NEW closed \in SUBSET Ids
  PROVE  /\ Written(file.rev, status, closed) \in RunFile
         /\ Written(file.rev, status, closed) # None
         /\ Written(file.rev, status, closed).status = status
         /\ Written(file.rev, status, closed).closed = closed
  BY FileFields, WrittenFields

LEMMA LeaseFields ==
  ASSUME NEW l \in Lease
  PROVE  /\ Abandoned(l) \in Lease /\ Abandoned(l) # None
         /\ Abandoned(l).caller = None
         /\ \A late \in BOOLEAN :
              /\ [l EXCEPT !.expired = late] \in Lease
              /\ [l EXCEPT !.expired = late] # None
              /\ [l EXCEPT !.expired = late].caller = l.caller
              /\ [l EXCEPT !.expired = late].process = l.process
  BY NothingAssumption DEF Lease, Abandoned

LEMMA CallFields ==
  ASSUME Controlled, NEW c \in Callers, pc[c] # "idle"
  PROVE  /\ call[c] # None /\ call[c] \in CallOf(alive)
         /\ Run(c) \in Runs
         /\ Process(c) \in alive /\ Process(c) \in Processes
         /\ Op(c) \in {"start", "resume", "stop", "pause", "handoff"}
         /\ call[c].expected \in Nat \cup {None}
         /\ run[Run(c)] # None /\ run[Run(c)] \in RunFile
         /\ accepted[Run(c)] \in (SUBSET Ids) \cup {None}
         /\ pc[c] \in {"engine", "exit", "export"} => copy[c] \in RunFile
         /\ Controls(c) => lease[Run(c)] \in Lease
<1>1. call[c] # None /\ call[c] \in CallOf(alive)
  BY DEF Controlled, CallsKnown, TypeOK
<1>2. /\ Run(c) \in Runs /\ Process(c) \in alive
      /\ Op(c) \in {"start", "resume", "stop", "pause", "handoff"}
      /\ call[c].expected \in Nat \cup {None}
  BY <1>1 DEF CallOf, Run, Process, Op, Ops
<1> QED
  BY <1>1, <1>2 DEF Controlled, CallsKnown, LeaseHeld, TypeOK

LEMMA MadeCall ==
  ASSUME NEW P \in SUBSET Processes, NEW p \in P, NEW r \in Runs, NEW expected \in Nat \cup {None},
         NEW op \in {"start", "resume", "stop", "pause", "handoff"}
  PROVE  /\ Call(p, op, r, expected) \in CallOf(P)
         /\ Call(p, op, r, expected) # None
         /\ Call(p, op, r, expected).process = p
         /\ Call(p, op, r, expected).op = op
         /\ Call(p, op, r, expected).run = r
  BY NothingAssumption DEF Call, CallOf, Ops

LEMMA TypeInit == Init => TypeOK
<1> SUFFICES ASSUME Init PROVE TypeOK
  OBVIOUS
<1>1. faults \in 0..MaxFaults
  BY LifecycleAssumption DEF Init
<1>2. /\ run \in [Runs -> RunFile \cup {None}]
      /\ accepted \in [Runs -> (SUBSET Ids) \cup {None}]
      /\ lease \in [Runs -> Lease \cup {None}]
      /\ packet \in [Runs -> Packet \cup {None}]
  BY DEF Init
<1>3. /\ mutation \in Mutation \cup {None}
      /\ guard \in Processes \cup {None}
      /\ alive \subseteq Processes
  BY DEF Init
<1>4. /\ pc \in [Callers -> Steps]
      /\ call \in [Callers -> CallOf(alive) \cup {None}]
      /\ copy \in [Callers -> RunFile \cup {None}]
      /\ beating \in [Callers -> BOOLEAN]
  BY DEF Init, Steps
<1> QED
  BY <1>1, <1>2, <1>3, <1>4 DEF TypeOK

LEMMA TypeStep ==
  ASSUME Controlled, [Next]_vars
  PROVE  TypeOK'
<1> USE DEF At, Goto, files, locals
<1>0. TypeOK /\ (Fault => faults' \in 0..MaxFaults)
  BY LifecycleAssumption DEF Controlled, TypeOK, Fault
<1>1. ASSUME NEW c \in Callers, NEW p \in Processes, NEW r \in Runs, Start(c, p, r)
      PROVE  TypeOK'
  <2>1. Call(p, "start", r, 0) \in CallOf(alive)
    BY <1>0, <1>1, MadeCall DEF TypeOK, Start
  <2>2. Written(0, "CREATED", {}) \in RunFile
    BY WrittenFields DEF Statuses
  <2> QED
    BY <1>0, <1>1, <2>1, <2>2 DEF TypeOK, Start, Steps
<1>2. ASSUME NEW c \in Callers, NEW p \in Processes, NEW r \in Runs,
             NEW op \in Calls[r], NEW blind \in BOOLEAN, Request(c, p, r, op, blind)
      PROVE  TypeOK'
  <2> DEFINE expected == IF blind THEN None ELSE run[r].rev
  <2>1. expected \in Nat \cup {None}
    <3>1. run[r] \in RunFile
      BY <1>0, <1>2 DEF TypeOK, Request
    <3> QED
      BY <3>1, FileFields
  <2>2. op \in {"start", "resume", "stop", "pause", "handoff"} /\ p \in alive
    BY <1>2, LifecycleAssumption DEF Request
  <2>3. Call(p, op, r, expected) \in CallOf(alive)
    BY <1>0, <2>1, <2>2, MadeCall DEF TypeOK
  <2> QED
    BY <1>0, <1>2, <2>3 DEF TypeOK, Request, Steps
<1>3. ASSUME NEW c \in Callers, Enter(c) PROVE TypeOK'
  <2>1. Run(c) \in Runs /\ Process(c) \in Processes
    BY <1>3, CallFields DEF Enter
  <2>2. [run |-> Run(c), process |-> Process(c)] \in Mutation
    BY <2>1 DEF Mutation
  <2> QED
    BY <1>0, <1>3, <2>1, <2>2 DEF TypeOK, Enter, Return, Steps
<1>4. ASSUME NEW c \in Callers, Leave(c) PROVE TypeOK'
  BY <1>0, <1>4 DEF TypeOK, Leave, Return, Steps
<1>5. ASSUME NEW c \in Callers, Claim(c) PROVE TypeOK'
  <2>1. Process(c) \in Processes
    BY <1>5, CallFields DEF Claim
  <2>2. HeldBy(c) \in Lease
    BY <2>1 DEF HeldBy, Lease
  <2> QED
    BY <1>0, <1>5, <2>2 DEF TypeOK, Claim, Steps
<1>6. ASSUME NEW c \in Callers, ClaimFails(c) PROVE TypeOK'
  BY <1>0, <1>6 DEF TypeOK, ClaimFails, Return, Steps
<1>7. ASSUME NEW c \in Callers, Controls(c)
      PROVE  /\ Abandoned(lease[Run(c)]) \in Lease
             /\ [lease[Run(c)] EXCEPT !.expired = FALSE] \in Lease
  <2>1. lease[Run(c)] \in Lease
    BY <1>7, CallFields DEF Controls, Controlling
  <2> QED
    BY <2>1, LeaseFields
<1>8. ASSUME NEW c \in Callers, Prepare(c) PROVE TypeOK'
  <2>1. Abandoned(lease[Run(c)]) \in Lease
    BY <1>7, <1>8 DEF Prepare, Controls, Controlling
  <2>2. CASE UNCHANGED lease
    BY <1>0, <1>8, <2>2 DEF TypeOK, Prepare, Return, Steps
  <2>3. CASE lease' = [lease EXCEPT ![Run(c)] = Abandoned(@)]
    BY <1>0, <1>8, <2>1, <2>3 DEF TypeOK, Prepare, Return, Steps
  <2> QED
    BY <1>8, <2>2, <2>3 DEF Prepare
<1>9. ASSUME NEW c \in Callers, Commit(c) PROVE TypeOK'
  <2>1. /\ Run(c) \in Runs /\ run[Run(c)] \in RunFile
        /\ Op(c) \in {"start", "resume", "stop", "pause", "handoff"}
        /\ call[c] \in CallOf(alive)
    BY <1>9, CallFields DEF Commit
  <2>2. [call[c] EXCEPT !.expected = None] \in CallOf(alive)
    BY <2>1 DEF CallOf
  <2>3. StatusAfter[Op(c)] \in Statuses /\ StepAfter[Op(c)] \in Steps
    BY <2>1 DEF StatusAfter, StepAfter, Statuses, Steps
  <2>4. run[Run(c)].rev + 1 \in Nat /\ run[Run(c)].closed \in SUBSET Ids
    BY <2>1, FileFields
  <2>5. Written(run[Run(c)].rev + 1, StatusAfter[Op(c)], run[Run(c)].closed) \in RunFile
    BY <2>3, <2>4, WrittenFields
  <2>6. CASE Expected(c) /\ Valid(c)
    <3>1. run' \in [Runs -> RunFile \cup {None}] /\ run'[Run(c)] \in RunFile
      BY <1>0, <1>9, <2>1, <2>5, <2>6 DEF TypeOK, Commit, Transition
    <3>2. accepted' \in [Runs -> (SUBSET Ids) \cup {None}]
      BY <1>0, <1>9, <2>6 DEF TypeOK, Commit
    <3> QED
      BY <1>0, <1>9, <2>2, <2>3, <2>6, <3>1, <3>2 DEF TypeOK, Commit
  <2>7. CASE ~(Expected(c) /\ Valid(c))
    BY <1>0, <1>9, <2>2, <2>7 DEF TypeOK, Commit, Steps
  <2> QED
    BY <2>6, <2>7
<1>10. ASSUME NEW c \in Callers, NEW ids \in SUBSET Ids, Work(c, ids)
       PROVE  TypeOK'
  <2>1. Run(c) \in Runs /\ run[Run(c)] \in RunFile
    BY <1>10, CallFields DEF Work
  <2>2. Written(run[Run(c)].rev + 1, run[Run(c)].status, run[Run(c)].closed) \in RunFile
    BY <2>1, FileFields, WrittenFields
  <2> QED
    BY <1>0, <1>10, <2>1, <2>2 DEF TypeOK, Work, Transition
<1>11. ASSUME NEW c \in Callers, NEW status \in Statuses, NEW closed \in SUBSET Ids,
              pc[c] = "engine", Outcome(c, status, closed)
       PROVE  /\ copy' \in [Callers -> RunFile \cup {None}]
              /\ beating' \in [Callers -> BOOLEAN]
              /\ pc' \in [Callers -> Steps]
  <2>1. copy[c] \in RunFile
    BY <1>11, CallFields
  <2>2. Written(copy[c].rev, status, closed) \in RunFile
    BY <2>1, OutcomeFields
  <2> QED
    BY <1>0, <1>11, <2>2 DEF TypeOK, Outcome, Steps
<1>12. ASSUME NEW c \in Callers, pc[c] = "engine", Fails(c)
       PROVE  /\ lease' \in [Runs -> Lease \cup {None}]
              /\ copy' \in [Callers -> RunFile \cup {None}]
              /\ beating' \in [Callers -> BOOLEAN]
              /\ pc' \in [Callers -> Steps]
  <2>1. [lease[Run(c)] EXCEPT !.expired = FALSE] \in Lease
    BY <1>7, <1>12 DEF Controls, Controlling
  <2>2. copy[c].closed \in SUBSET Ids /\ "FAILED" \in Statuses
    BY <1>12, CallFields, FileFields DEF Statuses
  <2>3. Outcome(c, "FAILED", copy[c].closed)
    BY <1>12 DEF Fails
  <2>4. lease' \in [Runs -> Lease \cup {None}]
    BY <1>0, <1>12, <2>1 DEF TypeOK, Fails
  <2> QED
    BY <1>11, <1>12, <2>2, <2>3, <2>4
<1>13. ASSUME NEW c \in Callers, NEW status \in Outcomes, Finish(c, status)
       PROVE  TypeOK'
  <2>1. pc[c] = "engine" /\ status \in Statuses /\ "PAUSED" \in Statuses
    BY <1>13, LifecycleAssumption DEF Finish, Statuses
  <2>2. copy[c].closed \in SUBSET Ids
    BY <2>1, CallFields, FileFields
  <2>3. (IF accepted[Run(c)] = None THEN {} ELSE accepted[Run(c)]) \in SUBSET Ids
    <3>1. accepted[Run(c)] \in (SUBSET Ids) \cup {None}
      BY <2>1, CallFields
    <3> QED
      BY <3>1
  <2>4. /\ lease' \in [Runs -> Lease \cup {None}]
        /\ copy' \in [Callers -> RunFile \cup {None}]
        /\ beating' \in [Callers -> BOOLEAN]
        /\ pc' \in [Callers -> Steps]
    <3>1. CASE beating[c]
      <4>1. lease' = lease
        BY <1>13, <3>1 DEF Finish
      <4> QED
        BY <1>0, <1>11, <1>13, <2>1, <2>2, <2>3, <3>1, <4>1 DEF TypeOK, Finish
    <3>2. CASE ~beating[c]
      BY <1>12, <1>13, <2>1, <3>2 DEF Finish
    <3> QED
      BY <3>1, <3>2
  <2> QED
    BY <1>0, <1>13, <2>4 DEF TypeOK, Finish
<1>14. ASSUME NEW c \in Callers, Raise(c) PROVE TypeOK'
  BY <1>0, <1>12, <1>14 DEF TypeOK, Raise
<1>15. ASSUME NEW c \in Callers, Interrupt(c) PROVE TypeOK'
  BY <1>0, <1>15 DEF TypeOK, Interrupt, Steps
<1>16. ASSUME NEW c \in Callers, Exit(c) PROVE TypeOK'
  <2>1. Run(c) \in Runs /\ run[Run(c)] \in RunFile /\ copy[c] \in RunFile
    BY <1>16, CallFields DEF Exit
  <2>2. Written(run[Run(c)].rev + 1, copy[c].status, copy[c].closed) \in RunFile
    <3>1. run[Run(c)].rev + 1 \in Nat
      BY <2>1, FileFields
    <3>2. copy[c].status \in Statuses /\ copy[c].closed \in SUBSET Ids
      BY <2>1, FileFields
    <3> QED
      BY <3>1, <3>2, WrittenFields
  <2> QED
    BY <1>0, <1>16, <2>1, <2>2 DEF TypeOK, Exit, Transition, Steps
<1>17. ASSUME NEW c \in Callers, Heartbeat(c) PROVE TypeOK'
  <2>1. [lease[Run(c)] EXCEPT !.expired = FALSE] \in Lease
    BY <1>7, <1>17 DEF Heartbeat, Controls, Controlling
  <2> QED
    BY <1>0, <1>17, <2>1 DEF TypeOK, Heartbeat
<1>18. ASSUME NEW c \in Callers, HeartbeatFails(c) PROVE TypeOK'
  BY <1>0, <1>18 DEF TypeOK, HeartbeatFails
<1>19. ASSUME NEW c \in Callers, Export(c) PROVE TypeOK'
  <2>1. copy[c] \in RunFile /\ accepted[Run(c)] \in (SUBSET Ids) \cup {None}
    BY <1>19, CallFields DEF Export
  <2>2. [run |-> copy[c], accepted |-> accepted[Run(c)]] \in Packet
    BY <2>1 DEF Packet
  <2> QED
    BY <1>0, <1>19, <2>2 DEF TypeOK, Export, Steps
<1>20. ASSUME NEW c \in Callers, Release(c) PROVE TypeOK'
  <2>1. Abandoned(lease[Run(c)]) \in Lease
    BY <1>7, <1>20 DEF Release, Controls, Controlling
  <2>2. lease' \in [Runs -> Lease \cup {None}] /\ faults' \in 0..MaxFaults
    BY <1>0, <1>20, <2>1 DEF TypeOK, Release
  <2>3. /\ pc' \in [Callers -> Steps]
        /\ call' \in [Callers -> CallOf(alive) \cup {None}]
        /\ copy' \in [Callers -> RunFile \cup {None}]
        /\ beating' \in [Callers -> BOOLEAN]
    BY <1>0, <1>20 DEF TypeOK, Release, Return, Steps
  <2> QED
    BY <1>0, <1>20, <2>2, <2>3 DEF TypeOK, Release
<1>21. ASSUME NEW r \in Runs, Expire(r) PROVE TypeOK'
  <2>1. lease[r] \in Lease
    BY <1>0, <1>21 DEF TypeOK, Expire
  <2>2. [lease[r] EXCEPT !.expired = TRUE] \in Lease
    BY <2>1, LeaseFields
  <2> QED
    BY <1>0, <1>21, <2>2 DEF TypeOK, Expire
<1>22. ASSUME NEW p \in Processes, Crash(p) PROVE TypeOK'
  <2>1. \A c \in Callers : call'[c] \in CallOf(alive') \cup {None}
    BY <1>0, <1>22 DEF TypeOK, Crash, CallOf, Process
  <2>2. call' \in [Callers -> CallOf(alive') \cup {None}]
    BY <1>22, <2>1 DEF Crash
  <2>3. /\ pc' \in [Callers -> Steps]
        /\ copy' \in [Callers -> RunFile \cup {None}]
        /\ beating' \in [Callers -> BOOLEAN]
    BY <1>0, <1>22 DEF TypeOK, Crash, Steps
  <2> QED
    BY <1>0, <1>22, <2>2, <2>3 DEF TypeOK, Crash
<1>23. CASE UNCHANGED vars
  BY <1>0, <1>23 DEF TypeOK, vars
<1>24. \A c \in Callers : Step(c) => TypeOK'
  <2> SUFFICES ASSUME NEW c \in Callers, Step(c) PROVE TypeOK'
    OBVIOUS
  <2> QED
    BY <1>3, <1>4, <1>5, <1>6, <1>8, <1>9, <1>10, <1>13, <1>14, <1>15, <1>16, <1>17,
       <1>18, <1>19, <1>20 DEF Step
<1> QED
  BY <1>1, <1>2, <1>21, <1>22, <1>23, <1>24 DEF Next

LEMMA OneController ==
  ASSUME Controlled, NEW c \in Callers, NEW d \in Callers,
         Controls(c), Controls(d), Run(c) = Run(d)
  PROVE  c = d
  BY DEF Controlled, LeaseHeld

(* A step of c leaves the other calls alone; so do those of nobody.        *)
Alone(c) ==
    \A d \in Callers \ {c} :
        pc'[d] = pc[d] /\ call'[d] = call[d] /\ copy'[d] = copy[d]

LEMMA StepIsAlone ==
  ASSUME Controlled, NEW c \in Callers,
         \/ Step(c)
         \/ \E p \in Processes, r \in Runs :
              Start(c, p, r) \/ \E op \in Calls[r], blind \in BOOLEAN :
                                    Request(c, p, r, op, blind)
  PROVE  Alone(c)
<1> USE DEF Alone, At, Goto, files, locals
<1>1. /\ pc \in [Callers -> Steps] /\ copy \in [Callers -> RunFile \cup {None}]
      /\ call \in [Callers -> CallOf(alive) \cup {None}]
  BY DEF Controlled, TypeOK
<1>2. CASE \E p \in Processes, r \in Runs :
             Start(c, p, r) \/ \E op \in Calls[r], blind \in BOOLEAN :
                                   Request(c, p, r, op, blind)
  BY <1>1, <1>2 DEF Start, Request
<1>3. CASE Step(c)
  BY <1>1, <1>3
  DEF Step, Enter, Leave, Claim, ClaimFails, Prepare, Commit, Work, Finish, Fails,
      Outcome, Raise, Interrupt, Exit, Heartbeat, HeartbeatFails, Export, Release,
      Return
<1> QED
  BY <1>2, <1>3

(* What a call must do to leave the invariant true of the others.          *)
LEMMA Keeps ==
  ASSUME Controlled, NEW c \in Callers, Alone(c),
         \A r \in Runs : run[r] # None => run'[r] # None,
         \A r \in Runs : \/ lease'[r] = lease[r]
                         \/ r = Run(c) /\ (Controls(c) \/ Claim(c)),
         pc'[c] # "idle" =>
            /\ call'[c] # None /\ run'[Run(c)'] # None
            /\ pc'[c] \in {"enter", "engine", "exit", "leave"} => Op(c)' = "resume"
            /\ pc'[c] = "prepare" => Op(c)' = "start"
            /\ pc'[c] = "export" => Op(c)' = "handoff"
            /\ pc'[c] \in {"engine", "exit", "export"} => copy'[c] # None,
         Controls(c)' =>
            /\ lease'[Run(c)'] # None
            /\ lease'[Run(c)'].caller = c /\ lease'[Run(c)'].process = Process(c)'
  PROVE  CallsKnown' /\ LeaseHeld'
<1>1. ASSUME NEW d \in Callers, d # c, pc'[d] # "idle"
      PROVE  /\ pc[d] = pc'[d] /\ Run(d)' = Run(d) /\ Op(d)' = Op(d)
             /\ Process(d)' = Process(d) /\ Run(d) \in Runs
             /\ Process(d) \in alive
             /\ Controls(d)' = Controls(d)
  BY <1>1, CallFields DEF Alone, Run, Op, Process, Controls
<1>2. ASSUME NEW d \in Callers, d # c, Controls(d)'
      PROVE  lease'[Run(d)] = lease[Run(d)]
  <2>1. pc'[d] # "idle"
    BY <1>2 DEF Controls, Controlling
  <2>2. Controls(d)
    BY <1>1, <1>2, <2>1
  <2>3. CASE Controls(c)
    BY <1>1, <1>2, <2>1, <2>2, <2>3, OneController
  <2>4. CASE Claim(c)
    <3>1. lease[Run(d)] # None /\ lease[Run(d)].process \in alive
      BY <1>1, <1>2, <2>1, <2>2 DEF Controlled, LeaseHeld
    <3> QED
      BY <1>1, <1>2, <2>1, <2>4, <3>1 DEF Claim, Claimable
  <2> QED
    BY <1>1, <1>2, <2>1, <2>3, <2>4
<1>3. ASSUME NEW d \in Callers, d # c, pc'[d] # "idle"
      PROVE  /\ call'[d] # None /\ run'[Run(d)'] # None
             /\ pc'[d] \in {"enter", "engine", "exit", "leave"} => Op(d)' = "resume"
             /\ pc'[d] = "prepare" => Op(d)' = "start"
             /\ pc'[d] = "export" => Op(d)' = "handoff"
             /\ pc'[d] \in {"engine", "exit", "export"} => copy'[d] # None
  BY <1>1, <1>3 DEF Controlled, CallsKnown, Alone
<1>4. CallsKnown'
  BY <1>3 DEF CallsKnown
<1>5. ASSUME NEW d \in Callers, d # c, Controls(d)'
      PROVE  /\ lease'[Run(d)'] # None
             /\ lease'[Run(d)'].caller = d /\ lease'[Run(d)'].process = Process(d)'
  <2>1. pc'[d] # "idle"
    BY <1>5 DEF Controls, Controlling
  <2> QED
    BY <1>1, <1>2, <1>5, <2>1 DEF Controlled, LeaseHeld
<1>6. LeaseHeld'
  BY <1>5 DEF LeaseHeld
<1> QED
  BY <1>4, <1>6

LEMMA RunsStay ==
  ASSUME Controlled, [Next]_vars, NEW r \in Runs, run[r] # None
  PROVE  run'[r] # None
<1> USE DEF files
<1>1. run' \in [Runs -> RunFile \cup {None}] /\ run \in [Runs -> RunFile \cup {None}]
  BY TypeStep DEF Controlled, TypeOK
<1>2. ASSUME NEW c \in Callers, NEW status \in Statuses, NEW closed \in SUBSET Ids,
             pc[c] # "idle", Transition(c, status, closed)
      PROVE  run'[r] # None
  <2>1. run[Run(c)].rev + 1 \in Nat
    BY <1>2, CallFields, FileFields
  <2>2. Written(run[Run(c)].rev + 1, status, closed) # None
    BY <1>2, <2>1, WrittenFields
  <2> QED
    BY <1>1, <1>2, <2>2 DEF Transition
<1>3. ASSUME NEW c \in Callers, Commit(c) PROVE run'[r] # None
  <2>1. StatusAfter[Op(c)] \in Statuses
    BY <1>3, CallFields DEF Commit, At, StatusAfter, Statuses
  <2>2. run[Run(c)].closed \in SUBSET Ids
    BY <1>3, CallFields, FileFields DEF Commit, At
  <2> QED
    BY <1>2, <1>3, <2>1, <2>2 DEF Commit, At
<1>4. ASSUME NEW c \in Callers, NEW ids, Work(c, ids) PROVE run'[r] # None
  <2>1. run[Run(c)].status \in Statuses /\ run[Run(c)].closed \in SUBSET Ids
    BY <1>4, CallFields, FileFields DEF Work, At
  <2> QED
    BY <1>2, <1>4, <2>1 DEF Work, At
<1>5. ASSUME NEW c \in Callers, Exit(c) PROVE run'[r] # None
  <2>1. copy[c].status \in Statuses /\ copy[c].closed \in SUBSET Ids
    BY <1>5, CallFields, FileFields DEF Exit, At
  <2> QED
    BY <1>2, <1>5, <2>1 DEF Exit, At
<1>6. ASSUME NEW c \in Callers, NEW p \in Processes, NEW q \in Runs, Start(c, p, q)
      PROVE  run'[r] # None
  BY <1>1, <1>6 DEF Start
<1> QED
  BY <1>3, <1>4, <1>5, <1>6
  DEF Next, Step, Request, Enter, Leave, Claim, ClaimFails, Prepare, Finish, Raise,
      Interrupt, Heartbeat, HeartbeatFails, Export, Release, Expire, Crash, vars

(* Who keeps the lease and the step of a call, by what the call does.      *)
LEMMA ControlledStep ==
  ASSUME Controlled, [Next]_vars
  PROVE  Controlled'
<1> USE DEF At, Goto, files, locals, Controls, Controlling
<1>0. /\ TypeOK'
      /\ \A r \in Runs : run[r] # None => run'[r] # None
      /\ \A c \in Callers : Step(c) => Alone(c)
  BY TypeStep, RunsStay, StepIsAlone
<1>1. /\ pc \in [Callers -> Steps] /\ call \in [Callers -> CallOf(alive) \cup {None}]
      /\ copy \in [Callers -> RunFile \cup {None}] /\ run \in [Runs -> RunFile \cup {None}]
      /\ lease \in [Runs -> Lease \cup {None}]
      /\ alive \subseteq Processes
  BY DEF Controlled, TypeOK
<1>2. ASSUME NEW c \in Callers, NEW p \in Processes, NEW r \in Runs, Start(c, p, r)
      PROVE  CallsKnown' /\ LeaseHeld'
  <2>1. Call(p, "start", r, 0) # None
    BY <1>1, <1>2, MadeCall DEF Start
  <2>2. Written(0, "CREATED", {}) # None
    BY WrittenFields DEF Statuses
  <2>3. /\ pc'[c] = "claim" /\ call'[c] = Call(p, "start", r, 0) /\ lease' = lease
        /\ Run(c)' = r /\ run'[r] = Written(0, "CREATED", {})
    BY <1>1, <1>2 DEF Start, Run, Call
  <2>4. Alone(c)
    BY <1>2, StepIsAlone
  <2>5. ~Controls(c)' /\ call'[c] # None /\ run'[Run(c)'] # None
    BY <2>1, <2>2, <2>3
  <2> HIDE DEF Controls
  <2> QED
    BY <1>0, <2>3, <2>4, <2>5, Keeps
<1>3. ASSUME NEW c \in Callers, NEW p \in Processes, NEW r \in Runs,
             NEW op \in Calls[r], NEW blind \in BOOLEAN, Request(c, p, r, op, blind)
      PROVE  CallsKnown' /\ LeaseHeld'
  <2> DEFINE expected == IF blind THEN None ELSE run[r].rev
             made == Call(p, op, r, expected)
  <2>1. expected \in Nat \cup {None}
    BY <1>1, <1>3, FileFields DEF Request
  <2>2. op \in {"start", "resume", "stop", "pause", "handoff"} /\ p \in alive
    BY <1>3, LifecycleAssumption DEF Request
  <2>3. made # None /\ made.op = op /\ made.run = r
    <3>1. alive \in SUBSET Processes
      BY <1>1
    <3> HIDE DEF expected
    <3> QED
      BY <2>1, <2>2, <3>1, MadeCall
  <2>4. /\ call'[c] = made /\ lease' = lease /\ run'[r] # None
        /\ pc'[c] = IF op = "resume" THEN "enter" ELSE "claim"
    BY <1>1, <1>3 DEF Request
  <2>5. Alone(c)
    BY <1>3, StepIsAlone
  <2>6. Op(c)' = op /\ Run(c)' = r
    BY <2>3, <2>4 DEF Op, Run
  <2>7. call'[c] # None
    BY <2>3, <2>4
  <2>8. ~Controls(c)' /\ run'[Run(c)'] # None
    BY <2>4, <2>6
  <2> HIDE DEF Controls, made, expected
  <2> QED
    BY <1>0, <2>4, <2>5, <2>6, <2>7, <2>8, Keeps
(* The call stays what it is, or the step ends it.                         *)
<1>4. ASSUME NEW c \in Callers, Step(c), pc[c] # "idle",
             pc'[c] = "idle" \/ call'[c] = call[c] \/ Commit(c),
             \A r \in Runs : \/ lease'[r] = lease[r]
                             \/ r = Run(c) /\ (Controls(c) \/ Claim(c)),
             pc'[c] \in {"enter", "engine", "exit", "leave"} => Op(c) = "resume",
             pc'[c] = "prepare" => Op(c) = "start",
             pc'[c] = "export" => Op(c) = "handoff",
             pc'[c] \in {"engine", "exit", "export"} => copy'[c] # None,
             Controls(c)' => /\ lease'[Run(c)] # None
                             /\ lease'[Run(c)].caller = c
                             /\ lease'[Run(c)].process = Process(c)
      PROVE  CallsKnown' /\ LeaseHeld'
  <2>1. /\ call[c] # None /\ call[c] \in CallOf(alive) /\ Run(c) \in Runs
        /\ run[Run(c)] # None
    BY <1>4, CallFields
  <2>2. pc'[c] # "idle" => /\ Run(c)' = Run(c) /\ Op(c)' = Op(c)
                           /\ Process(c)' = Process(c) /\ call'[c] # None
    <3>1. CASE Commit(c)
      <4>1. call'[c] = [call[c] EXCEPT !.expected = None]
        BY <1>1, <3>1 DEF Commit
      <4>2. [call[c] EXCEPT !.expected = None] \in CallOf(alive)
        BY <2>1 DEF CallOf
      <4>3. CallOf(alive) \subseteq CallOf(Processes)
        BY <1>1 DEF CallOf
      <4>4. call'[c] # None
        BY <4>1, <4>2, <4>3, NothingAssumption
      <4> QED
        BY <2>1, <4>1, <4>4 DEF CallOf, Run, Op, Process
    <3> QED
      BY <1>4, <2>1, <3>1 DEF Run, Op, Process
  <2> QED
    BY <1>0, <1>4, <2>1, <2>2, Keeps
<1>5. ASSUME NEW c \in Callers, Controls(c)
      PROVE  /\ lease[Run(c)] # None /\ Run(c) \in Runs
             /\ lease[Run(c)].caller = c /\ lease[Run(c)].process = Process(c)
             /\ \A late \in BOOLEAN :
                  LET l == [lease[Run(c)] EXCEPT !.expired = late]
                  IN  l # None /\ l.caller = c /\ l.process = Process(c)
  <2>1. /\ lease[Run(c)] # None /\ lease[Run(c)].caller = c
        /\ lease[Run(c)].process = Process(c)
    BY <1>5 DEF Controlled, LeaseHeld
  <2>2. lease[Run(c)] \in Lease /\ Run(c) \in Runs
    BY <1>5, CallFields
  <2> QED
    BY <2>1, <2>2, LeaseFields
<1>6. ASSUME NEW c \in Callers, pc[c] # "idle"
      PROVE  /\ pc[c] \in {"enter", "engine", "exit", "leave"} => Op(c) = "resume"
             /\ pc[c] = "prepare" => Op(c) = "start"
             /\ pc[c] = "export" => Op(c) = "handoff"
             /\ pc[c] \in {"engine", "exit", "export"} => copy[c] # None
  BY <1>6 DEF Controlled, CallsKnown
<1>7. ASSUME NEW c \in Callers, Enter(c) PROVE CallsKnown' /\ LeaseHeld'
  <2>1. /\ pc[c] = "enter" /\ pc'[c] \in {"idle", "leave", "claim"} /\ lease' = lease
        /\ pc'[c] = "idle" \/ call'[c] = call[c]
    BY <1>1, <1>7 DEF Enter, Return
  <2>2. Step(c)
    BY <1>7 DEF Step
  <2>3. Op(c) = "resume"
    BY <1>6, <2>1
  <2> QED
    BY <1>4, <2>1, <2>2, <2>3
<1>8. ASSUME NEW c \in Callers, Leave(c) PROVE CallsKnown' /\ LeaseHeld'
  <2>1. pc[c] = "leave" /\ pc'[c] = "idle" /\ lease' = lease
    BY <1>1, <1>8 DEF Leave, Return
  <2>2. Step(c)
    BY <1>8 DEF Step
  <2> QED
    BY <1>4, <2>1, <2>2
<1>9. ASSUME NEW c \in Callers, Claim(c) PROVE CallsKnown' /\ LeaseHeld'
  <2>1. Process(c) \in Processes /\ Run(c) \in Runs
    BY <1>9, CallFields DEF Claim
  <2>2. HeldBy(c) # None /\ HeldBy(c).caller = c /\ HeldBy(c).process = Process(c)
    <3>1. HeldBy(c) \in Lease
      BY <2>1 DEF HeldBy, Lease
    <3> QED
      BY <3>1, NothingAssumption DEF HeldBy
  <2>3. lease'[Run(c)] = HeldBy(c)
    BY <1>1, <1>9, <2>1 DEF Claim
  <2> QED
    BY <1>1, <1>4, <1>9, <2>1, <2>2, <2>3 DEF Step, Claim
<1>10. ASSUME NEW c \in Callers, ClaimFails(c) PROVE CallsKnown' /\ LeaseHeld'
  <2>1. /\ pc[c] = "claim" /\ lease' = lease
        /\ \/ pc'[c] = "idle"
           \/ pc'[c] = "leave" /\ call' = call /\ Op(c) = "resume"
    BY <1>1, <1>10 DEF ClaimFails, Return
  <2>2. Step(c)
    BY <1>10 DEF Step
  <2> QED
    BY <1>4, <2>1, <2>2
<1>11. ASSUME NEW c \in Callers, Prepare(c) PROVE CallsKnown' /\ LeaseHeld'
  BY <1>1, <1>4, <1>5, <1>11 DEF Step, Prepare, Return
<1>12. ASSUME NEW c \in Callers, Commit(c) PROVE CallsKnown' /\ LeaseHeld'
  <2>1. /\ Op(c) \in {"start", "resume", "stop", "pause", "handoff"}
        /\ run[Run(c)] # None /\ Run(c) \in Runs
    BY <1>12, CallFields DEF Commit
  <2>2. /\ StepAfter[Op(c)] \in {"engine", "export", "release"}
        /\ StepAfter[Op(c)] = "engine" => Op(c) = "resume"
        /\ StepAfter[Op(c)] = "export" => Op(c) = "handoff"
    BY <2>1 DEF StepAfter
  <2>3. /\ pc'[c] \in {StepAfter[Op(c)], "release"} /\ lease' = lease
        /\ pc'[c] = "release" \/ copy'[c] = run'[Run(c)]
    BY <1>1, <1>12 DEF Commit
  <2> QED
    BY <1>0, <1>4, <1>5, <1>12, <2>1, <2>2, <2>3 DEF Step, Commit
<1>13. ASSUME NEW c \in Callers, NEW ids, Work(c, ids), Step(c)
       PROVE  CallsKnown' /\ LeaseHeld'
  BY <1>4, <1>5, <1>6, <1>13 DEF Work
<1>14. ASSUME NEW c \in Callers, NEW status, NEW closed, pc[c] = "engine",
              status \in Statuses, closed \in SUBSET Ids, Outcome(c, status, closed)
       PROVE  copy'[c] # None /\ pc'[c] = "exit"
  <2>1. copy[c] \in RunFile
    BY <1>14, CallFields
  <2>2. Written(copy[c].rev, status, closed) # None
    <3>1. Written(copy[c].rev, status, closed) \in RunFile
      BY <1>14, <2>1, OutcomeFields
    <3> QED
      BY <3>1, NothingAssumption
  <2> QED
    BY <1>1, <1>14, <2>2 DEF Outcome
<1>15. ASSUME NEW c \in Callers, NEW status,
              (Finish(c, status) /\ status \in Outcomes) \/ Raise(c)
       PROVE  /\ copy'[c] # None /\ pc'[c] = "exit" /\ pc[c] = "engine"
              /\ call'[c] = call[c]
              /\ \/ lease' = lease
                 \/ lease' = [lease EXCEPT ![Run(c)].expired = FALSE]
  <2>1. /\ pc[c] = "engine" /\ call' = call
        /\ \/ Fails(c)
           \/ status \in Outcomes /\ \/ Outcome(c, status, copy[c].closed)
                                     \/ Outcome(c, status, IF accepted[Run(c)] = None THEN {}
                                                           ELSE accepted[Run(c)])
    BY <1>15 DEF Finish, Raise
  <2>2. copy[c].closed \in SUBSET Ids /\ Outcomes \subseteq Statuses /\ "FAILED" \in Statuses
    BY <2>1, CallFields, FileFields, LifecycleAssumption DEF Statuses
  <2>3. (IF accepted[Run(c)] = None THEN {} ELSE accepted[Run(c)]) \in SUBSET Ids
    <3>1. accepted[Run(c)] \in (SUBSET Ids) \cup {None}
      BY <2>1, CallFields
    <3> QED
      BY <3>1
  <2>4. copy'[c] # None /\ pc'[c] = "exit"
    BY <1>14, <2>1, <2>2, <2>3 DEF Fails
  <2> QED
    BY <1>15, <2>1, <2>4 DEF Finish, Raise, Fails
<1>16. ASSUME NEW c \in Callers, NEW status, Step(c),
              (Finish(c, status) /\ status \in Outcomes) \/ Raise(c)
       PROVE  CallsKnown' /\ LeaseHeld'
  <2>1. /\ copy'[c] # None /\ pc'[c] = "exit" /\ pc[c] = "engine"
        /\ call'[c] = call[c]
        /\ \/ lease' = lease
           \/ lease' = [lease EXCEPT ![Run(c)].expired = FALSE]
    BY <1>15, <1>16
  <2>2. Op(c) = "resume"
    BY <1>6, <2>1
  <2>3. /\ lease'[Run(c)] # None /\ lease'[Run(c)].caller = c
        /\ lease'[Run(c)].process = Process(c)
        /\ \A r \in Runs \ {Run(c)} : lease'[r] = lease[r]
    BY <1>1, <1>5, <2>1
  <2> QED
    BY <1>4, <1>16, <2>1, <2>2, <2>3
<1>17. ASSUME NEW c \in Callers, Interrupt(c) \/ Exit(c) PROVE CallsKnown' /\ LeaseHeld'
  BY <1>1, <1>4, <1>5, <1>17 DEF Step, Interrupt, Exit
<1>18. ASSUME NEW c \in Callers, Heartbeat(c) PROVE CallsKnown' /\ LeaseHeld'
  <2>1. pc[c] = "engine" /\ lease' = [lease EXCEPT ![Run(c)].expired = FALSE]
        /\ UNCHANGED <<pc, call, copy>>
    BY <1>18 DEF Heartbeat
  <2>2. /\ lease'[Run(c)] # None /\ lease'[Run(c)].caller = c
        /\ lease'[Run(c)].process = Process(c)
        /\ \A r \in Runs \ {Run(c)} : lease'[r] = lease[r]
    BY <1>1, <1>5, <2>1
  <2> QED
    BY <1>4, <1>6, <1>18, <2>1, <2>2 DEF Step
<1>19. ASSUME NEW c \in Callers, HeartbeatFails(c) PROVE CallsKnown' /\ LeaseHeld'
  BY <1>4, <1>5, <1>6, <1>19 DEF Step, HeartbeatFails
<1>20. ASSUME NEW c \in Callers, Export(c) PROVE CallsKnown' /\ LeaseHeld'
  BY <1>1, <1>4, <1>5, <1>20 DEF Step, Export
<1>21. ASSUME NEW c \in Callers, Release(c) PROVE CallsKnown' /\ LeaseHeld'
  <2>1. /\ pc[c] = "release"
        /\ \/ pc'[c] = "idle"
           \/ pc'[c] = "leave" /\ call' = call /\ Op(c) = "resume"
        /\ \A r \in Runs \ {Run(c)} : lease'[r] = lease[r]
    BY <1>1, <1>21 DEF Release, Return
  <2> QED
    BY <1>4, <1>21, <2>1 DEF Step
<1>22. ASSUME NEW r \in Runs, Expire(r) PROVE CallsKnown' /\ LeaseHeld'
  <2>1. CallsKnown'
    BY <1>22 DEF Expire, Controlled, CallsKnown, Op, Run
  <2>2. ASSUME NEW c \in Callers, Controls(c)
        PROVE  /\ lease'[Run(c)] # None /\ lease'[Run(c)].caller = c
               /\ lease'[Run(c)].process = Process(c)
    BY <1>1, <1>5, <1>22, <2>2 DEF Expire
  <2> QED
    BY <1>22, <2>1, <2>2 DEF Expire, LeaseHeld, Run, Process
<1>23. ASSUME NEW p \in Processes, Crash(p) PROVE CallsKnown' /\ LeaseHeld'
  <2>1. \A c \in Callers : pc'[c] # "idle" =>
            pc'[c] = pc[c] /\ call'[c] = call[c] /\ copy'[c] = copy[c]
    BY <1>1, <1>23 DEF Crash
  <2>2. run' = run /\ lease' = lease
    BY <1>23 DEF Crash
  <2>3. \A c \in Callers : pc'[c] # "idle" =>
            Run(c)' = Run(c) /\ Op(c)' = Op(c) /\ Process(c)' = Process(c)
    BY <2>1 DEF Run, Op, Process
  <2>4. CallsKnown'
    BY <2>1, <2>2, <2>3 DEF Controlled, CallsKnown
  <2>5. LeaseHeld'
    BY <2>1, <2>2, <2>3 DEF Controlled, LeaseHeld
  <2> QED
    BY <2>4, <2>5
<1>24. CASE UNCHANGED vars
  <2>1. UNCHANGED <<pc, call, copy, run, lease>>
    BY <1>24 DEF vars
  <2>2. CallsKnown'
    BY <2>1 DEF Controlled, CallsKnown, Op, Run
  <2>3. LeaseHeld'
    BY <2>1 DEF Controlled, LeaseHeld, Run, Process
  <2> QED
    BY <1>0, <2>2, <2>3 DEF Controlled
<1>25. ASSUME NEW c \in Callers, Step(c) PROVE CallsKnown' /\ LeaseHeld'
  BY <1>7, <1>8, <1>9, <1>10, <1>11, <1>12, <1>13, <1>16, <1>17, <1>18, <1>19, <1>20,
     <1>21, <1>25 DEF Step
<1>26. ASSUME Next PROVE CallsKnown' /\ LeaseHeld'
  BY <1>2, <1>3, <1>22, <1>23, <1>25, <1>26 DEF Next
<1> QED
  BY <1>0, <1>24, <1>26 DEF Controlled

(* Every file and every variable holds what its readers expect.            *)
THEOREM LifecycleTyped == Spec => []TypeOK
<1>1. Init => Controlled
  <2> SUFFICES ASSUME Init PROVE Controlled
    OBVIOUS
  <2>1. CallsKnown /\ LeaseHeld
    BY DEF Init, CallsKnown, LeaseHeld, Controls, Controlling
  <2> QED
    BY <2>1, TypeInit DEF Controlled
<1>2. Controlled => TypeOK
  BY DEF Controlled
<1> QED
  BY <1>1, <1>2, ControlledStep, PTL DEF Spec
----------------------------------------------------------------------------
(* The guard and the record of the checkout mutation lease.  A resume has  *)
(* both from Enter to Leave, and nobody else has them meanwhile.           *)
Guards(c) == pc[c] \notin {"idle", "enter"} /\ Op(c) = "resume"
GuardHeld ==
    \A c \in Callers : Guards(c) =>
        /\ guard = Process(c)
        /\ \A d \in Callers : Guards(d) => d = c
        /\ pc[c] # "leave" => mutation = [run |-> Run(c), process |-> Process(c)]

LEMMA GuardUntouched ==
  ASSUME GuardHeld, UNCHANGED <<guard, mutation>>,
         \A c \in Callers : Guards(c)' =>
            /\ Guards(c) /\ call'[c].run = call[c].run
            /\ call'[c].process = call[c].process
            /\ pc[c] = "leave" => pc'[c] = "leave"
  PROVE  GuardHeld'
<1>1. \A c \in Callers : Guards(c)' => Run(c)' = Run(c) /\ Process(c)' = Process(c)
  BY DEF Run, Process
<1> QED
  BY <1>1 DEF GuardHeld

LEMMA GuardStep ==
  ASSUME Controlled, Controlled', GuardHeld, [Next]_vars
  PROVE  GuardHeld'
<1> USE DEF At, Goto, files, locals
<1>1. /\ pc \in [Callers -> Steps] /\ call \in [Callers -> CallOf(alive) \cup {None}]
      /\ \A c \in Callers : Step(c) => Alone(c)
  BY StepIsAlone DEF Controlled, TypeOK
<1>2. ASSUME NEW c \in Callers, NEW p \in Processes, NEW r \in Runs,
             \/ Start(c, p, r)
             \/ \E op \in Calls[r], blind \in BOOLEAN : Request(c, p, r, op, blind)
      PROVE  GuardHeld'
  <2>1. Alone(c) /\ UNCHANGED <<guard, mutation>>
    BY <1>2, StepIsAlone DEF Start, Request
  <2>2. ~Guards(c)'
    <3>1. CASE Start(c, p, r)
      <4>1. call'[c].op = "start"
        BY <1>1, <3>1 DEF Start, Call
      <4> QED
        BY <4>1 DEF Guards, Op
    <3>2. ASSUME NEW op \in Calls[r], NEW blind \in BOOLEAN, Request(c, p, r, op, blind)
          PROVE  ~Guards(c)'
      <4>1. call'[c].op = op /\ pc'[c] = IF op = "resume" THEN "enter" ELSE "claim"
        BY <1>1, <3>2 DEF Request, Call
      <4> QED
        BY <4>1 DEF Guards, Op
    <3> QED
      BY <1>2, <3>1, <3>2
  <2> QED
    BY <2>1, <2>2, GuardUntouched DEF Alone, Guards, Op
<1>3. ASSUME NEW c \in Callers, Enter(c) PROVE GuardHeld'
  <2>1. Alone(c) /\ call[c] # None
    BY <1>1, <1>3, CallFields DEF Step, Enter
  <2>2. CASE Free(c)
    <3>1. \A d \in Callers : ~Guards(d)
      <4> SUFFICES ASSUME NEW d \in Callers, Guards(d) PROVE FALSE
        OBVIOUS
      <4>1. Process(d) \in alive
        BY CallFields DEF Guards
      <4> QED
        BY <2>2, <4>1 DEF GuardHeld, Free
    <3>2. \A d \in Callers \ {c} : ~Guards(d)'
      BY <2>1, <3>1 DEF Alone, Guards, Op
    <3>3. call' = call /\ guard' = Process(c)
      BY <1>3, <2>2 DEF Enter
    <3>4. \/ pc'[c] = "leave"
          \/ mutation' = [run |-> Run(c), process |-> Process(c)]
      BY <1>1, <1>3, <2>2 DEF Enter
    <3> QED
      BY <3>2, <3>3, <3>4 DEF GuardHeld, Run, Process
  <2>3. CASE ~Free(c)
    <3>1. pc'[c] = "idle" /\ UNCHANGED <<guard, mutation>>
      BY <1>1, <1>3, <2>3 DEF Enter, Return
    <3> QED
      BY <2>1, <3>1, GuardUntouched DEF Alone, Guards, Op
  <2> QED
    BY <2>2, <2>3
<1>4. ASSUME NEW c \in Callers, Leave(c) PROVE GuardHeld'
  <2>1. Alone(c) /\ Guards(c) /\ pc'[c] = "idle"
    BY <1>1, <1>4 DEF Step, Leave, Return, Controlled, CallsKnown, Guards
  <2>2. \A d \in Callers : ~Guards(d)'
    BY <2>1 DEF GuardHeld, Alone, Guards, Op
  <2> QED
    BY <2>2 DEF GuardHeld
<1>5. ASSUME NEW c \in Callers, Step(c), ~Enter(c), ~Leave(c) PROVE GuardHeld'
  <2>1. /\ Alone(c) /\ UNCHANGED <<guard, mutation>>
        /\ pc[c] \notin {"idle", "enter", "leave"} /\ call[c] \in CallOf(alive)
        /\ \/ pc'[c] = "idle" \/ call'[c] = call[c]
           \/ call'[c] = [call[c] EXCEPT !.expected = None]
    <3>1. /\ UNCHANGED <<guard, mutation>>
          /\ pc[c] \notin {"idle", "enter", "leave"}
          /\ \/ pc'[c] = "idle" \/ call'[c] = call[c]
             \/ call'[c] = [call[c] EXCEPT !.expected = None]
      BY <1>1, <1>5
      DEF Step, Claim, ClaimFails, Prepare, Commit, Work, Finish, Fails, Outcome, Raise,
          Interrupt, Exit, Heartbeat, HeartbeatFails, Export, Release, Return
    <3> QED
      BY <1>1, <1>5, <3>1, CallFields
  <2>2. \/ pc'[c] = "idle"
        \/ /\ call'[c].run = call[c].run /\ call'[c].op = call[c].op
           /\ call'[c].process = call[c].process
    BY <2>1 DEF CallOf
  <2> QED
    BY <2>1, <2>2, GuardUntouched DEF Alone, Guards, Op
<1>6. ASSUME NEW r \in Runs, Expire(r) PROVE GuardHeld'
  BY <1>6, GuardUntouched DEF Expire, Guards, Op
<1>7. ASSUME NEW p \in Processes, Crash(p) PROVE GuardHeld'
  <2>1. /\ UNCHANGED <<guard, mutation>>
        /\ \A c \in Callers : pc'[c] # "idle" => pc'[c] = pc[c] /\ call'[c] = call[c]
    BY <1>1, <1>7 DEF Crash
  <2> QED
    BY <2>1, GuardUntouched DEF Guards, Op
<1>8. CASE UNCHANGED vars
  BY <1>8, GuardUntouched DEF vars, Guards, Op
<1> QED
  BY <1>2, <1>3, <1>4, <1>5, <1>6, <1>7, <1>8 DEF Next

(* One engine at a time works on the checkout, whatever runs, threads and  *)
(* processes there are and whoever of them has died, and MUTATING_RUN.json *)
(* says which (checkout_mutation).                                         *)
THEOREM OneEngine == Spec => []OneMutatingRun
<1>1. Init => Controlled /\ GuardHeld
  <2> SUFFICES ASSUME Init PROVE Controlled /\ GuardHeld
    OBVIOUS
  <2>1. CallsKnown /\ LeaseHeld /\ GuardHeld
    BY DEF Init, CallsKnown, LeaseHeld, Controls, Controlling, GuardHeld, Guards
  <2> QED
    BY <2>1, TypeInit DEF Controlled
<1>2. Controlled /\ GuardHeld /\ [Next]_vars => (Controlled /\ GuardHeld)'
  BY ControlledStep, GuardStep
<1>3. Controlled /\ GuardHeld => OneMutatingRun
  <2> SUFFICES ASSUME Controlled, GuardHeld PROVE OneMutatingRun
    OBVIOUS
  <2>1. \A c \in Callers : Engine(c) => Guards(c) /\ pc[c] # "leave"
    BY DEF Engine, Working, Guards, Controlled, CallsKnown
  <2> QED
    BY <2>1 DEF GuardHeld, OneMutatingRun
<1> QED
  BY <1>1, <1>2, <1>3, PTL DEF Spec
----------------------------------------------------------------------------
(* What the files say of a run, and what an engine will write back of it.  *)
HonestFile(r) ==
    /\ run[r].closed # {} => accepted[r] # None /\ run[r].closed \subseteq accepted[r]
    /\ run[r].status = "SUCCEEDED" => run[r].closed = Ids /\ accepted[r] = Ids
    /\ run[r].rev = 0 => run[r].closed = {} /\ run[r].status # "SUCCEEDED"

HonestEngine(c) ==
    /\ run[Run(c)].status = "RUNNING"
    /\ run[Run(c)].closed \subseteq copy[c].closed
    /\ copy[c].closed # {} =>
          accepted[Run(c)] # None /\ copy[c].closed \subseteq accepted[Run(c)]
    /\ pc[c] = "engine" => copy[c].status = "RUNNING"
    /\ copy[c].status = "SUCCEEDED" => copy[c].closed = Ids /\ accepted[Run(c)] = Ids

(* A start writes its tasks into the run it has created, and no other.     *)
StartsFresh(c) ==
    pc[c] \in {"claim", "prepare", "commit"} /\ Op(c) = "start" => call[c].expected = 0

Honest ==
    /\ \A r \in Runs : run[r] # None => HonestFile(r)
    /\ \A c \in Callers : (Engine(c) => HonestEngine(c)) /\ StartsFresh(c)

(* The files of a run change only in the hands of who controls it.         *)
LEMMA FilesOfOthers ==
  ASSUME Controlled, [Next]_vars, NEW d \in Callers, Controls(d),
         NEW c \in Callers, c # d,
         \/ Step(c)
         \/ \E p \in Processes, r \in Runs :
              \/ Start(c, p, r)
              \/ \E op \in Calls[r], blind \in BOOLEAN : Request(c, p, r, op, blind)
  PROVE  /\ run'[Run(d)] = run[Run(d)] /\ accepted'[Run(d)] = accepted[Run(d)]
         /\ packet'[Run(d)] = packet[Run(d)]
<1> USE DEF At, Goto, files, locals
<1>1. /\ run \in [Runs -> RunFile \cup {None}]
      /\ accepted \in [Runs -> (SUBSET Ids) \cup {None}]
      /\ packet \in [Runs -> Packet \cup {None}]
  BY DEF Controlled, TypeOK
<1>2. pc[d] # "idle"
  BY DEF Controls, Controlling
<1>3. run[Run(d)] # None
  BY <1>2, CallFields
<1>4. Controls(c) => Run(c) # Run(d)
  BY OneController
<1>5. CASE Step(c)
  <2>1. CASE Controls(c)
    <3>0. Run(d) \in Runs /\ Run(c) # Run(d)
      BY <1>2, <1>4, <2>1, CallFields
    <3>1. CASE Commit(c)
      BY <1>1, <3>0, <3>1 DEF Commit, Transition
    <3>2. ASSUME NEW ids, Work(c, ids)
          PROVE  /\ run'[Run(d)] = run[Run(d)] /\ accepted'[Run(d)] = accepted[Run(d)]
                 /\ packet'[Run(d)] = packet[Run(d)]
      BY <1>1, <3>0, <3>2 DEF Work, Transition
    <3>3. CASE Exit(c)
      BY <1>1, <3>0, <3>3 DEF Exit, Transition
    <3>4. CASE Export(c)
      BY <1>1, <3>0, <3>4 DEF Export
    <3>5. CASE UNCHANGED <<run, accepted, packet>>
      BY <3>5
    <3> QED
      BY <1>5, <3>1, <3>2, <3>3, <3>4, <3>5
      DEF Step, Enter, Leave, Claim, ClaimFails, Prepare, Finish, Raise, Interrupt,
          Heartbeat, HeartbeatFails, Release
  <2>2. CASE ~Controls(c)
    BY <1>5, <2>2
    DEF Controls, Controlling, Step, Enter, Leave, Claim, ClaimFails, Prepare, Commit,
        Work, Finish, Raise, Interrupt, Exit, Heartbeat, HeartbeatFails, Export, Release
  <2> QED
    BY <2>1, <2>2
<1>6. CASE \E p \in Processes, r \in Runs :
              \/ Start(c, p, r)
              \/ \E op \in Calls[r], blind \in BOOLEAN : Request(c, p, r, op, blind)
  <2>1. UNCHANGED <<accepted, packet>>
    BY <1>6 DEF Start, Request
  <2>2. run'[Run(d)] = run[Run(d)]
    <3>1. ASSUME NEW p \in Processes, NEW r \in Runs, Start(c, p, r)
          PROVE  run'[Run(d)] = run[Run(d)]
      BY <1>1, <1>3, <3>1 DEF Start
    <3> QED
      BY <1>6, <3>1 DEF Request
  <2> QED
    BY <2>1, <2>2
<1> QED
  BY <1>5, <1>6

(* So a step of c keeps what is true of another engine.                    *)
LEMMA HonestOthers ==
  ASSUME Controlled, Honest, [Next]_vars, NEW c \in Callers,
         \/ Step(c)
         \/ \E p \in Processes, r \in Runs :
              \/ Start(c, p, r)
              \/ \E op \in Calls[r], blind \in BOOLEAN : Request(c, p, r, op, blind),
         NEW d \in Callers \ {c}
  PROVE  (Engine(d)' => HonestEngine(d)') /\ StartsFresh(d)'
<1>1. /\ pc'[d] = pc[d] /\ call'[d] = call[d] /\ copy'[d] = copy[d]
  BY StepIsAlone DEF Alone
<1>2. StartsFresh(d)'
  BY <1>1 DEF Honest, StartsFresh, Op
<1>3. ASSUME Engine(d)' PROVE HonestEngine(d)'
  <2>1. Engine(d) /\ Controls(d)
    BY <1>1, <1>3 DEF Engine, Working, Controls, Controlling
  <2>2. run'[Run(d)] = run[Run(d)] /\ accepted'[Run(d)] = accepted[Run(d)]
    BY <2>1, FilesOfOthers
  <2>3. Run(d)' = Run(d)
    BY <1>1 DEF Run
  <2> QED
    BY <1>1, <2>1, <2>2, <2>3 DEF Honest, HonestEngine
<1> QED
  BY <1>2, <1>3

(* What a step leaves true, when it is true of the call and its run.       *)
LEMMA HonestKept ==
  ASSUME Controlled, Honest, [Next]_vars, NEW c \in Callers, Step(c), pc[c] # "idle",
         NEW q \in Runs, q = Run(c),
         \A r \in Runs \ {q} : run'[r] = run[r] /\ accepted'[r] = accepted[r],
         HonestFile(q)', Engine(c)' => HonestEngine(c)', StartsFresh(c)'
  PROVE  Honest'
<1>1. \A d \in Callers \ {c} : (Engine(d)' => HonestEngine(d)') /\ StartsFresh(d)'
  BY HonestOthers
<1>2. \A r \in Runs \ {q} : run'[r] # None => HonestFile(r)'
  BY DEF Honest, HonestFile
<1> QED
  BY <1>1, <1>2 DEF Honest

LEMMA HonestQuiet ==
  ASSUME Controlled, Honest, [Next]_vars, NEW c \in Callers, Step(c), pc[c] # "idle",
         UNCHANGED <<run, accepted>>,
         Engine(c)' => HonestEngine(c)', StartsFresh(c)'
  PROVE  Honest'
<1>1. PICK q \in Runs : q = Run(c) /\ run[q] # None
  BY CallFields
<1>2. HonestFile(q)'
  BY <1>1 DEF Honest, HonestFile
<1> QED
  BY <1>1, <1>2, HonestKept

LEMMA HonestStep ==
  ASSUME Controlled, Controlled', Honest, [Next]_vars
  PROVE  Honest'
<1> USE DEF At, Goto, files, locals
<1>1. /\ pc \in [Callers -> Steps] /\ call \in [Callers -> CallOf(alive) \cup {None}]
      /\ run \in [Runs -> RunFile \cup {None}] /\ copy \in [Callers -> RunFile \cup {None}]
      /\ accepted \in [Runs -> (SUBSET Ids) \cup {None}]
      /\ accepted' \in [Runs -> (SUBSET Ids) \cup {None}]
  BY DEF Controlled, TypeOK
<1>2. ASSUME NEW c \in Callers, NEW p \in Processes, NEW r \in Runs, Start(c, p, r)
      PROVE  Honest'
  <2>1. \A d \in Callers \ {c} : (Engine(d)' => HonestEngine(d)') /\ StartsFresh(d)'
    BY <1>2, HonestOthers
  <2>2. /\ run'[r] = Written(0, "CREATED", {}) /\ accepted' = accepted
        /\ \A q \in Runs \ {r} : run'[q] = run[q]
        /\ pc'[c] = "claim" /\ call'[c] = Call(p, "start", r, 0)
    BY <1>1, <1>2 DEF Start
  <2>3. run'[r].rev = 0 /\ run'[r].status = "CREATED" /\ run'[r].closed = {}
    BY <2>2, WrittenFields DEF Statuses
  <2>4. \A q \in Runs : run'[q] # None => HonestFile(q)'
    BY <2>2, <2>3 DEF Honest, HonestFile
  <2>5. StartsFresh(c)' /\ ~Engine(c)'
    BY <2>2 DEF StartsFresh, Call, Engine, Working
  <2> QED
    BY <2>1, <2>4, <2>5 DEF Honest
<1>3. ASSUME NEW c \in Callers, NEW p \in Processes, NEW r \in Runs,
             NEW op \in Calls[r], NEW blind \in BOOLEAN, Request(c, p, r, op, blind)
      PROVE  Honest'
  <2>1. \A d \in Callers \ {c} : (Engine(d)' => HonestEngine(d)') /\ StartsFresh(d)'
    BY <1>3, HonestOthers
  <2>2. /\ UNCHANGED <<run, accepted>> /\ pc'[c] \in {"enter", "claim"}
        /\ call'[c].op = op
    BY <1>1, <1>3 DEF Request, Call
  <2>3. op # "start"
    BY LifecycleAssumption
  <2>4. StartsFresh(c)' /\ ~Engine(c)'
    BY <2>2, <2>3 DEF StartsFresh, Op, Engine, Working
  <2>5. \A q \in Runs : run'[q] # None => HonestFile(q)'
    BY <2>2 DEF Honest, HonestFile
  <2> QED
    BY <2>1, <2>4, <2>5 DEF Honest
<1>4. ASSUME NEW c \in Callers,
             Enter(c) \/ Leave(c) \/ Claim(c) \/ ClaimFails(c) \/ Prepare(c)
             \/ Interrupt(c) \/ Export(c) \/ Release(c)
      PROVE  Honest'
  <2>1. /\ Step(c) /\ pc[c] # "idle" /\ UNCHANGED <<run, accepted>>
        /\ pc'[c] \notin Working
        /\ \/ pc'[c] \in {"idle", "leave", "release"}
           \/ call'[c] = call[c] /\ pc[c] \in {"enter", "claim", "prepare"}
    BY <1>1, <1>4
    DEF Step, Enter, Leave, Claim, ClaimFails, Prepare, Interrupt, Export, Release,
        Return, Working
  <2>2. pc[c] = "enter" => Op(c) # "start"
    BY DEF Controlled, CallsKnown
  <2>3. StartsFresh(c)'
    BY <2>1, <2>2 DEF Honest, StartsFresh, Op
  <2> QED
    BY <2>1, <2>3, HonestQuiet DEF Engine
<1>5. ASSUME NEW c \in Callers, Heartbeat(c) \/ HeartbeatFails(c) PROVE Honest'
  <2>1. /\ Step(c) /\ pc[c] = "engine"
        /\ UNCHANGED <<run, accepted, pc, call, copy>>
    BY <1>5 DEF Step, Heartbeat, HeartbeatFails
  <2>2. HonestEngine(c)' /\ StartsFresh(c)'
    BY <2>1 DEF Honest, HonestEngine, StartsFresh, Engine, Working, Run
  <2> QED
    BY <2>1, <2>2, HonestQuiet
<1>6. ASSUME NEW c \in Callers, pc[c] = "engine"
      PROVE  /\ HonestEngine(c) /\ HonestFile(Run(c)) /\ Op(c) = "resume"
             /\ Run(c) \in Runs /\ run[Run(c)] \in RunFile /\ copy[c] \in RunFile
             /\ accepted[Run(c)] \in (SUBSET Ids) \cup {None}
  BY <1>6, CallFields DEF Honest, Engine, Working, Controlled, CallsKnown
<1>7. ASSUME NEW c \in Callers, NEW status,
             (Finish(c, status) /\ status \in Outcomes) \/ Raise(c), Step(c)
      PROVE  Honest'
  <2> DEFINE all == IF accepted[Run(c)] = None THEN {} ELSE accepted[Run(c)]
  <2>1. /\ pc[c] = "engine" /\ UNCHANGED <<run, accepted, call>>
        /\ \/ Outcome(c, "FAILED", copy[c].closed)
           \/ Outcome(c, "PAUSED", copy[c].closed)
           \/ /\ status \in Outcomes /\ Outcome(c, status, all)
              /\ status = "SUCCEEDED" => accepted[Run(c)] = Ids
    BY <1>7 DEF Finish, Raise, Fails, Complete
  <2>2. all \in SUBSET Ids
    BY <1>6, <2>1
  <2>3. copy[c].closed \in SUBSET Ids
    BY <1>6, <2>1, FileFields
  <2>4. ASSUME NEW outcome \in Statuses, NEW closed \in SUBSET Ids,
               Outcome(c, outcome, closed)
        PROVE  copy'[c].status = outcome /\ copy'[c].closed = closed /\ pc'[c] = "exit"
    <3>1. copy'[c] = Written(copy[c].rev, outcome, closed)
          /\ pc'[c] = "exit"
      BY <1>1, <2>4 DEF Outcome
    <3>2. copy[c] \in RunFile /\ outcome \in Statuses /\ closed \in SUBSET Ids
      BY <1>6, <2>1, <2>4
    <3>3. copy[c].rev \in Nat
      BY <3>2, FileFields
    <3>4. /\ Written(copy[c].rev, outcome, closed).status = outcome
          /\ Written(copy[c].rev, outcome, closed).closed = closed
      BY <3>2, <3>3, WrittenFields
    <3> QED
      BY <3>1, <3>4
  <2>5. Outcomes \subseteq Statuses /\ {"FAILED", "PAUSED"} \subseteq Statuses
        /\ None \notin SUBSET Ids
    BY LifecycleAssumption DEF Statuses
  <2>6. /\ pc'[c] = "exit"
        /\ \/ copy'[c].status # "SUCCEEDED" /\ copy'[c].closed = copy[c].closed
           \/ /\ copy'[c].closed = all
              /\ copy'[c].status = "SUCCEEDED" => accepted[Run(c)] = Ids
    BY <2>1, <2>2, <2>3, <2>4, <2>5
  <2>7. Run(c)' = Run(c) /\ Op(c)' = Op(c)
    BY <2>1 DEF Run, Op
  <2>8. HonestEngine(c)'
    <3>1. CASE copy'[c].status # "SUCCEEDED" /\ copy'[c].closed = copy[c].closed
      BY <1>6, <2>1, <2>6, <2>7, <3>1 DEF HonestEngine
    <3>2. CASE /\ copy'[c].closed = all
               /\ copy'[c].status = "SUCCEEDED" => accepted[Run(c)] = Ids
      <4>1. accepted[Run(c)] = Ids => all = Ids
        BY <2>5
      <4>2. run[Run(c)].closed \subseteq all
        BY <1>6, <2>1 DEF HonestFile
      <4> HIDE DEF all
      <4>3. all # {} => accepted[Run(c)] # None /\ all \subseteq accepted[Run(c)]
        BY DEF all
      <4> QED
        BY <1>6, <2>1, <2>6, <2>7, <3>2, <4>1, <4>2, <4>3 DEF HonestEngine
    <3> QED
      BY <2>6, <3>1, <3>2
  <2>9. StartsFresh(c)'
    BY <2>6 DEF StartsFresh
  <2> QED
    BY <1>7, <2>1, <2>8, <2>9, HonestQuiet
<1>8. ASSUME NEW c \in Callers, Commit(c) PROVE Honest'
  <2>1. PICK q \in Runs : q = Run(c)
    BY <1>8, CallFields DEF Commit
  <2>2. /\ run[q] \in RunFile /\ run[q] # None /\ HonestFile(q)
        /\ Op(c) \in {"start", "resume", "stop", "pause", "handoff"}
        /\ call[c] \in CallOf(alive)
    BY <1>8, <2>1, CallFields DEF Commit, Honest
  <2>3. /\ Step(c) /\ call'[c] = [call[c] EXCEPT !.expected = None] /\ pc[c] = "commit"
    BY <1>1, <1>8 DEF Step, Commit
  <2>4. Run(c)' = q
    BY <2>1, <2>2, <2>3 DEF CallOf, Run
  <2>5. CASE Expected(c) /\ Valid(c)
    <3>1. /\ run'[q] = Written(run[q].rev + 1, StatusAfter[Op(c)], run[q].closed)
          /\ \A r \in Runs \ {q} : run'[r] = run[r] /\ accepted'[r] = accepted[r]
          /\ accepted'[q] = IF Op(c) = "start" THEN {} ELSE accepted[q]
          /\ pc'[c] = StepAfter[Op(c)] /\ copy'[c] = run'[q]
      BY <1>1, <1>8, <2>1, <2>5 DEF Commit, Transition
    <3>2. /\ StatusAfter[Op(c)] \in Statuses \ {"SUCCEEDED"}
          /\ StepAfter[Op(c)] \in {"engine", "release", "export"}
          /\ StepAfter[Op(c)] = "engine" => StatusAfter[Op(c)] = "RUNNING" /\ Op(c) # "start"
      BY <2>2 DEF StatusAfter, StepAfter, Statuses
    <3>3. run[q].rev \in Nat /\ run[q].closed \in SUBSET Ids
      BY <2>2, FileFields
    <3>4. /\ run'[q].rev = run[q].rev + 1 /\ run'[q].status = StatusAfter[Op(c)]
          /\ run'[q].closed = run[q].closed
      BY <3>1, <3>2, <3>3, WrittenFields
    <3>5. Op(c) = "start" => run[q].closed = {}
      <4>1. Op(c) = "start" => call[c].expected = 0
        BY <2>3 DEF Honest, StartsFresh
      <4>2. None # 0
        BY LifecycleAssumption
      <4> QED
        BY <2>1, <2>2, <2>5, <4>1, <4>2 DEF Expected, HonestFile
    <3>6. HonestFile(q)'
      BY <2>2, <3>1, <3>2, <3>3, <3>4, <3>5 DEF HonestFile
    <3>7. Engine(c)' => HonestEngine(c)'
      BY <2>2, <2>4, <3>1, <3>2, <3>4 DEF Engine, Working, HonestEngine, HonestFile
    <3>8. StartsFresh(c)'
      BY <3>1, <3>2 DEF StartsFresh
    <3> QED
      BY <2>1, <2>3, <3>1, <3>6, <3>7, <3>8, HonestKept
  <2>6. CASE ~(Expected(c) /\ Valid(c))
    <3>1. pc'[c] = "release" /\ UNCHANGED <<run, accepted>>
      BY <1>1, <1>8, <2>6 DEF Commit
    <3>2. StartsFresh(c)' /\ ~Engine(c)'
      BY <3>1 DEF StartsFresh, Engine, Working
    <3> QED
      BY <2>3, <3>1, <3>2, HonestQuiet
  <2> QED
    BY <2>5, <2>6
<1>9. ASSUME NEW c \in Callers, NEW ids \in SUBSET Ids, Work(c, ids), Step(c)
      PROVE  Honest'
  <2>1. PICK q \in Runs : q = Run(c)
    BY <1>6, <1>9 DEF Work
  <2>2. /\ pc[c] = "engine" /\ accepted[q] # None /\ UNCHANGED <<pc, call, copy>>
        /\ run'[q] = Written(run[q].rev + 1, run[q].status, run[q].closed)
        /\ accepted'[q] = accepted[q] \cup ids
        /\ \A r \in Runs \ {q} : run'[r] = run[r] /\ accepted'[r] = accepted[r]
    BY <1>1, <1>9, <2>1 DEF Work, Transition
  <2>3. /\ HonestEngine(c) /\ HonestFile(q) /\ run[q].rev \in Nat
        /\ run[q].status \in Statuses /\ run[q].closed \in SUBSET Ids
    BY <1>6, <2>1, <2>2, FileFields
  <2>4. /\ run'[q].rev = run[q].rev + 1 /\ run'[q].status = run[q].status
        /\ run'[q].closed = run[q].closed
    BY <2>2, <2>3, WrittenFields
  <2>5. Run(c)' = q /\ Op(c)' = Op(c) /\ Engine(c)
    BY <2>1, <2>2 DEF Run, Op, Engine, Working
  <2>6. accepted'[q] # None
    <3>1. accepted[q] \in SUBSET Ids
      BY <1>1, <2>2
    <3> QED
      BY <2>2, <3>1, LifecycleAssumption
  <2>7. HonestFile(q)'
    BY <2>1, <2>2, <2>3, <2>4, <2>6 DEF HonestFile, HonestEngine
  <2>8. HonestEngine(c)'
    BY <2>1, <2>2, <2>3, <2>4, <2>5, <2>6 DEF HonestEngine
  <2>9. StartsFresh(c)'
    BY <2>2 DEF StartsFresh
  <2> QED
    BY <1>9, <2>1, <2>2, <2>7, <2>8, <2>9, HonestKept
<1>10. ASSUME NEW c \in Callers, Exit(c) PROVE Honest'
  <2>1. PICK q \in Runs : q = Run(c)
    BY <1>10, CallFields DEF Exit
  <2>2. /\ pc[c] = "exit" /\ pc'[c] = "release" /\ accepted' = accepted /\ Step(c)
        /\ copy[c] \in RunFile /\ run[q] \in RunFile /\ HonestEngine(c)
    BY <1>1, <1>10, <2>1, CallFields DEF Step, Exit, Honest, Engine, Working
  <2>3. StartsFresh(c)' /\ ~Engine(c)'
    BY <2>2 DEF StartsFresh, Engine, Working
  <2>4. CASE Valid(c)
    <3>1. /\ run'[q] = Written(run[q].rev + 1, copy[c].status, copy[c].closed)
          /\ \A r \in Runs \ {q} : run'[r] = run[r]
      BY <1>1, <1>10, <2>1, <2>4 DEF Exit, Transition
    <3>2. /\ run[q].rev \in Nat
          /\ copy[c].status \in Statuses /\ copy[c].closed \in SUBSET Ids
      BY <2>2, FileFields
    <3>3. /\ run'[q].rev = run[q].rev + 1 /\ run'[q].status = copy[c].status
          /\ run'[q].closed = copy[c].closed
      BY <3>1, <3>2, WrittenFields
    <3>4. HonestFile(q)'
      BY <2>1, <2>2, <3>2, <3>3 DEF HonestFile, HonestEngine
    <3> QED
      BY <2>1, <2>2, <2>3, <3>1, <3>4, HonestKept
  <2>5. CASE ~Valid(c)
    <3>1. UNCHANGED <<run, accepted>>
      BY <1>10, <2>5 DEF Exit
    <3> QED
      BY <2>2, <2>3, <3>1, HonestQuiet
  <2> QED
    BY <2>4, <2>5
<1>11. ASSUME UNCHANGED <<run, accepted, pc, call, copy>> PROVE Honest'
  BY <1>11 DEF Honest, HonestFile, HonestEngine, StartsFresh, Engine, Working, Run, Op
<1>12. ASSUME NEW p \in Processes, Crash(p) PROVE Honest'
  <2>1. /\ UNCHANGED <<run, accepted>>
        /\ \A c \in Callers : \/ pc'[c] = "idle"
                              \/ pc'[c] = pc[c] /\ call'[c] = call[c] /\ copy'[c] = copy[c]
    BY <1>1, <1>12 DEF Crash
  <2>2. \A r \in Runs : run'[r] # None => HonestFile(r)'
    BY <2>1 DEF Honest, HonestFile
  <2>3. ASSUME NEW c \in Callers PROVE (Engine(c)' => HonestEngine(c)') /\ StartsFresh(c)'
    BY <2>1 DEF Honest, HonestEngine, StartsFresh, Engine, Working, Run, Op
  <2> QED
    BY <2>2, <2>3 DEF Honest
<1>13. ASSUME NEW c \in Callers, Step(c) PROVE Honest'
  BY <1>4, <1>5, <1>7, <1>8, <1>9, <1>10, <1>13 DEF Step
<1>14. ASSUME NEW r \in Runs, Expire(r) PROVE Honest'
  BY <1>11, <1>14 DEF Expire
<1>15. CASE UNCHANGED vars
  BY <1>11, <1>15 DEF vars
<1> QED
  BY <1>2, <1>3, <1>12, <1>13, <1>14, <1>15 DEF Next
----------------------------------------------------------------------------
Inductive == Controlled /\ Honest

LEMMA InductiveInvariant == Spec => []Inductive
<1>1. Init => Inductive
  <2> SUFFICES ASSUME Init PROVE Inductive
    OBVIOUS
  <2>1. TypeOK
    BY TypeInit
  <2>2. Controlled
    BY <2>1
    DEF Init, Controlled, CallsKnown, LeaseHeld, Controls, Controlling
  <2>3. Honest
    BY DEF Init, Honest, Engine, Working, StartsFresh
  <2> QED
    BY <2>2, <2>3 DEF Inductive
<1>2. Inductive /\ [Next]_vars => Inductive'
  BY ControlledStep, HonestStep DEF Inductive
<1> QED
  BY <1>1, <1>2, PTL DEF Spec

(* The lease of a run keeps everybody else from it: while an engine works  *)
(* the file says RUNNING, the lease is its own although it may have        *)
(* expired, and what it will write back is not behind the file.            *)
THEOREM EngineAlone == Spec => []EngineOwnsRun
<1>1. Inductive => EngineOwnsRun
  <2> SUFFICES ASSUME Inductive, NEW c \in Callers, Engine(c)
               PROVE  /\ run[Run(c)].status = "RUNNING"
                      /\ lease[Run(c)] # None /\ lease[Run(c)].caller = c
                      /\ run[Run(c)].closed \subseteq copy[c].closed
    BY DEF EngineOwnsRun
  <2>1. Controls(c)
    BY DEF Engine, Working, Controls, Controlling
  <2>2. HonestEngine(c)
    BY DEF Inductive, Honest
  <2> QED
    BY <2>1, <2>2 DEF Inductive, Controlled, LeaseHeld, HonestEngine
<1> QED
  BY <1>1, InductiveInvariant, PTL

(* No sequence of resumes, failures, stops and crashes closes in RUN.json  *)
(* what TASKS.json does not show as accepted, or ends as SUCCEEDED a run   *)
(* with something left to accept.                                          *)
THEOREM ClosedIsHonest == Spec => []ClosedHonest
<1>1. Inductive => ClosedHonest
  BY DEF Inductive, Honest, HonestFile, ClosedHonest
<1> QED
  BY <1>1, InductiveInvariant, PTL
----------------------------------------------------------------------------
(* A packet is of a revision the run has had; one of its revision now says *)
(* what the files say, and nobody works on the run.  What an export writes *)
(* is the file itself.                                                     *)
PacketOf(r) == [run |-> run[r], accepted |-> accepted[r]]

PacketBehind(r) ==
    /\ run[r] # None
    /\ packet[r].run.rev <= run[r].rev
    /\ packet[r].run.rev = run[r].rev =>
         /\ packet[r] = PacketOf(r)
         /\ \A c \in Callers : Engine(c) => Run(c) # r

Exports(c) == pc[c] = "export" => copy[c] = run[Run(c)]

Packets ==
    /\ \A r \in Runs : packet[r] # None => PacketBehind(r)
    /\ \A c \in Callers : Exports(c)

LEMMA PacketFields ==
  ASSUME Controlled, NEW r \in Runs, packet[r] # None
  PROVE  packet[r].run.rev \in Nat
<1>1. packet[r] \in Packet
  BY DEF Controlled, TypeOK
<1>2. packet[r].run \in RunFile
  BY <1>1 DEF Packet
<1> QED
  BY <1>2, FileFields

(* What a step leaves alone, or puts behind the run.                       *)
LEMMA PacketsKept ==
  ASSUME Controlled, Packets, NEW r \in Runs, packet[r] # None,
         packet'[r] = packet[r], run'[r] # None,
         \/ /\ run'[r] = run[r] /\ accepted'[r] = accepted[r]
            /\ \A c \in Callers : Engine(c)' /\ Run(c)' = r => Engine(c) /\ Run(c) = r
         \/ run'[r].rev = run[r].rev + 1
  PROVE  PacketBehind(r)'
<1>1. PacketBehind(r) /\ packet[r].run.rev \in Nat /\ run[r].rev \in Nat
  <2>1. PacketBehind(r) /\ packet[r].run.rev \in Nat
    BY PacketFields DEF Packets
  <2>2. run[r] \in RunFile
    BY <2>1 DEF PacketBehind, Controlled, TypeOK
  <2> QED
    BY <2>1, <2>2, FileFields
<1>2. CASE run'[r].rev = run[r].rev + 1
  BY <1>1, <1>2 DEF PacketBehind
<1>3. CASE /\ run'[r] = run[r] /\ accepted'[r] = accepted[r]
           /\ \A c \in Callers : Engine(c)' /\ Run(c)' = r => Engine(c) /\ Run(c) = r
  BY <1>1, <1>3 DEF PacketBehind, PacketOf
<1> QED
  BY <1>2, <1>3

(* The steps that write none of these files and start no engine.           *)
LEMMA PacketsQuiet ==
  ASSUME Controlled, Packets,
         UNCHANGED <<run, accepted, packet>>,
         \A c \in Callers :
            /\ Engine(c)' => Engine(c) /\ Run(c)' = Run(c)
            /\ pc'[c] = "export" =>
                 pc[c] = "export" /\ call'[c] = call[c] /\ copy'[c] = copy[c]
  PROVE  Packets'
<1>1. ASSUME NEW r \in Runs, packet'[r] # None PROVE PacketBehind(r)'
  <2>1. run[r] # None
    BY <1>1 DEF Packets, PacketBehind
  <2> QED
    BY <1>1, <2>1, PacketsKept
<1>2. ASSUME NEW c \in Callers PROVE Exports(c)'
  BY DEF Packets, Exports, Run
<1> QED
  BY <1>1, <1>2 DEF Packets

(* The steps of a call that write the run it controls.                     *)
LEMMA PacketsWritten ==
  ASSUME Controlled, Controlled', Packets, [Next]_vars,
         NEW c \in Callers, Step(c), Controls(c),
         NEW q \in Runs, q = Run(c), Run(c)' = q,
         run'[q].rev = run[q].rev + 1, packet' = packet,
         \A r \in Runs \ {q} : run'[r] = run[r] /\ accepted'[r] = accepted[r],
         pc'[c] = "export" => copy'[c] = run'[q]
  PROVE  Packets'
<1>1. Alone(c)
  BY StepIsAlone
<1>2. ASSUME NEW d \in Callers \ {c} PROVE Run(d)' = Run(d) /\ Engine(d)' = Engine(d)
  BY <1>1 DEF Alone, Run, Engine
<1>3. ASSUME NEW r \in Runs, packet'[r] # None PROVE PacketBehind(r)'
  <2>1. run[r] # None
    BY <1>3 DEF Packets, PacketBehind
  <2>2. run'[r] # None
    BY <2>1, RunsStay
  <2>3. CASE r = q
    BY <1>3, <2>2, <2>3, PacketsKept
  <2>4. CASE r # q
    <3>1. \A d \in Callers : Engine(d)' /\ Run(d)' = r => Engine(d) /\ Run(d) = r
      BY <1>2, <2>4
    <3> QED
      BY <1>3, <2>2, <2>4, <3>1, PacketsKept
  <2> QED
    BY <2>3, <2>4
<1>4. ASSUME NEW d \in Callers \ {c} PROVE Exports(d)'
  <2>1. CASE pc'[d] = "export"
    <3>1. pc[d] = "export" /\ copy'[d] = copy[d] /\ Controls(d)
      BY <1>1, <2>1 DEF Alone, Controls, Controlling
    <3>2. run'[Run(d)] = run[Run(d)]
      BY <3>1, FilesOfOthers
    <3> QED
      BY <1>2, <3>1, <3>2 DEF Packets, Exports
  <2> QED
    BY <2>1 DEF Exports
<1>5. Exports(c)'
  BY DEF Exports
<1> QED
  BY <1>3, <1>4, <1>5 DEF Packets

LEMMA PacketsStep ==
  ASSUME Controlled, Controlled', Packets, [Next]_vars
  PROVE  Packets'
<1> USE DEF At, Goto, files, locals
<1>1. /\ pc \in [Callers -> Steps] /\ call \in [Callers -> CallOf(alive) \cup {None}]
      /\ run \in [Runs -> RunFile \cup {None}] /\ copy \in [Callers -> RunFile \cup {None}]
      /\ accepted \in [Runs -> (SUBSET Ids) \cup {None}]
      /\ packet \in [Runs -> Packet \cup {None}]
  BY DEF Controlled, TypeOK
<1>2. ASSUME NEW c \in Callers, NEW p \in Processes, NEW r \in Runs, Start(c, p, r)
      PROVE  Packets'
  <2>1. /\ Alone(c) /\ pc'[c] = "claim" /\ run[r] = None /\ packet[r] = None
        /\ UNCHANGED <<accepted, packet>>
        /\ \A q \in Runs \ {r} : run'[q] = run[q]
    BY <1>1, <1>2, StepIsAlone DEF Start, Packets, PacketBehind
  <2>2. ASSUME NEW d \in Callers
        PROVE  /\ Engine(d)' => Engine(d) /\ Run(d)' = Run(d)
               /\ Exports(d)'
    <3>1. CASE d = c
      BY <2>1, <3>1 DEF Engine, Working, Exports
    <3>2. CASE d # c
      <4>1. pc'[d] = pc[d] /\ Run(d)' = Run(d) /\ copy'[d] = copy[d]
        BY <2>1, <3>2 DEF Alone, Run
      <4>2. CASE pc[d] = "export"
        <5>1. Run(d) \in Runs \ {r}
          BY <2>1, <4>2, CallFields
        <5> QED
          BY <2>1, <4>1, <4>2, <5>1 DEF Packets, Exports, Engine, Working
      <4> QED
        BY <4>1, <4>2 DEF Exports, Engine
    <3> QED
      BY <3>1, <3>2
  <2>3. ASSUME NEW q \in Runs, packet'[q] # None PROVE PacketBehind(q)'
    <3>1. q # r /\ run[q] # None
      BY <2>1, <2>3 DEF Packets, PacketBehind
    <3> QED
      BY <2>1, <2>2, <2>3, <3>1, PacketsKept
  <2> QED
    BY <2>2, <2>3 DEF Packets
<1>3. ASSUME NEW c \in Callers,
             \/ \E p \in Processes, r \in Runs :
                   \E op \in Calls[r], blind \in BOOLEAN : Request(c, p, r, op, blind)
             \/ Enter(c) \/ Leave(c) \/ Claim(c) \/ ClaimFails(c) \/ Prepare(c)
                \/ Interrupt(c) \/ Release(c) \/ Heartbeat(c) \/ HeartbeatFails(c)
             \/ \E status \in Outcomes : Finish(c, status)
             \/ Raise(c)
      PROVE  Packets'
  <2>1. Alone(c)
    BY <1>3, StepIsAlone DEF Step
  <2>2. /\ UNCHANGED <<run, accepted, packet>>
        /\ pc'[c] # "export"
        /\ \/ pc'[c] \notin Working
           \/ pc[c] = "engine" /\ call' = call
    BY <1>1, <1>3
    DEF Request, Enter, Leave, Claim, ClaimFails, Prepare, Interrupt, Release, Return,
        Heartbeat, HeartbeatFails, Finish, Raise, Fails, Outcome, Working
  <2>3. ASSUME NEW d \in Callers
        PROVE  /\ Engine(d)' => Engine(d) /\ Run(d)' = Run(d)
               /\ pc'[d] = "export" =>
                    pc[d] = "export" /\ call'[d] = call[d] /\ copy'[d] = copy[d]
    BY <2>1, <2>2 DEF Alone, Engine, Working, Run
  <2> QED
    BY <2>2, <2>3, PacketsQuiet
<1>4. ASSUME NEW c \in Callers, Commit(c) PROVE Packets'
  <2>1. PICK q \in Runs : q = Run(c)
    BY <1>4, CallFields DEF Commit
  <2>2. /\ pc[c] = "commit" /\ call'[c] = [call[c] EXCEPT !.expected = None]
        /\ call[c] \in CallOf(alive) /\ packet' = packet /\ Step(c) /\ Alone(c)
        /\ run[q] \in RunFile
        /\ Op(c) \in {"start", "resume", "stop", "pause", "handoff"}
    BY <1>1, <1>4, <2>1, CallFields, StepIsAlone DEF Step, Commit
  <2>3. Run(c)' = q /\ Controls(c)
    BY <2>1, <2>2 DEF CallOf, Run, Controls, Controlling
  <2>4. CASE Expected(c) /\ Valid(c)
    <3>1. /\ run'[q] = Written(run[q].rev + 1, StatusAfter[Op(c)], run[q].closed)
          /\ \A r \in Runs \ {q} : run'[r] = run[r] /\ accepted'[r] = accepted[r]
          /\ copy'[c] = run'[q]
      BY <1>1, <1>4, <2>1, <2>4 DEF Commit, Transition
    <3>2. /\ StatusAfter[Op(c)] \in Statuses
          /\ run[q].rev \in Nat /\ run[q].closed \in SUBSET Ids
      BY <2>2, FileFields DEF StatusAfter, Statuses
    <3>3. run'[q].rev = run[q].rev + 1
      BY <3>1, <3>2, WrittenFields
    <3> QED
      BY <2>1, <2>2, <2>3, <3>1, <3>3, PacketsWritten
  <2>5. CASE ~(Expected(c) /\ Valid(c))
    <3>1. pc'[c] = "release" /\ UNCHANGED <<run, accepted, packet>>
      BY <1>1, <1>4, <2>5 DEF Commit
    <3>2. ASSUME NEW d \in Callers
          PROVE  /\ Engine(d)' => Engine(d) /\ Run(d)' = Run(d)
                 /\ pc'[d] = "export" =>
                      pc[d] = "export" /\ call'[d] = call[d] /\ copy'[d] = copy[d]
      BY <2>2, <3>1 DEF Alone, Engine, Working, Run
    <3> QED
      BY <3>1, <3>2, PacketsQuiet
  <2> QED
    BY <2>4, <2>5
<1>5. ASSUME NEW c \in Callers, NEW ids \in SUBSET Ids, Work(c, ids), Step(c)
      PROVE  Packets'
  <2>1. PICK q \in Runs : q = Run(c) /\ run[q] \in RunFile
    BY <1>5, CallFields DEF Work
  <2>2. /\ pc[c] = "engine" /\ UNCHANGED <<pc, call, copy, packet>>
        /\ run'[q] = Written(run[q].rev + 1, run[q].status, run[q].closed)
        /\ \A r \in Runs \ {q} : run'[r] = run[r] /\ accepted'[r] = accepted[r]
    BY <1>1, <1>5, <2>1 DEF Work, Transition
  <2>3. run'[q].rev = run[q].rev + 1
    BY <2>1, <2>2, FileFields, WrittenFields
  <2>4. Run(c)' = q /\ Controls(c) /\ pc'[c] # "export"
    BY <2>1, <2>2 DEF Run, Controls, Controlling
  <2> QED
    BY <1>5, <2>1, <2>2, <2>3, <2>4, PacketsWritten
<1>6. ASSUME NEW c \in Callers, Exit(c) PROVE Packets'
  <2>1. PICK q \in Runs : q = Run(c) /\ run[q] \in RunFile
    BY <1>6, CallFields DEF Exit
  <2>2. /\ pc[c] = "exit" /\ pc'[c] = "release" /\ UNCHANGED <<accepted, packet, call>>
        /\ copy[c] \in RunFile /\ Step(c) /\ Alone(c)
    BY <1>1, <1>6, CallFields, StepIsAlone DEF Step, Exit
  <2>3. Run(c)' = q /\ Controls(c)
    BY <2>1, <2>2 DEF Run, Controls, Controlling
  <2>4. CASE Valid(c)
    <3>1. /\ run'[q] = Written(run[q].rev + 1, copy[c].status, copy[c].closed)
          /\ \A r \in Runs \ {q} : run'[r] = run[r]
      BY <1>1, <1>6, <2>1, <2>4 DEF Exit, Transition
    <3>2. run'[q].rev = run[q].rev + 1
      BY <2>1, <2>2, <3>1, FileFields, WrittenFields
    <3> QED
      BY <2>1, <2>2, <2>3, <3>1, <3>2, PacketsWritten
  <2>5. CASE ~Valid(c)
    <3>1. UNCHANGED <<run, accepted, packet>>
      BY <1>6, <2>2, <2>5 DEF Exit
    <3>2. ASSUME NEW d \in Callers
          PROVE  /\ Engine(d)' => Engine(d) /\ Run(d)' = Run(d)
                 /\ pc'[d] = "export" =>
                      pc[d] = "export" /\ call'[d] = call[d] /\ copy'[d] = copy[d]
      BY <2>2 DEF Alone, Engine, Working, Run
    <3> QED
      BY <3>1, <3>2, PacketsQuiet
  <2> QED
    BY <2>4, <2>5
<1>7. ASSUME NEW c \in Callers, Export(c) PROVE Packets'
  <2>1. PICK q \in Runs : q = Run(c) /\ run[q] \in RunFile /\ run[q] # None
    BY <1>7, CallFields DEF Export
  <2>2. /\ pc[c] = "export" /\ pc'[c] = "release" /\ UNCHANGED <<run, accepted, call>>
        /\ Alone(c) /\ Controls(c) /\ copy[c] = run[q]
    BY <1>1, <1>7, <2>1, StepIsAlone
    DEF Step, Export, Controls, Controlling, Packets, Exports
  <2>3. ASSUME NEW d \in Callers
        PROVE  /\ Engine(d)' => Engine(d) /\ Run(d)' = Run(d)
               /\ pc'[d] = "export" =>
                    pc[d] = "export" /\ call'[d] = call[d] /\ copy'[d] = copy[d]
    BY <2>2 DEF Alone, Engine, Working, Run
  <2>4. CASE packet' = packet
    BY <2>2, <2>3, <2>4, PacketsQuiet
  <2>5. CASE packet' = [packet EXCEPT ![Run(c)] =
                            [run |-> copy[c], accepted |-> accepted[Run(c)]]]
    <3>1. packet'[q] = [run |-> run[q], accepted |-> accepted[q]]
          /\ \A r \in Runs \ {q} : packet'[r] = packet[r]
      BY <1>1, <2>1, <2>2, <2>5
    <3>2. packet'[q].run = run[q]
      BY <3>1
    <3>3. \A d \in Callers : Engine(d)' => Run(d)' # q
      <4>1. ASSUME NEW d \in Callers, Engine(d), Run(d) = q PROVE FALSE
        <5>1. Controls(d) /\ pc[d] # "export"
          BY <4>1 DEF Engine, Working, Controls, Controlling
        <5> QED
          BY <2>1, <2>2, <4>1, <5>1, OneController
      <4> QED
        BY <2>3, <4>1
    <3>4. run[q].rev \in Nat
      BY <2>1, FileFields
    <3>5. PacketBehind(q)'
      BY <2>1, <2>2, <3>1, <3>2, <3>3, <3>4 DEF PacketBehind, PacketOf
    <3>6. ASSUME NEW r \in Runs \ {q}, packet'[r] # None PROVE PacketBehind(r)'
      <4>1. packet[r] # None /\ packet'[r] = packet[r] /\ run[r] # None
        BY <3>1, <3>6 DEF Packets, PacketBehind
      <4> QED
        BY <2>2, <2>3, <4>1, PacketsKept
    <3>7. ASSUME NEW d \in Callers PROVE Exports(d)'
      BY <2>2, <2>3 DEF Packets, Exports, Run
    <3> QED
      BY <3>5, <3>6, <3>7 DEF Packets
  <2> QED
    BY <1>7, <2>4, <2>5 DEF Export
<1>8. ASSUME \/ \E r \in Runs : Expire(r)
             \/ \E p \in Processes : Crash(p)
             \/ UNCHANGED vars
      PROVE  Packets'
  <2>1. /\ UNCHANGED <<run, accepted, packet>>
        /\ \A c \in Callers : \/ pc'[c] = "idle"
                              \/ pc'[c] = pc[c] /\ call'[c] = call[c] /\ copy'[c] = copy[c]
    BY <1>1, <1>8 DEF Expire, Crash, vars
  <2>2. ASSUME NEW d \in Callers
        PROVE  /\ Engine(d)' => Engine(d) /\ Run(d)' = Run(d)
               /\ pc'[d] = "export" =>
                    pc[d] = "export" /\ call'[d] = call[d] /\ copy'[d] = copy[d]
    BY <2>1 DEF Engine, Working, Run
  <2> QED
    BY <2>1, <2>2, PacketsQuiet
<1>9. ASSUME NEW c \in Callers, Step(c) PROVE Packets'
  BY <1>3, <1>4, <1>5, <1>6, <1>7, <1>9 DEF Step
<1> QED
  BY <1>2, <1>3, <1>8, <1>9 DEF Next

(* A packet that verify_handoff accepts is the run as it is, because the   *)
(* export writes what its own transition returned while the lease keeps    *)
(* everybody from the run, and every later write counts the revision on.   *)
THEOREM HandoffIsCurrent == Spec => []HandoffCurrent
<1>1. Init => Packets
  BY DEF Init, Packets, Exports
<1>2. Inductive /\ Packets /\ [Next]_vars => Packets'
  BY ControlledStep, PacketsStep DEF Inductive
<1>3. Inductive /\ Packets => HandoffCurrent
  BY DEF Packets, PacketBehind, PacketOf, HandoffCurrent, Verifies
<1> QED
  BY <1>1, <1>2, <1>3, InductiveInvariant, PTL DEF Spec
=============================================================================
