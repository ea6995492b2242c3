---------------------------- MODULE RunLifecycle ----------------------------
(***************************************************************************)
(* The life of a run (controller/lifecycle.py): what start, resume, stop,  *)
(* pause and handoff do, called by threads of the web server or by         *)
(* processes of the command line, on the runs of one checkout.             *)
(*                                                                         *)
(* Two leases keep the calls apart.  The controller lease of a run         *)
(* (state/leases.py) is held from the claim to the release, is renewed by  *)
(* a heartbeat thread while an engine works, and expires; the checkout     *)
(* mutation lease lets one engine at a time work on the files.  A call may *)
(* raise, and its process may die, at every step.                          *)
(*                                                                         *)
(* The steps of a transition are RunStore's, those of the directory locks  *)
(* DirectoryLock's, those of the engine TaskExecution's: here a transition *)
(* is one step, a lock has one holder, and the engine accepts some tasks.  *)
(***************************************************************************)
EXTENDS Naturals

CONSTANTS
    Runs,         \* run_ids
    Ids,          \* the acceptance IDs of the tasks of a run
    Calls,        \* what is called on each run, once it exists
    Outcomes,     \* how an engine that returns may end
    Callers,      \* bound: as many calls at once
    Processes,    \* the web server, and those of the command line
    MaxRevision,  \* bound: calls on a run and engine steps stop there
    MaxFaults,    \* bound: crashes, and releases and heartbeats that fail
    None

ASSUME LifecycleAssumption ==
    /\ Calls \in [Runs -> SUBSET {"resume", "stop", "pause", "handoff"}]
    /\ Outcomes \subseteq {"SUCCEEDED", "PAUSED", "BLOCKED", "FAILED", "BUDGET_EXHAUSTED"}
    /\ MaxRevision \in [Runs -> Nat] /\ MaxFaults \in Nat
    /\ Ids # {}
    /\ None \notin Callers \cup Processes \cup Nat
    /\ \A ids \in SUBSET Ids : ids # None

VARIABLES
    run,       \* RUN.json: its revision, status and acceptance_ids_closed
    accepted,  \* TASKS.json: the IDs of its ACCEPTED tasks; None without tasks
    lease,     \* CONTROLLER_LEASE.json: the process and the call that hold it
    mutation,  \* MUTATING_RUN.json: the run and the process
    guard,     \* the process that holds .mutation.lock
    packet,    \* handoffs/<run_id>.json: what it says of the run
    alive,     \* the processes that have not died
    pc,        \* the step a call is at
    call,      \* its process, operation, run and expected_revision
    copy,      \* RUN.json as it knows it, and will write it back
    beating,   \* the heartbeat thread of its engine has not failed
    faults

files == <<run, accepted, lease, mutation, guard, packet>>
locals == <<pc, call, copy, beating>>
vars == <<files, alive, locals, faults>>

Statuses == {"CREATED", "RUNNING", "PAUSED", "STOPPED", "SUCCEEDED", "BLOCKED",
             "FAILED", "BUDGET_EXHAUSTED"}
Ops == {"start", "resume", "stop", "pause", "handoff"}

(* What the files hold, and a call.                                        *)
RunFile == [rev : Nat, status : Statuses, closed : SUBSET Ids]
Lease == [caller : Callers \cup {None}, process : Processes, expired : BOOLEAN]
Mutation == [run : Runs, process : Processes]
Packet == [run : RunFile, accepted : (SUBSET Ids) \cup {None}]
CallOf(processes) ==
    [process : processes, op : Ops, run : Runs, expected : Nat \cup {None}]

ASSUME NothingAssumption ==
    None \notin RunFile \cup Lease \cup Mutation \cup Packet \cup CallOf(Processes)

At(c, step) == pc[c] = step
Goto(c, step) == pc' = [pc EXCEPT ![c] = step]
Op(c) == call[c].op
Run(c) == call[c].run
Process(c) == call[c].process
Fault == faults < MaxFaults /\ faults' = faults + 1

Written(rev, status, closed) == [rev |-> rev, status |-> status, closed |-> closed]
Call(p, op, r, expected) ==
    [process |-> p, op |-> op, run |-> r, expected |-> expected]
HeldBy(c) == [caller |-> c, process |-> Process(c), expired |-> FALSE]
(* Nobody knows the controller_id of a lease whose release failed.         *)
Abandoned(l) == [l EXCEPT !.caller = None]

(* validate_controller                                                     *)
Valid(c) ==
    lease[Run(c)] # None /\ lease[Run(c)].caller = c /\ ~lease[Run(c)].expired

(* A transition of the run of c: the revision counts it.                   *)
Transition(c, status, closed) ==
    run' = [run EXCEPT ![Run(c)] =
                Written(run[Run(c)].rev + 1, status, closed)]
----------------------------------------------------------------------------
Init ==
    /\ run = [r \in Runs |-> None]
    /\ accepted = [r \in Runs |-> None]
    /\ lease = [r \in Runs |-> None]
    /\ mutation = None
    /\ guard = None
    /\ packet = [r \in Runs |-> None]
    /\ alive = Processes
    /\ pc = [c \in Callers |-> "idle"]
    /\ call = [c \in Callers |-> None]
    /\ copy = [c \in Callers |-> None]
    /\ beating = [c \in Callers |-> TRUE]
    /\ faults = 0

(* RunStore.create, with a run_id of its own.                              *)
Start(c, p, r) ==
    /\ At(c, "idle") /\ p \in alive
    /\ run[r] = None
    /\ run' = [run EXCEPT ![r] = Written(0, "CREATED", {})]
    /\ call' = [call EXCEPT ![c] = Call(p, "start", r, 0)]
    /\ Goto(c, "claim")
    /\ UNCHANGED <<accepted, lease, mutation, guard, packet, alive, copy, beating,
                   faults>>

(* What the caller has seen of the run is its expected_revision; resume    *)
(* and stop may go without one.                                            *)
Request(c, p, r, op, blind) ==
    /\ At(c, "idle") /\ p \in alive
    /\ run[r] # None /\ run[r].rev < MaxRevision[r]
    /\ blind => op \in {"resume", "stop"}
    /\ call' = [call EXCEPT ![c] = Call(p, op, r, IF blind THEN None ELSE run[r].rev)]
    /\ Goto(c, IF op = "resume" THEN "enter" ELSE "claim")
    /\ UNCHANGED <<files, alive, copy, beating, faults>>

(* An exception before anything is held.                                   *)
Return(c) ==
    /\ Goto(c, "idle")
    /\ call' = [call EXCEPT ![c] = None]
    /\ copy' = [copy EXCEPT ![c] = None]
    /\ beating' = [beating EXCEPT ![c] = TRUE]
----------------------------------------------------------------------------
(* owned_directory_lock breaks the lock of a dead process.  Faulty         *)
(* variant: and takes that of its own for one it holds already.            *)
FaultyFree(c) == guard \notin alive \ {Process(c)}
Free(c) == guard \notin alive

(* checkout_mutation: the guard, then the record; that of another run is   *)
(* removed only when its owner is dead.                                    *)
Enter(c) ==
    /\ At(c, "enter")
    /\ IF Free(c)
       THEN /\ guard' = Process(c)
            /\ IF mutation # None /\ mutation.run # Run(c) /\ mutation.process \in alive
               THEN Goto(c, "leave") /\ UNCHANGED mutation
               ELSE /\ mutation' = [run |-> Run(c), process |-> Process(c)]
                    /\ Goto(c, "claim")
            /\ UNCHANGED <<call, copy, beating>>
       ELSE Return(c) /\ UNCHANGED <<guard, mutation>>
    /\ UNCHANGED <<run, accepted, lease, packet, alive, faults>>

Leave(c) ==
    /\ At(c, "leave")
    /\ mutation' = IF mutation # None /\ mutation.run = Run(c) THEN None ELSE mutation
    /\ guard' = None
    /\ Return(c)
    /\ UNCHANGED <<run, accepted, lease, packet, alive, faults>>
----------------------------------------------------------------------------
(* Faulty variant: the owner of an expired lease is not looked at.         *)
FaultyClaimable(r) == lease[r] # None => lease[r].expired
Claimable(r) == lease[r] # None => lease[r].expired /\ lease[r].process \notin alive

(* claim_controller with _clear_expired.                                   *)
Claim(c) ==
    /\ At(c, "claim")
    /\ Claimable(Run(c))
    /\ lease' = [lease EXCEPT ![Run(c)] = HeldBy(c)]
    /\ Goto(c, IF Op(c) = "start" THEN "prepare" ELSE "commit")
    /\ UNCHANGED <<run, accepted, mutation, guard, packet, alive, call, copy, beating,
                   faults>>

(* LeaseConflict: the run has a controller, or the lease guard is busy.    *)
ClaimFails(c) ==
    /\ At(c, "claim")
    /\ IF Op(c) = "resume"
       THEN Goto(c, "leave") /\ UNCHANGED <<call, copy, beating>>
       ELSE Return(c)
    /\ UNCHANGED <<files, alive, faults>>

(* _default_tasks reads the project's commands, with nothing to release    *)
(* the lease when it raises.                                               *)
Prepare(c) ==
    /\ At(c, "prepare")
    /\ \/ Goto(c, "commit") /\ UNCHANGED <<lease, call, copy, beating, faults>>
       \/ /\ Fault
          /\ lease' = [lease EXCEPT ![Run(c)] = Abandoned(@)]
          /\ Return(c)
    /\ UNCHANGED <<run, accepted, mutation, guard, packet, alive>>

(* The revision is compared with the one the caller has seen.              *)
Expected(c) == call[c].expected \in {None, run[Run(c)].rev}

StatusAfter == [start |-> "PAUSED", resume |-> "RUNNING", stop |-> "STOPPED",
                pause |-> "PAUSED", handoff |-> "PAUSED"]
StepAfter == [start |-> "release", resume |-> "engine", stop |-> "release",
              pause |-> "release", handoff |-> "export"]

(* read_run, and the transition the call is about, which raises when the   *)
(* lease is no longer valid.  start writes the tasks along.                *)
Commit(c) ==
    /\ At(c, "commit")
    /\ IF Expected(c) /\ Valid(c)
       THEN /\ Transition(c, StatusAfter[Op(c)], run[Run(c)].closed)
            /\ accepted' = IF Op(c) = "start" THEN [accepted EXCEPT ![Run(c)] = {}]
                                              ELSE accepted
            /\ copy' = [copy EXCEPT ![c] = run'[Run(c)]]
            /\ Goto(c, StepAfter[Op(c)])
       ELSE Goto(c, "release") /\ UNCHANGED <<run, accepted, copy>>
    /\ call' = [call EXCEPT ![c].expected = None]
    /\ UNCHANGED <<lease, mutation, guard, packet, alive, beating, faults>>
----------------------------------------------------------------------------
(* The engine persists what it has done, perhaps an acceptance.            *)
Work(c, ids) ==
    /\ At(c, "engine")
    /\ Valid(c) /\ run[Run(c)].rev <= MaxRevision[Run(c)] /\ accepted[Run(c)] # None
    /\ accepted' = [accepted EXCEPT ![Run(c)] = @ \cup ids]
    /\ Transition(c, run[Run(c)].status, run[Run(c)].closed)
    /\ UNCHANGED <<lease, mutation, guard, packet, alive, locals, faults>>

(* Faulty variant: all the tasks of a run without tasks are accepted.      *)
FaultyComplete(r) == accepted[r] \in {None, Ids}
Complete(r) == accepted[r] = Ids

(* What the final transition will say.                                     *)
Outcome(c, status, closed) ==
    /\ copy' = [copy EXCEPT ![c] = Written(@.rev, status, closed)]
    /\ beating' = [beating EXCEPT ![c] = TRUE]
    /\ Goto(c, "exit")

(* The exception is recorded, after one more heartbeat that may fail, with *)
(* what was closed before the engine began.                                *)
Fails(c) ==
    /\ \/ lease' = [lease EXCEPT ![Run(c)].expired = FALSE]
       \/ UNCHANGED lease
    /\ Outcome(c, "FAILED", copy[c].closed)

(* The engine returns.  IDLE_EXIT and PAUSED pause the run; so does a      *)
(* resume without a backend, which closes nothing new.  When the heartbeat *)
(* thread has failed, leaving maintain_controller raises instead.          *)
Finish(c, status) ==
    /\ At(c, "engine")
    /\ IF beating[c]
       THEN /\ status = "SUCCEEDED" => Complete(Run(c))
            /\ \/ Outcome(c, status, IF accepted[Run(c)] = None THEN {}
                                     ELSE accepted[Run(c)])
               \/ status = "PAUSED" /\ Outcome(c, status, copy[c].closed)
            /\ UNCHANGED lease
       ELSE Fails(c)
    /\ UNCHANGED <<run, accepted, mutation, guard, packet, alive, call, faults>>

(* The engine raises: the lease has expired, or for a reason of its own.   *)
Raise(c) ==
    /\ At(c, "engine")
    /\ Fails(c)
    /\ UNCHANGED <<run, accepted, mutation, guard, packet, alive, call, faults>>

(* An interrupt is not an Exception, and leaves the run RUNNING.           *)
Interrupt(c) ==
    /\ At(c, "engine")
    /\ Fault
    /\ Goto(c, "release")
    /\ UNCHANGED <<files, alive, call, copy, beating>>

(* controller_exit, at whatever revision the run has now.                  *)
Exit(c) ==
    /\ At(c, "exit")
    /\ IF Valid(c) THEN Transition(c, copy[c].status, copy[c].closed)
                   ELSE UNCHANGED run
    /\ Goto(c, "release")
    /\ UNCHANGED <<accepted, lease, mutation, guard, packet, alive, call, copy, beating,
                   faults>>

Heartbeat(c) ==
    /\ At(c, "engine") /\ beating[c]
    /\ lease' = [lease EXCEPT ![Run(c)].expired = FALSE]
    /\ UNCHANGED <<run, accepted, mutation, guard, packet, alive, locals, faults>>

(* One heartbeat that finds the lease guard busy ends the thread.          *)
HeartbeatFails(c) ==
    /\ At(c, "engine") /\ beating[c]
    /\ Fault
    /\ beating' = [beating EXCEPT ![c] = FALSE]
    /\ UNCHANGED <<files, alive, pc, call, copy>>
----------------------------------------------------------------------------
(* create_handoff: what the transition returned, and the tasks as they     *)
(* are.  It may raise; then HANDOFF_READY has no packet.                   *)
Export(c) ==
    /\ At(c, "export")
    /\ \/ packet' = [packet EXCEPT ![Run(c)] =
                [run |-> copy[c], accepted |-> accepted[Run(c)]]]
       \/ UNCHANGED packet
    /\ Goto(c, "release")
    /\ UNCHANGED <<run, accepted, lease, mutation, guard, alive, call, copy, beating,
                   faults>>

(* verify_handoff.  Faulty variant: the revision is not compared.          *)
FaultyVerifies(r) == packet[r] # None
Verifies(r) == packet[r] # None /\ packet[r].run.rev = run[r].rev

(* release_controller may find the lease guard busy, and leaves the lease. *)
Release(c) ==
    /\ At(c, "release")
    /\ \/ /\ lease' = [lease EXCEPT ![Run(c)] = None]
          /\ UNCHANGED faults
       \/ /\ Fault
          /\ lease' = [lease EXCEPT ![Run(c)] = Abandoned(@)]
    /\ IF Op(c) = "resume"
       THEN Goto(c, "leave") /\ UNCHANGED <<call, copy, beating>>
       ELSE Return(c)
    /\ UNCHANGED <<run, accepted, mutation, guard, packet, alive>>

(* The TTL has passed: the heartbeats are late, or there are none.         *)
Expire(r) ==
    /\ lease[r] # None /\ ~lease[r].expired
    /\ lease' = [lease EXCEPT ![r].expired = TRUE]
    /\ UNCHANGED <<run, accepted, mutation, guard, packet, alive, locals, faults>>

(* A process dies, and its threads with it; its pid is not used again.     *)
Crash(p) ==
    LET Lost(value, none) ==
            [c \in Callers |-> IF call[c] # None /\ Process(c) = p THEN none
                                                               ELSE value[c]]
    IN  /\ p \in alive
        /\ Fault
        /\ alive' = alive \ {p}
        /\ pc' = Lost(pc, "idle")
        /\ call' = Lost(call, None)
        /\ copy' = Lost(copy, None)
        /\ beating' = Lost(beating, TRUE)
        /\ UNCHANGED files
----------------------------------------------------------------------------
Step(c) ==
    \/ Enter(c) \/ Leave(c)
    \/ Claim(c) \/ ClaimFails(c) \/ Prepare(c) \/ Commit(c)
    \/ \E i \in Ids : Work(c, {i})
    \/ Work(c, {})
    \/ \E status \in Outcomes : Finish(c, status)
    \/ Raise(c) \/ Interrupt(c) \/ Exit(c) \/ Heartbeat(c) \/ HeartbeatFails(c)
    \/ Export(c) \/ Release(c)

Next ==
    \/ \E c \in Callers, p \in Processes, r \in Runs :
           \/ Start(c, p, r)
           \/ \E op \in Calls[r], blind \in BOOLEAN : Request(c, p, r, op, blind)
    \/ \E c \in Callers : Step(c)
    \/ \E r \in Runs : Expire(r)
    \/ \E p \in Processes : Crash(p)

Spec == Init /\ [][Next]_vars
----------------------------------------------------------------------------
Steps == {"idle", "enter", "leave", "claim", "prepare", "commit", "engine",
          "exit", "export", "release"}

(* Every file and every variable holds what its readers expect, and the    *)
(* calls are those of processes that live.                                 *)
TypeOK ==
    /\ run \in [Runs -> RunFile \cup {None}]
    /\ accepted \in [Runs -> (SUBSET Ids) \cup {None}]
    /\ lease \in [Runs -> Lease \cup {None}]
    /\ mutation \in Mutation \cup {None}
    /\ guard \in Processes \cup {None}
    /\ packet \in [Runs -> Packet \cup {None}]
    /\ alive \subseteq Processes
    /\ pc \in [Callers -> Steps]
    /\ call \in [Callers -> CallOf(alive) \cup {None}]
    /\ copy \in [Callers -> RunFile \cup {None}]
    /\ beating \in [Callers -> BOOLEAN]
    /\ faults \in 0..MaxFaults

Working == {"engine", "exit"}
Engine(c) == pc[c] \in Working

(* One engine at a time works on the checkout, whatever runs, threads and  *)
(* processes there are and whoever of them has died, and MUTATING_RUN.json *)
(* says which (checkout_mutation).                                         *)
OneMutatingRun ==
    \A c \in Callers : Engine(c) =>
        /\ mutation = [run |-> Run(c), process |-> Process(c)]
        /\ \A d \in Callers \ {c} : ~Engine(d)

(* While an engine works its run is RUNNING and nobody else's: no stop,    *)
(* pause or handoff of it has been reported, no controller has replaced    *)
(* this one, even when its lease has expired (_clear_expired), and what it *)
(* will write back of acceptance_ids_closed is not behind the file.        *)
EngineOwnsRun ==
    \A c \in Callers : Engine(c) =>
        /\ run[Run(c)].status = "RUNNING"
        /\ lease[Run(c)] # None /\ lease[Run(c)].caller = c
        /\ run[Run(c)].closed \subseteq copy[c].closed

(* What RUN.json says is closed, TASKS.json shows as accepted, and a run   *)
(* that SUCCEEDED has closed everything, after any sequence of resumes,    *)
(* failures and stops (the exit transition of resume).                     *)
ClosedHonest ==
    \A r \in Runs : run[r] # None =>
        /\ run[r].closed # {} => accepted[r] # None /\ run[r].closed \subseteq accepted[r]
        /\ run[r].status = "SUCCEEDED" => run[r].closed = Ids /\ accepted[r] = Ids

(* A handoff that verify_handoff accepts describes the run as it is, and   *)
(* nobody works on that run.                                               *)
HandoffCurrent ==
    \A r \in Runs : Verifies(r) =>
        /\ packet[r] = [run |-> run[r], accepted |-> accepted[r]]
        /\ \A c \in Callers : Engine(c) => Run(c) # r
=============================================================================
