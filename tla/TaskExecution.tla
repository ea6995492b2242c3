--------------------------- MODULE TaskExecution ---------------------------
(***************************************************************************)
(* The engine that executes the tasks of a run (controller/execution.py    *)
(* with pending.py, staging.py, orchestration.py and runner.py): it        *)
(* dispatches the task the policy picks, stages what the writer delivers,  *)
(* integrates it into the target branch, and accepts it.                   *)
(*                                                                         *)
(* There is one engine at a time (RunStore shows what the lease is worth). *)
(* It may die between any two durable effects, and a later resume rebuilds *)
(* everything from the saved records and policy state, the inbox, the      *)
(* writers' worktrees and the target branch.  Meanwhile the user commits   *)
(* to the target, or works in its checkout.  A commit is the history that  *)
(* leads to it.                                                            *)
(***************************************************************************)
EXTENDS ProgressPolicy, Sequences

CONSTANTS
    Runs,            \* what may be run: a mode, a plan, and a bound on faults
    BudgetChoices,   \* what a resume may be given: tasks and attempts
    Signatures,      \* what failures look like
    MaxAttempts,     \* the largest number of attempts any of them gives
    Foreign          \* a commit of the user

VARIABLES
    contract,   \* the mode and the plan of this run
    records,    \* TASKS.json: status, attempts and integration of each task
    state,      \* TASKS.json: progress_state
    inbox,      \* for <<task, attempt>>: target_before of its staged result
    worktrees,  \* the writer worktree of each <<task, attempt>>
    target,     \* the history of the target branch
    checkout,   \* how the files and the index of the checkout are to its HEAD
    pc,         \* the step the engine is at; "down" when there is none
    memory,     \* its self.records
    policy,     \* its self.policy
    current,    \* <<task, attempt>> it works on
    recovering, \* it integrates in _recover_pending_integration
    cont,       \* where it goes on when _persist returns, and when it raises
    jammed,     \* a failed _persist has left an intent, so the next one raises
    budget,     \* its Budgets
    completed,  \* tasks counted by the runner
    failures,   \* attempts counted by the runner, by signature
    outcome,    \* of the last engine
    faults,     \* how many faults there were
    lapses      \* what befell which attempts, that some promises except

durable == <<records, state, inbox, worktrees, target, checkout>>
engine == <<memory, policy, current, recovering, cont, jammed, budget, completed,
            failures>>
vars == <<contract, lapses, durable, pc, engine, outcome, faults>>

Plan == contract.plan
Orchestrated == contract.mode = "orchestrated"
Tasks == DOMAIN Plan
----------------------------------------------------------------------------
Attempts(plan) == (DOMAIN plan) \X (1..MaxAttempts)

ASSUME RunsAssumption ==
    \A r \in Runs :
        /\ r.mode \in {"solo", "orchestrated"}
        /\ DOMAIN r.plan \subseteq Nat /\ None \notin DOMAIN r.plan
        /\ IsFiniteSet(DOMAIN r.plan)
        /\ WellFormed(r.plan)
        /\ r.mode = "solo" => Cardinality(DOMAIN r.plan) = 1
        /\ r.faults \in Nat

ASSUME BoundsAssumption ==
    /\ MaxAttempts \in Nat
    /\ \A b \in BudgetChoices : b.tasks \in Nat \ {0} /\ b.attempts \in 1..MaxAttempts

(* A commit is the candidate of an attempt, or the user's.                 *)
Commits == [task : Nat, attempt : Nat] \cup {Foreign}
Histories == Seq(Commits)

ASSUME CommitsAssumption ==
    Foreign \notin [task : Nat, attempt : Nat] /\ None \notin Histories

(* integration is what the record says of its candidate: the attempt it    *)
(* comes from, target_before, and once prepared the integrated commit.     *)
NewRecord == [status |-> "READY", attempts |-> 0, integration |-> None]
Intent(attempt, before) == [attempt |-> attempt, before |-> before, prepared |-> None]

Candidate(t, attempt) == [task |-> t, attempt |-> attempt]
CandidateOf(t) == Candidate(t, memory[t].integration.attempt)
WithStatus(status) == {t \in Tasks : memory[t].status = status}
(* "stale": those of target_before, when HEAD was moved and no read-tree   *)
(* has followed; "dirty": the user has changed files or added some, or is  *)
(* on another branch for a while, or read-tree has died half-way.          *)
Checkouts == {"clean", "stale", "dirty"}

(* What befell attempts: "refused", given up with its commit in place,     *)
(* for the state of the checkout; "late", an enabler accepted after its    *)
(* target; "lost", accepted by the policy and its result not written.      *)
Lapses(t, kind, attempt) == lapses' = lapses \cup {<<kind, t, attempt>>}
Lapsed(kind) == \E l \in lapses : l[1] = kind

Accepted(recs) == {t \in DOMAIN recs : recs[t].status = "ACCEPTED"}
(* INTEGRATION_PENDING tasks are loaded into the policy as READY ones.     *)
Loaded(recs) == {t \in DOMAIN recs : recs[t].status \in {"READY", "INTEGRATION_PENDING"}}
(* Faulty variant: what was prepared is taken for integrated.              *)
FaultyInPlace(recs, t) ==
    recs[t].status = "INTEGRATION_PENDING" /\ recs[t].integration.prepared # None

(* The target is where the record of t says the integrated commit is.      *)
InPlace(recs, t) ==
    /\ recs[t].status = "INTEGRATION_PENDING"
    /\ recs[t].integration.prepared = target

Task == current[1]
Attempt == current[2]

(* A crash, a failed write or command, or a commit of the user.            *)
Fault == faults < contract.faults /\ faults' = faults + 1

Goto(step) == pc' = step
(* _persist is entered: what follows if it returns, and if it raises.      *)
Save(then, otherwise) == pc' = "save" /\ cont' = <<then, otherwise>>
(* The transaction failed, or acceptance raised.                           *)
Fails == Goto(IF recovering THEN "reconcile" ELSE "failing")

Idle ==
    /\ memory' = [t \in Tasks |-> NewRecord]
    /\ policy' = Restored(Plan, {}, {}, NoState)
    /\ current' = None
    /\ recovering' = FALSE
    /\ cont' = None
    /\ jammed' = FALSE
    /\ budget' = None
    /\ completed' = 0
    /\ failures' = [s \in Signatures |-> 0]
    /\ pc' = "down"
(* run() returns, or an exception leaves it: resume() records the outcome. *)
Exit(result) == Idle /\ outcome' = result
----------------------------------------------------------------------------
Init ==
    /\ contract \in Runs
    /\ records = [t \in Tasks |-> NewRecord]
    /\ state = NoState
    /\ inbox = [a \in Attempts(Plan) |-> None]
    /\ worktrees = [a \in Attempts(Plan) |-> None]
    /\ target = <<>>
    /\ checkout = "clean"
    /\ lapses = {}
    /\ memory = [t \in Tasks |-> NewRecord]
    /\ policy = Restored(Plan, {}, {}, NoState)
    /\ current = None
    /\ recovering = FALSE
    /\ cont = None
    /\ jammed = FALSE
    /\ budget = None
    /\ completed = 0
    /\ failures = [s \in Signatures |-> 0]
    /\ pc = "down"
    /\ outcome = None
    /\ faults = 0

(* resume(): the constructor restores the policy, or raises.               *)
Resume(b) ==
    /\ pc = "down"
    /\ IF Restorable(Plan, Accepted(records), state)
       THEN /\ memory' = records
            /\ policy' = Restored(Plan, Accepted(records), Loaded(records), state)
            /\ budget' = b
            /\ Goto("top")
            /\ outcome' = None
            /\ UNCHANGED <<current, recovering, cont, jammed, completed, failures>>
       ELSE Exit("FAILED")
    /\ UNCHANGED <<contract, lapses, durable, faults>>

(* The task budget is spent, or the wall-clock time is.                    *)
BudgetEnds ==
    /\ pc = "top"
    /\ Exit("BUDGET_EXHAUSTED")
    /\ UNCHANGED <<contract, lapses, durable, faults>>
----------------------------------------------------------------------------
(* The start of _step: adopt_orphaned_integration, then                    *)
(* _recover_pending_integration.                                           *)

Orphan(t) ==
    /\ memory[t].status = "READY"
    /\ <<t, memory[t].attempts + 1>> \in DOMAIN inbox
    /\ inbox[<<t, memory[t].attempts + 1>>] # None

Stepping == pc = "top" /\ completed < budget.tasks

HoldsCandidate(writer) == writer # None /\ writer.holds = "candidate"

(* orphaned_result: what the inbox names is there and the target has not   *)
(* moved.  A Solo result has no orchestration metadata.                    *)
Exact(t, attempt) ==
    /\ Orchestrated
    /\ inbox[<<t, attempt>>] = target
    /\ HoldsCandidate(worktrees[<<t, attempt>>])

(* The inbox of this attempt is there, but the record does not say so.     *)
Adopt(t) ==
    LET attempt == memory[t].attempts + 1
        before  == inbox[<<t, attempt>>]
    IN /\ Stepping /\ Orphan(t)
       /\ \/ /\ Exact(t, attempt)
             /\ memory' = [memory EXCEPT ![t].status = "INTEGRATION_PENDING",
                                         ![t].integration = Intent(attempt, before)]
             /\ Save("recover", "reconcile")
          \/ /\ ~Exact(t, attempt) \/ checkout = "dirty"
             /\ memory' = [memory EXCEPT ![t].status = "BLOCKED"]
             /\ Save("blocked", "exit")
       /\ current' = <<t, attempt>>
       /\ UNCHANGED <<contract, lapses, durable, policy, recovering, jammed, budget, completed,
                      failures, outcome, faults>>

Recovering == pc = "recover" \/ (Stepping /\ ~\E t \in Tasks : Orphan(t))

Pending(t) == Recovering /\ memory[t].status = "INTEGRATION_PENDING"

(* The target has not moved since the result was staged: apply it again.   *)
Reapply(t) ==
    /\ Pending(t)
    /\ target = memory[t].integration.before
    /\ current' = <<t, memory[t].integration.attempt>>
    /\ recovering' = TRUE
    /\ Goto("apply")
    /\ UNCHANGED <<contract, lapses, durable, memory, policy, cont, jammed, budget, completed,
                   failures, outcome, faults>>

(* recover_pending_checkout: the integrated commit is in place and the     *)
(* files are its own, or those before it and then brought up to it, unless *)
(* this fails and the ref is moved back.                                   *)
ResumePending(t) ==
    /\ Pending(t) /\ InPlace(memory, t)
    /\ current' = <<t, memory[t].integration.attempt>>
    /\ recovering' = TRUE
    /\ \/ /\ checkout # "dirty" /\ checkout' = "clean"
          /\ Goto("accept")
          /\ UNCHANGED <<target, faults>>
       \/ /\ checkout = "stale" /\ Fault
          /\ target' = memory[t].integration.before
          /\ checkout' \in {"clean", "dirty"}
          /\ Goto("reconcile")
    /\ UNCHANGED <<contract, lapses, records, state, inbox, worktrees, memory, policy, cont,
                   jammed, budget, completed, failures, outcome>>

(* Faulty variant: gives up when the swap was not followed by a refresh.   *)
FaultyAmbiguous(t) ==
    /\ Pending(t) /\ ~(InPlace(memory, t) /\ checkout = "clean")
    /\ target # memory[t].integration.before
    /\ current' = <<t, memory[t].integration.attempt>>
    /\ recovering' = TRUE
    /\ IF InPlace(memory, t) /\ checkout = "dirty"
       THEN Lapses(t, "refused", memory[t].integration.attempt)
       ELSE UNCHANGED lapses
    /\ Goto("reconcile")
    /\ UNCHANGED <<contract, durable, memory, policy, cont, jammed, budget, completed,
                   failures, outcome, faults>>

(* "pending integration target is ambiguous and needs reconciliation": by  *)
(* the state of the branch, or by that of the checkout.                    *)
Ambiguous(t) ==
    /\ Pending(t)
    /\ target # memory[t].integration.before
    /\ \/ ~InPlace(memory, t) /\ UNCHANGED lapses
       \/ /\ InPlace(memory, t) /\ checkout = "dirty"
          /\ Lapses(t, "refused", memory[t].integration.attempt)
    /\ current' = <<t, memory[t].integration.attempt>>
    /\ recovering' = TRUE
    /\ Goto("reconcile")
    /\ UNCHANGED <<contract, durable, memory, policy, cont, jammed, budget, completed,
                   failures, outcome, faults>>

(* mark_reconciliation_required.                                           *)
Reconcile ==
    /\ pc = "reconcile"
    /\ memory' = [memory EXCEPT ![Task].status = "BLOCKED"]
    /\ Save("blocked", "exit")
    /\ UNCHANGED <<contract, lapses, durable, policy, current, recovering, jammed, budget,
                   completed, failures, outcome, faults>>

GiveUp ==
    /\ pc = "blocked"
    /\ Exit("BLOCKED")
    /\ UNCHANGED <<contract, lapses, durable, faults>>
----------------------------------------------------------------------------
(* _next_task and the writer.                                              *)

Choosing == pc = "choose" \/ (Recovering /\ WithStatus("INTEGRATION_PENDING") = {})

Replan ==
    /\ Choosing /\ pc # "choose" /\ CanReplan(Plan, policy)
    /\ policy' = Replanned(policy)
    /\ Save("choose", "exit")
    /\ UNCHANGED <<contract, lapses, durable, memory, current, recovering, jammed, budget,
                   completed, failures, outcome, faults>>

(* terminal_state.  After a replan the second next_task() raises instead.  *)
NothingToDo ==
    /\ Choosing /\ NextTask(Plan, policy) = {}
    /\ pc = "choose" \/ ~CanReplan(Plan, policy)
    /\ Exit(IF pc = "choose" THEN "FAILED"
            ELSE IF Accepted(memory) = Tasks THEN "SUCCEEDED" ELSE "BLOCKED")
    /\ UNCHANGED <<contract, lapses, durable, faults>>

(* The task has spent its attempts, under an earlier and larger budget.    *)
Exhausted(t) ==
    /\ Choosing /\ t \in NextTask(Plan, policy)
    /\ memory[t].attempts >= budget.attempts
    /\ Exit("BLOCKED")
    /\ UNCHANGED <<contract, lapses, durable, faults>>

CanDispatch(t) ==
    /\ Choosing /\ t \in NextTask(Plan, policy)
    /\ memory[t].attempts < budget.attempts

(* An existing worktree must be clean and at the target's HEAD.            *)
Usable(writer) == writer \in {None, [base |-> target, holds |-> "nothing"]}

(* TaskWorktree.create.  In Solo mode the agent works in the checkout.     *)
Dispatch(t) ==
    LET attempt == memory[t].attempts + 1
    IN /\ CanDispatch(t)
       /\ Orchestrated => Usable(worktrees[<<t, attempt>>])
       /\ current' = <<t, attempt>>
       /\ recovering' = FALSE
       /\ Goto("writing")
       /\ IF Orchestrated
          THEN worktrees' = [worktrees EXCEPT ![<<t, attempt>>] =
                                [base |-> target, holds |-> "nothing"]]
          ELSE UNCHANGED worktrees
       /\ UNCHANGED <<contract, lapses, records, state, inbox, target, checkout, memory, policy,
                      cont, jammed, budget, completed, failures, outcome, faults>>

(* The checkout is on no branch or a protected one, or the worktree of     *)
(* this attempt is not usable.                                             *)
Refuse(t) ==
    /\ CanDispatch(t) /\ Orchestrated
    /\ current' = <<t, memory[t].attempts + 1>>
    /\ recovering' = FALSE
    /\ Goto("failing")
    /\ UNCHANGED <<contract, lapses, durable, memory, policy, cont, jammed, budget, completed,
                   failures, outcome, faults>>

(* The writer changes files.                                               *)
Write ==
    /\ pc = "writing"
    /\ IF Orchestrated
       THEN worktrees' = [worktrees EXCEPT ![current].holds = "changes"]
       ELSE UNCHANGED worktrees
    /\ Goto("written")
    /\ UNCHANGED <<contract, lapses, records, state, inbox, target, checkout, engine, outcome, faults>>

AttemptFails ==
    /\ Goto("failing")
    /\ UNCHANGED <<contract, lapses, durable, engine, outcome, faults>>

(* An agent, the checks before the writer or their attestation fails, or   *)
(* the budget of agent calls is spent.                                     *)
WriterFails == pc = "writing" /\ AttemptFails

(* A reviewer objects, leaves out a file or changes one, or the claim is   *)
(* refused; in Solo mode the agent reviews its own work once more.         *)
ReviewFails == pc = "written" /\ Orchestrated /\ AttemptFails
ColdReviewFails == pc = "written" /\ ~Orchestrated /\ AttemptFails

(* validate_claim, before anything is integrated.  An orchestrated claim   *)
(* must name every acceptance ID of the record.                            *)
ClaimStands ==
    /\ Claimable(Plan, policy, Task)
    /\ Plan[Task].closes \subseteq OpenIds(Plan, policy.accepted)

(* Review passed: the worktree is committed.                               *)
CommitCandidate ==
    /\ pc = "written" /\ Orchestrated
    /\ ClaimStands
    /\ worktrees' = [worktrees EXCEPT ![current].holds = "candidate"]
    /\ Goto("stage")
    /\ UNCHANGED <<contract, lapses, records, state, inbox, target, checkout, engine, outcome, faults>>

(* stage_integration: the signed result goes to the inbox, then the record *)
(* says where it is.                                                       *)
Stage ==
    /\ pc = "stage"
    /\ inbox' = [inbox EXCEPT ![current] = target]
    /\ memory' = [memory EXCEPT ![Task].status = "INTEGRATION_PENDING",
                                ![Task].integration = Intent(Attempt, target)]
    /\ Save("apply", "failing")
    /\ UNCHANGED <<contract, lapses, records, state, worktrees, target, checkout, policy, current,
                   recovering, jammed, budget, completed, failures, outcome, faults>>
----------------------------------------------------------------------------
(* IntegrationTransaction.apply, reduced to its effects on the target.     *)

(* The gates pass in a temporary worktree at target_before, and            *)
(* on_prepared saves the integrated commit.                                *)
TestsPass ==
    LET integration == memory[Task].integration IN
    /\ pc = "apply"
    /\ target = integration.before /\ checkout = "clean"
    /\ memory' = [memory EXCEPT ![Task].integration.prepared =
                                    Append(target, CandidateOf(Task))]
    /\ Save("swap", IF recovering THEN "reconcile" ELSE "failing")
    /\ UNCHANGED <<contract, lapses, durable, policy, current, recovering, jammed, budget,
                   completed, failures, outcome, faults>>

(* A conflict, a failed gate, a dirty target, or a target that has moved.  *)
IntegrationFails ==
    /\ pc \in {"apply", "swap"}
    /\ Fails
    /\ UNCHANGED <<contract, lapses, durable, engine, outcome, faults>>

(* update-ref with the captured commit as the expected old value.          *)
Swap ==
    /\ pc = "swap"
    /\ target = memory[Task].integration.before /\ checkout = "clean"
    /\ target' = memory[Task].integration.prepared
    /\ checkout' = "stale"
    /\ Goto("refresh")
    /\ UNCHANGED <<contract, lapses, records, state, inbox, worktrees, engine, outcome, faults>>

(* refresh_bound_target and the checks after it.                           *)
Refresh ==
    /\ pc = "refresh" /\ InPlace(memory, Task) /\ checkout = "stale"
    /\ checkout' = "clean"
    /\ Goto("accept")
    /\ UNCHANGED <<contract, lapses, records, state, inbox, worktrees, target, engine, outcome,
                   faults>>

(* Faulty variant: moves the ref back whatever it is by then.              *)
FaultyUndo ==
    /\ pc = "refresh"
    /\ target' = memory[Task].integration.before
    /\ checkout' = "clean"
    /\ Fails
    /\ UNCHANGED <<contract, lapses, records, state, inbox, worktrees, engine, outcome, faults>>

(* The refresh fails or a check before or after it does, as it must in a   *)
(* checkout the user works in.  The ref is moved back, except when it has  *)
(* moved on: then the candidate stays in its history.  The files may be    *)
(* left as they are, or half-way.                                          *)
Undo ==
    /\ pc = "refresh"
    /\ \/ /\ InPlace(memory, Task)
          /\ IF checkout = "stale" THEN Fault ELSE UNCHANGED faults
          /\ target' = memory[Task].integration.before
          /\ checkout' \in {"clean", "dirty"}
       \/ /\ ~InPlace(memory, Task)
          /\ checkout' \in Checkouts
          /\ UNCHANGED <<target, faults>>
    /\ Fails
    /\ UNCHANGED <<contract, lapses, records, state, inbox, worktrees, engine, outcome>>
----------------------------------------------------------------------------
(* _validate_acceptance and _finalize_acceptance.                          *)

Finalized(t, attempt) ==
    [memory EXCEPT ![t].status = "ACCEPTED", ![t].attempts = attempt]

(* A Solo agent delivers; there is nothing to integrate.                   *)
DeliverSolo ==
    /\ pc = "written" /\ ~Orchestrated
    /\ Goto("accept")
    /\ UNCHANGED <<contract, lapses, durable, engine, outcome, faults>>

Accept ==
    /\ pc = "accept"
    /\ Claimable(Plan, policy, Task) /\ ~SecondEnabler(Plan, policy, Task)
    /\ policy' = Recorded(Plan, policy, Task)
    /\ IF Late(Plan, policy, Task) THEN Lapses(Task, "late", Attempt) ELSE UNCHANGED lapses
    /\ IF Orchestrated
       THEN memory' = Finalized(Task, Attempt) /\ Save("retire", "exit")
       ELSE Goto("deliver") /\ UNCHANGED <<memory, cont>>
    /\ UNCHANGED <<contract, durable, current, recovering, jammed, budget, completed,
                   failures, outcome, faults>>

(* accept() raises: before it records anything, or half-way through.       *)
AcceptRaises ==
    /\ pc = "accept"
    /\ \/ /\ ~Claimable(Plan, policy, Task)
          /\ UNCHANGED policy
       \/ /\ Claimable(Plan, policy, Task) /\ SecondEnabler(Plan, policy, Task)
          /\ policy' = Recorded(Plan, policy, Task)
    /\ Fails
    /\ UNCHANGED <<contract, lapses, durable, memory, current, recovering, cont, jammed, budget,
                   completed, failures, outcome, faults>>

(* In Solo mode the result is retained only after the policy accepted it.  *)
DeliverInbox ==
    /\ pc = "deliver"
    /\ inbox' = [inbox EXCEPT ![current] = target]
    /\ memory' = Finalized(Task, Attempt)
    /\ Save("retire", "exit")
    /\ UNCHANGED <<contract, lapses, records, state, worktrees, target, checkout, policy, current,
                   recovering, jammed, budget, completed, failures, outcome, faults>>

InboxFails ==
    /\ \/ pc = "stage" /\ UNCHANGED lapses
       \/ pc = "deliver" /\ Lapses(Task, "lost", Attempt)
    /\ Fault
    /\ Goto("failing")
    /\ UNCHANGED <<contract, durable, engine, outcome>>

(* A failure to retire the worktree is only noted; then the next step.     *)
RetireWriter ==
    \/ worktrees' = [worktrees EXCEPT ![current] = None] /\ UNCHANGED faults
    \/ Orchestrated /\ Fault /\ UNCHANGED worktrees

(* The transition that notes it saves nothing new, and may raise.          *)
NoteFails == Orchestrated /\ Fault /\ UNCHANGED worktrees /\ Exit("FAILED")

Retire ==
    /\ pc = "retire"
    /\ \/ NoteFails
       \/ /\ RetireWriter
          /\ IF Accepted(memory) = Tasks /\ OpenIds(Plan, policy.accepted) = {}
             THEN Exit("SUCCEEDED")
             ELSE /\ completed' = completed + 1
                  /\ Goto("top")
                  /\ UNCHANGED <<memory, policy, current, recovering, cont, jammed, budget,
                                 failures, outcome>>
    /\ UNCHANGED <<contract, lapses, records, state, inbox, target, checkout>>
----------------------------------------------------------------------------
(* The except branch of _step.                                             *)

(* pending_record_matches: what failed came after the integration, and     *)
(* recover_pending_checkout finds it in place.                             *)
LeaveToRecovery ==
    /\ pc = "failing" /\ InPlace(memory, Task) /\ checkout # "dirty"
    /\ checkout' = "clean"
    /\ completed' = completed + 1
    /\ Goto("top")
    /\ UNCHANGED <<contract, lapses, records, state, inbox, worktrees, target, memory, policy,
                   current, recovering, cont, jammed, budget, failures, outcome, faults>>

(* Faulty variant: every exception makes the attempt a failed one.         *)
FaultyFail ==
    /\ pc = "failing"
    /\ LET spent == memory[Task].attempts + 1
           over  == spent >= budget.attempts
       IN /\ memory' = [memory EXCEPT ![Task] =
                           [status |-> IF over THEN "BLOCKED" ELSE "READY",
                            attempts |-> spent, integration |-> None]]
          /\ Save(IF over THEN "blocked" ELSE "retry", "exit")
    /\ UNCHANGED <<contract, lapses, durable, policy, current, recovering, jammed, budget,
                   completed, failures, outcome, faults>>

(* Faulty variant: an attempt that failed is repeated and not counted.     *)
UncountedFail ==
    /\ pc = "failing" /\ ~InPlace(memory, Task)
    /\ memory' = [memory EXCEPT ![Task].status = "READY", ![Task].integration = None]
    /\ Save("top", "exit")
    /\ UNCHANGED <<contract, lapses, durable, policy, current, recovering, jammed, budget,
                   completed, failures, outcome, faults>>

(* _failure.                                                               *)
Fail ==
    /\ pc = "failing"
    /\ \/ ~InPlace(memory, Task) /\ UNCHANGED lapses
       \/ /\ InPlace(memory, Task) /\ checkout = "dirty"
          /\ Lapses(Task, "refused", Attempt)
    /\ LET spent == memory[Task].attempts + 1
           over  == spent >= budget.attempts
       IN /\ memory' = [memory EXCEPT ![Task] =
                           [status |-> IF over THEN "BLOCKED" ELSE "READY",
                            attempts |-> spent, integration |-> None]]
          /\ Save(IF over THEN "blocked" ELSE "retry", "exit")
    /\ UNCHANGED <<contract, durable, policy, current, recovering, jammed, budget,
                   completed, failures, outcome, faults>>

(* The runner counts failures that look alike, of whatever task.           *)
Retry(s) ==
    /\ pc = "retry"
    /\ IF failures[s] + 1 >= budget.attempts
       THEN Exit("BLOCKED")
       ELSE /\ failures' = [failures EXCEPT ![s] = @ + 1]
            /\ Goto("top")
            /\ UNCHANGED <<memory, policy, current, recovering, cont, jammed, budget,
                           completed, outcome>>
    /\ UNCHANGED <<contract, lapses, durable, faults>>
----------------------------------------------------------------------------
(* _persist saves the records and the policy state in one transition.      *)
Persist ==
    /\ pc = "save" /\ ~jammed
    /\ records' = memory
    /\ state' = DurableState(policy)
    /\ Goto(cont[1])
    /\ UNCHANGED <<contract, lapses, inbox, worktrees, target, checkout, engine, outcome, faults>>

(* The transition raises.  If its intent is prepared by then, it will be   *)
(* rolled forward, and the next one is refused for its stale revision.     *)
PersistFails ==
    /\ pc = "save"
    /\ \/ jammed /\ UNCHANGED <<records, state, faults>>
       \/ ~jammed /\ Fault /\ UNCHANGED <<records, state>>
       \/ ~jammed /\ Fault /\ records' = memory /\ state' = DurableState(policy)
    /\ IF cont[2] = "exit"
       THEN Exit("FAILED")
       ELSE /\ Goto(cont[2])
            /\ jammed' = (jammed \/ records' # records)
            /\ UNCHANGED <<memory, policy, current, recovering, cont, budget, completed,
                           failures, outcome>>
    /\ UNCHANGED <<contract, lapses, inbox, worktrees, target, checkout>>

(* A crash, which may be in the middle of read-tree.                       *)
Crash ==
    /\ pc # "down" /\ Fault
    /\ Exit(None)
    /\ \/ UNCHANGED checkout
       \/ pc \in {"top", "recover", "refresh"} /\ checkout = "stale" /\ checkout' = "dirty"
    /\ UNCHANGED <<contract, lapses, records, state, inbox, worktrees, target>>

(* What the user does between two engines is the same as at the start of   *)
(* the next one.                                                           *)

(* The user commits to the target branch.                                  *)
ForeignCommit ==
    /\ pc # "down" /\ Fault
    /\ target' = Append(target, Foreign)
    /\ UNCHANGED <<contract, lapses, records, state, inbox, worktrees, checkout, pc, engine,
                   outcome>>

(* The user works in the checkout, and is done with it.                    *)
Disturb ==
    /\ pc # "down" /\ Orchestrated /\ Fault
    /\ checkout' = "dirty"
    /\ UNCHANGED <<contract, lapses, records, state, inbox, worktrees, target, pc, engine,
                   outcome>>

Tidy ==
    /\ pc # "down" /\ checkout = "dirty"
    /\ checkout' = "clean"
    /\ UNCHANGED <<contract, lapses, records, state, inbox, worktrees, target, pc, engine,
                   outcome, faults>>
----------------------------------------------------------------------------
StepOf(t) ==
    \/ Adopt(t) \/ Reapply(t) \/ ResumePending(t) \/ Ambiguous(t)
    \/ Exhausted(t) \/ Dispatch(t) \/ Refuse(t)

EngineStep ==
    \/ BudgetEnds \/ Reconcile \/ GiveUp \/ Replan \/ NothingToDo
    \/ \E t \in Tasks : StepOf(t)
    \/ Write \/ WriterFails \/ ReviewFails \/ ColdReviewFails \/ CommitCandidate \/ Stage
    \/ TestsPass \/ IntegrationFails \/ Swap \/ Refresh \/ Undo
    \/ DeliverSolo \/ Accept \/ AcceptRaises \/ DeliverInbox \/ InboxFails \/ Retire
    \/ LeaveToRecovery \/ Fail \/ \E s \in Signatures : Retry(s)
    \/ Persist \/ PersistFails

Next ==
    \/ \E b \in BudgetChoices : Resume(b)
    \/ EngineStep \/ Crash \/ ForeignCommit \/ Disturb \/ Tidy

Spec == Init /\ [][Next]_vars

(* Agents, gates and file operations return, within their timeouts.        *)
FairSpec == Spec /\ WF_vars(EngineStep)
----------------------------------------------------------------------------
Integrated(t, attempt) ==
    \E i \in DOMAIN target : target[i] = Candidate(t, attempt)
IsCandidateOf(commit, t) == commit # Foreign /\ commit.task = t

(* Types.  An integration names the attempt the task is about to spend.    *)
TypeOK ==
    /\ contract \in Runs
    /\ \A recs \in {records, memory} :
         /\ DOMAIN recs = Tasks
         /\ \A t \in Tasks :
              /\ recs[t].status \in {"READY", "INTEGRATION_PENDING", "ACCEPTED", "BLOCKED"}
              /\ recs[t].attempts \in 0..MaxAttempts
              /\ recs[t].status = "INTEGRATION_PENDING" =>
                   recs[t].integration.attempt = recs[t].attempts + 1
    /\ DOMAIN inbox = Attempts(Plan) /\ DOMAIN worktrees = Attempts(Plan)
    /\ checkout \in Checkouts /\ recovering \in BOOLEAN /\ jammed \in BOOLEAN
    /\ pc = "down" \/ budget \in BudgetChoices
    /\ faults \in 0..contract.faults

(* AC-PROGRESS-001: an accepted task has its evidence in the inbox and,    *)
(* when orchestrated, the candidate of that attempt is in the target.      *)
AcceptedIsReal ==
    \A t \in Accepted(records) :
        /\ inbox[<<t, records[t].attempts>>] # None
        /\ Orchestrated => Integrated(t, records[t].attempts)

(* No task's work is integrated twice, except on top of a commit the user  *)
(* made in the window between swap and refresh, or after an attempt whose  *)
(* acceptance was refused while the user worked in the checkout.           *)
IntegratedOnce ==
    \A t \in Tasks : \A i, j \in DOMAIN target :
        i < j /\ IsCandidateOf(target[i], t) /\ IsCandidateOf(target[j], t)
            => \/ target[i + 1] = Foreign
               \/ <<"refused", t, target[i].attempt>> \in lapses

(* Whatever an engine saves, the next one can be built from, unless an     *)
(* enabler was accepted after its target, or a Solo result was lost that   *)
(* the policy had accepted.                                                *)
AlwaysRestorable ==
    ~Lapsed("late") /\ ~Lapsed("lost") => Restorable(Plan, Accepted(records), state)

(* test_rejected_acceptance_never_integrates_the_candidate, of every task. *)
RejectedNeverIntegrated ==
    \A t \in Tasks : records[t].status = "BLOCKED" =>
        \A i \in DOMAIN target : ~IsCandidateOf(target[i], t)

Dispatching == pc # "writing" /\ pc' = "writing"

(* AC-PROGRESS-002: while an accepted enabler's target is open, no other   *)
(* task is dispatched, by this engine or by a later one.                   *)
DebtPaidFirst ==
    [][Dispatching => Owed(Plan, Accepted(records)) \subseteq {current'[1]}]_vars

(* docs/OPERATIONS.md: recovery resumes the exact transaction, even        *)
(* between swap and refresh: a task whose integrated commit is in place is *)
(* given up only after the engine has found the checkout dirty.  (An       *)
(* enabler may be as well: see RejectedNeverIntegrated.)                   *)
CompletedIntegrationKept ==
    [][\A t \in Tasks :
         (/\ records[t].status = "INTEGRATION_PENDING"
          /\ records[t].integration.prepared = target
          /\ Plan[t].class # "enabler")
             => \/ records'[t].status \in {"INTEGRATION_PENDING", "ACCEPTED"}
                \/ target' # target
                \/ <<"refused", t, records[t].integration.attempt>> \in lapses]_vars

IsForeign(commit) == commit = Foreign
Branch == INSTANCE TargetBranch WITH
    ByUser <- IsForeign,
    refs <- [b \in {"target"} |-> target],
    accepted <- IF Orchestrated
                THEN {Candidate(t, records[t].attempts) : t \in Accepted(records)}
                ELSE {}

(* The target loses no commit of the user and no accepted candidate, and   *)
(* no candidate enters it twice: the promise that Integration keeps.       *)
ImplementsTarget == Branch!Spec

(* AC-EXEC-001: every engine run ends.                                     *)
RunsEnd == pc # "down" ~> pc = "down"
=============================================================================
