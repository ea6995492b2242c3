# Verification of the AIFLOW workflow controller

`aiflow` (`src/src/aiflow/`) runs coding agents on a git checkout under a finite
controller. All it knows about a run is kept in files: a store with a write-ahead
intent, a lease that says which controller may write, and directory locks. The
programs that share those files are short-lived command-line processes and a local
HTTP server, they may be killed at any instant, and the checkout may be mounted on
several machines. The repository still ships the workflow that came before it
(`scripts/`): programs that keep a ledger of jobs under `.ai/` and take no lock at all.
This directory holds TLA+ models of both, the instances TLC checks, and proofs that
TLAPS checks.

Paths below are relative to the repository root, and those of the form
`state/store.py` to `src/aiflow/`.

## 1. Inventory

| Component | State it keeps | Operations | Interacts with | What is hard | What makes it correct |
|---|---|---|---|---|---|
| Run store, `state/store.py`, `events.py`, `atomic.py` | `RUN.json`, `TASKS.json`, `EVENTS.jsonl`, `TRANSACTION.json` | create, transition, recover, verify, write_inbox_result | lock, lease, repair | a crash or failed write between any two of five writes; torn log lines; stale revisions | files always recoverable; one append-only history; snapshots = replayed log |
| Directory locks, `state/locks.py`, `store.py:113-185` | a directory with `OWNER.json` | take, break a stale one, time out, release | everything | owner dies at any file operation; two waiters break at once; slow creators | mutual exclusion; the owner file tells the truth |
| Controller lease, `state/leases.py`, `ownership.py` | `CONTROLLER_LEASE.json`, a heartbeat thread | claim, heartbeat, release, validate | store, lifecycle | expiry while the holder writes; a heartbeat thread that ends; foreign hosts; torn lease file | only the holder writes; no takeover from a live process |
| Repair and migration, `state/repair.py` | rewrites snapshots, migration intent | repair, migrate | store | half-done commands; a transition prepared at the time | what is committed never changes; a migration ends verified |
| Run lifecycle, `controller/lifecycle.py`, `state/handoff.py` | run status, `MUTATING_RUN.json`, handoff packets | start, resume, stop, pause, handoff | store, lease, engine | stop against a running controller; two runs on one checkout; a copy of RUN.json written back | one engine per checkout; closed means accepted; a packet that verifies is current |
| Task execution, `controller/execution.py`, `pending.py`, `staging.py`, `runner.py` | task records, attempts, budgets, inbox files | step, fail, accept, adopt an orphan, recover a pending integration | store, policy, integration, agents | restart between inbox, intent and acceptance; retries; budgets | no task is accepted twice or without evidence; every run ends |
| Progress policy, `domain/progress.py` | open and closed acceptance IDs, debt, no-delta breaker | next task, accept, replan, restore | task execution | debt and replan across a restart | debt is paid first; memory equals what is restored |
| Integration, `integration/*.py` | a git ref, its worktree | test, prepare, compare-and-swap, refresh, roll back, recover | task execution, the user's own git | the target drifts at any step; crash after the swap | foreign work survives; what is integrated was tested |
| Event stream, `api/service.py`, `sse.py`, `server.py`, `frontend/src/App.tsx` | bounded event buffer, revisions seen; cursor and counters of a page | publish, synchronise, snapshot, replay, reset, reconnect, poll | lifecycle, browsers | snapshot and cursor read apart; eviction at the cursor; a server that restarts | no event passed over; a page ends up showing the current state |
| Installer, `skills/installer.py` | managed files, `project.lock`, backups | init, upgrade, rollback, uninstall, verify | the user's files | one of many writes fails; crash in the middle; user edits | all or nothing; user edits survive; the lock tells the truth |
| Quality gate, `quality/*.py` | a baseline of metrics | measure, compare, search for import cycles | CI | a search over a graph visited in an order that changes | a cycle is reported exactly when there is one |
| Job ledger, `scripts/create_job.py` ... `human_milestone_review.py` | `.ai/jobs/*/status.json`, branches, gates | create behind the progress gate, transition, update, review, integrate, approve, prune | panel, progress gate, agents, people | no lock: read, check and replace of two scripts interleave; a review that dies half-way | a pruned job was accepted; two creators never share a directory |
| Review panel, `scripts/orchestrator.py`, `consensus_core.py` | votes of a round | consult, rounds, decide | ledger, intake | timeouts, garbled answers, majorities | work is let through only by all |
| Architect intake, `scripts/architect*.py`, `check_spec_completeness.py`, `check_autonomy_boundary.py` | `spec_session.json`, planning files | interview, gate, compile | panel, supervisor | a save from an old copy; files of different compilations | nothing told is forgotten; only complete specs are planned; no milestone past the delegated ones starts alone |
| Attestation, evidence, agent results, security, scheduler, release, skill manager, CLI | none, or a small cache | validation, text analysis, I/O | | little beyond one process | data checks |

`PROJECT.json` names the sources of every component, its status, and under
`hazards` the lines where each difficulty bites.

## 2. Plan

Done, in the order of importance it was done in:

1. `RunHistory`, `RunStore`: the store, its lease and its recovery, and the history it implements.
2. `RunMaintenance`: RunStore composed with repair, migration and damage.
3. `DirectoryLock`: the lock RunStore takes for granted.
4. `RunStoreProofs`, and the lock's proofs, now in `MechanismProofs`.
5. `ProgressPolicy`, `TaskExecution`: selection and debt, and the engine over them.
6. `TargetBranch`, `Integration`: the git target, and what both it and TaskExecution implement.
7. `RunLifecycle`, `RunLifecycleProofs`: the commands on a run over its two leases.
8. `ProjectInstaller`: the only other component that writes files of the user.
9. `EventStream`: from a change of a run to what a page shows.
10. `ReviewPanel`, `ProgressGate`, `JobLedger`, `JobLedgerProofs`: the older workflow's ledger and its two gates.
11. `ArchitectIntake`: what comes before the ledger.
12. `DependencyCycles`: the one algorithm on a graph, with its proof, now in `MechanismProofs`.
13. RunStore implements RunHistory, and its snapshots replay its log; OWNER.json names the holder; both gates of the ledger: added to the proofs named above.
14. `ProjectInstallerProofs`: the three properties of the installer.
15. `IntegrationProofs`: the four properties of the transaction, with the refinement.
16. `TaskExecutionProofs`: the safety properties of the engine, with the refinement.

17. `RunStoreProofs` over `RunMaintenance`: repair and migration, and the history again.
18. `ArchitectIntakeProofs`: complete plans, the boundary of the delegation, the interview.
19. `MechanismProofs`: the event stream, next to the locks and the search for cycles.

Left:

20. The hub that proxies several project servers (`api/server.py`), and the ledger's repair flags.

## 3. Modules

### RunHistory
The abstract specification: a sequence of committed transitions. `Observe` reads the
current revision (the sequence's length), `Commit` appends one entry and needs the
author to have read exactly that revision. Nothing ever shortens or rewrites it.

### RunStore
One action per file write, so that a crash falls between any two.

| State | Code |
|---|---|
| `run`, `tasks` | the snapshots, reduced to revision, author and one updated field each |
| `log`, `ending` | the complete events of EVENTS.jsonl, and how the file ends: `clean`, after a `fragment`, after a whole event without its newline (`unterminated`), or `garbled` (two events on one line) |
| `intent` | TRANSACTION.json, replaced atomically |
| `lock`, `lease`, `expired` | transaction lock and lease; `Orphan` and `Torn` are the forms only a crash produces |
| `pc`, `goal`, `rolling`, `seen` | where each controller is in transition() or recover(), whether it is rolling a found intent forward, and the revision it expects |
| `alive` | the processes that live |

`Begin`, `AcquireLock`, `TrimTail`, `InspectIntent` and the four roll-forward steps
are `_recover_locked`; `ValidateController`, `PrepareIntent` and the same four steps
are the operation's own part. `WriteFails` is an exception inside the lock: the
`finally` releases it; `LockFails` is one while the lock itself is taken or released, and
leaves it behind, in the name of a live process or of none. `Crash` ends a process and every controller in it; `HalfDone`
lists what it may leave half done. An append is torn at any byte: mostly a fragment,
and, when `MaySplitNewline` is TRUE, exactly before the newline. A machine is a
(host, boot) pair: only there can a dead owner be told from a live one, so a
transaction lock or an expired lease of another machine is never broken. Checksums
and the checksum chain are represented by the record itself: a file has its content
or cannot be read.

### RunMaintenance
EXTENDS RunStore with schema versions, a prepared `migration` in the place of the
intent, `damaged` (RUN.json fails its checksum), and the steps of `repair_store` and
`migrate_store`. RunStore's steps are reused unchanged, except that a step which reads
RUN.json is not taken while it is damaged (reading raises; `WriteFails` is that step),
and that a recovery which finds a migration applies that. A migration may be asked for at
any time, and then replaces whatever is prepared, as `migrate_store` does; `superseded`
is a history variable, set when that was a transition whose RUN.json was written and whose
event was not in the log (`HalfApplied`). It is read by no action: the properties say what
holds until then, and the run RunMaintenanceRacing shows what happens after it.

### DirectoryLock
Both lock implementations, one action per system call: mkdir; the mkdir, temporary
file and rename inside atomic_write_json; the read of OWNER.json on which a waiter
decides; its later unlink and rmdir; the owner's unlink and rmdir. `kind` chooses the
implementation (only `owned` breaks an aged orphan and checks the owner when
releasing). `aged` stands for the directory's mtime being older than the grace period;
every change in the directory resets it. Any number of waiters may be breaking a lock at
once, a live creator or releaser may outlast the grace period, and any file operation may
raise in a process that lives on (`Fails`). `stolen` is a history variable, set when a
waiter removes the owner file of a live process, or a directory that a live process has
just made or is about to remove.

### ProgressPolicy
`domain/progress.py` as operators on a record: the plan (class, closed IDs,
dependencies and target of each task, in the order of their ids) is an argument. `Restored` is
the constructor, from accepted tasks, loaded tasks and the saved state, and
`Restorable` says when it does not raise; `NextTask` is the task it hands out, at most
one; `Claimable` is `validate_claim`, `Recorded` is what `accept` leaves, also when it
raises half-way (`SecondEnabler`), `Late` says that the debt an enabler leaves is paid
already; `CanReplan` and `Replanned` are the no-delta breaker.

### TaskExecution
The engine loop, one action per durable effect, so that a crash, a failed write, a
commit of the user or his work in the checkout falls between any two.

| State | Code |
|---|---|
| `contract` | the mode, the plan and the number of faults of this run |
| `records`, `state` | TASKS.json: the task records and `progress_state`; written together by `_persist` |
| `inbox`, `worktrees` | the staged result and the writer's worktree of each task and attempt |
| `target`, `checkout` | the target branch, a commit being the history that leads to it; whether the checkout's files are those of its HEAD (`clean`), still those before the candidate (`stale`), or neither, or the user is on another branch (`dirty`) |
| `memory`, `policy`, `current`, `recovering` | `self.records`, `self.policy`, the task and attempt being worked on, and whether `_recover_pending_integration` does it |
| `budget`, `completed`, `failures` | the resume's Budgets and the counters of the runner |
| `lapses` | history: the attempts that were `refused` with their commit in place, accepted `late` as an enabler, or `lost` in Solo mode after the policy had accepted them |
| `pc`, `cont`, `jammed` | the step; where it goes on after `_persist`; whether a failed `_persist` has left a prepared intent, so that the next one is refused for its stale revision |

`Resume` is the constructor. `_step` starts at `top`: `Adopt`; `Reapply`,
`ResumePending` or `Ambiguous`; `Replan`, `NothingToDo`, `Exhausted` or `Dispatch`. An
orchestrated attempt goes on with `Write`, `CommitCandidate`, `Stage`, `TestsPass`,
`Swap`, `Refresh`, `Accept`, `Retire`; a Solo one with `DeliverSolo`, `Accept`,
`DeliverInbox`, `Retire`. `LeaveToRecovery` and `Fail` are the `except` branch: which of them
it is depends on the branch and on the checkout, as it does for `ResumePending` and
`Ambiguous` (`recover_pending_checkout`). `Retry` is the runner's count of failures. `Exit`
forgets the engine. The user moves by `ForeignCommit`, `Disturb` and `Tidy`; what he does
between two engines is the same as if he did it at the start of the next one. While he is
on another branch he does not commit there and the engine does not integrate there.

Taken as nondeterministic: what an agent, an attestation, a review or a gate says
(`AttemptFails`, `IntegrationFails`, which also stand for the budget of agent calls),
and the wall clock (`BudgetEnds`). The integration transaction is reduced to its
effects on the target; both models implement TargetBranch. A single engine
runs at a time; what that rests on is the lease of RunStore.

### TargetBranch
The abstract specification of an integration: branches grow by commits of the user and
by whole candidates, each at most once per branch, and only a candidate that is the last
commit and has not been reported may be taken back.

### Integration
One transaction at the level of git commands, on a checkout with an index and files.

| State | Code |
|---|---|
| `refs`, `head` | the branches, a commit being the sequence of commits up to it, each with author and tree; the branch HEAD is on |
| `index`, `files`, `saved` | the index, the working tree, and what `_preserve_untracked` moved away |
| `before`, `prepared` | the durable record: `target_before`, and `target_ref` once prepared |
| `bound`, `seen` | the transaction's branch; the commit `refresh_bound_target` or `rollback_bound_target` puts the files back to |
| `mode` | who integrates: the first try, a later engine, or one of the two callers of `recover_pending_checkout` |
| `gates`, `verdict`, `disturbed` | whether the candidate passes; what becomes of the task; `torn` once a crash has cut read-tree short, `yes` once a user, an interrupt or a failed write interfered |

The path through `apply` is `Capture`, `Test`, `Check`, `RecordPrepared`, `Check`,
`Swap`, `CheckBranch`, `CheckFiles`, `Refresh`, `CheckHead`, `CheckApplied`; `Withdraw`,
`Unbind`, `Follow` and the four steps of `rollback_bound_target` lead back. `ReadTree`
is git's two-way merge for one path at a time (clean, already there, untracked, in the
index or not) and refuses as a whole. Reads that only decide are one step with each
other, because the compare-and-swap and the refusal of read-tree make the decision
good again. Edits are unstaged, nobody deletes a file or detaches HEAD, and the git commands fail for no
reason of their own. One candidate, one attempt: retries are TaskExecution's.

### RunLifecycle
A call is `start`, `resume`, `stop`, `pause` or `handoff`, made by a thread of the web
server or a process of the command line.

| State | Code |
|---|---|
| `run`, `accepted` | RUN.json (revision, status, acceptance_ids_closed) and the IDs of the ACCEPTED tasks of TASKS.json |
| `lease`, `mutation`, `guard` | CONTROLLER_LEASE.json, MUTATING_RUN.json and `.mutation.lock` |
| `packet` | the handoff packet of a run: what it says |
| `copy` | RUN.json as a call has read it, and as it will write it back |
| `beating` | whether the heartbeat thread of an engine still runs |

`Enter` and `Leave` are the two ends of `checkout_mutation`; `Claim` to `Release` is the
claim, the `try` and the `finally` that every command has. `Work`
accepts tasks; `Finish`, `Raise` and `Interrupt` are how an engine ends, `Exit` is the
transition after it. `ClaimFails`, `HeartbeatFails` and a release that fails are the
error paths; `Expire` and `Crash` happen to a call. A transition, a lock and an engine
are one step each here, because RunStore, DirectoryLock and TaskExecution are about
those.

### ProjectInstaller
Files, `project.lock` and backups, a step for each file that is written or removed.
`Install`, `Write`, `RemoveObsolete`, `WriteLock` and, when one of them raises,
`RestoreFile` are `_apply` and `_restore`; `Uninstall` and `RemoveOwned` are uninstall;
`Rollback` is an `_apply` of a backup. A content is who wrote it, which of his versions
it is and, for project.toml, the profile line that an upgrade rewrites. The user edits
and deletes any file at any time; `raced` are the files he changes after a running
command has looked at them.

### EventStream
`store` is the disk, `seen` and `published` are the buffer, `stream` the thread that
serves a page, with what it has sent and the page not yet received, and `page` what
App.tsx keeps. `ListRuns`, `PublishChanges` and `Read` are one turn of the streaming
loop; `Mutate`, `PublishRun` and `MarkSeen` a POST thread, which publishes after the
store's lock is gone; `Connect` to `Poll` the page. An event is only its number: a page
takes any of them as a reason to ask for a snapshot. Nothing orders the answers to these
(`App.tsx:17`): `overtaken` counts the requests under way that a later one has overtaken, and
`outrun` says that the page shows the answer to such a one. The snapshot's `event_cursor` is
not used by the page, and therefore not in the model. After a reset the page reconnects
with an empty cursor and everything retained is replayed, so no change is lost.

### ReviewPanel, ProgressGate
Two pure algorithms as operators, each with a reference definition TLC compares over
all inputs of a size. ReviewPanel: the votes of every panelist in the last round, when a
round is the last, what the panel agrees on, and the exit code and fields the ledger keeps;
PolicyDecides says of it what consensus_policy.md does: one verdict at most, and no
acceptance without the majority, or the unanimity, the quorum asks for. ProgressGate: the consistency of a
progress block (`progress_from_block`) and the two streaks; DebtIsOfTheLastTwo says the
same of the last two jobs without walking. JobLedger, which uses both, compares them once,
while there is no job yet.

### JobLedger
The directory of jobs, EXTENDing both. A run of create_job.py is `Check`, `NextId`,
`MakeDirectory`, `WriteStatus`; an editor (an agent or a person with one of the scripts)
is `Look`, then `Transition` or `Update`, which read status.json again and check, then
`Replace`; the scripts of two editors overlap in any way. `overwritten` is a history
variable: the jobs of which a script has replaced a state other than the one it had read.
`Integrate` is integrate_job.py; `Approve` and `Prune` are the milestone review, which
records its approval before it prunes.

### ArchitectIntake
`job` is the command of each user: an interview turn (`Ask`, `Answer`), the completeness
gate with its panel (`Gate`, `PanelReady`, `PanelObjects`), a compilation (`Compile`,
`WriteRoadmap`, `WriteDelegation`, `SaveCompiled`). Each loads the session when it starts
and may save it minutes later, and commands overlap in any way. A planning file is the spec
it was rendered from, of which interview, and whether `--allow-incomplete` was given
(`forced`); `Order` and `Delegation` are what is read from it. `overtaken` is a history
variable: the interviews in which a command has saved what it had loaded over what another
had saved meanwhile. `Merge` and `Upserted` are `_upsert_by_id`, which gives the fields an
update has to the entries it names. `init` compiles what is there when its panel has passed,
which may be incomplete again (`CompileRefused`).

### DependencyCycles
`cycle_errors` as a state machine, because its recursion visits the imports of a module
in the order of a Python set: `VisitRoot`, `Report`, `Skip`, `Descend`, `Return`, over
any graph. `Resolved` is the loop that takes parts off the end of a name. Relative
imports and the implicit import of a parent package do not reach the search.

## 4. Runs

| Run | Instance | Shows |
|---|---|---|
| RunStore | 2 controllers in 2 processes of a machine, 2 transitions begun per controller at most | CrashConsistent, SnapshotsReplayLog, WriterHoldsLease, PreparedNeverDropped, the refinement ImplementsHistory; OperationsEnd under fairness |
| RunMaintenance | schema 0 at the start, migration to 1 and damage at any time | RepairRestores, MigrationFinishes; MaintainsHistory, the refinement with the operator's commands |
| RunMaintenanceRacing | the same | MigrationCompletes is violated (section 6, 3) |
| DirectoryLock | 3 processes on a machine and 1 on another, both kinds | ExclusiveUnlessStolen, OwnerFileTruthful |
| DirectoryLockRacing | the same, the lock of the store | MutualExclusion is violated (section 6, 1) |
| Integration | a candidate that adds one file and changes another, a third file, two branches; 3 moves of the user, 2 faults | UserWorkKept, CrashesKeepCandidate, FailedLeavesNothing, ImplementsTarget |
| TaskExecution | six plans of one to three tasks, two budgets, one or two faults | what is accepted is integrated, once; nothing is lost by a crash; debts come first; ImplementsTarget; every engine ends |
| RunLifecycle | 2 runs, 2 calls at once from 2 processes, 1 fault, leases that expire at any time | OneMutatingRun, EngineOwnsRun, ClosedHonest, HandoffCurrent |
| ProjectInstaller | a small and a large profile, 2 versions, 2 edits, 2 backups, 2 faults | LockTruthful, UserWorkKept, AllOrNothing |
| EventStream | 1 run that changes twice, 1 page, a buffer of one event, 2 faults, 1 restart | StreamContiguous; FollowersCatchUp and PagesComeToRest under fairness |
| JobLedger | 2 creators, 2 editors, 2 jobs; panels of 3 in 2 rounds; histories of 3 jobs | OwnDirectory, PrunedStaysAccepted, PanelFollowsPolicy, DebtOfTheLastTwo |
| ArchitectIntake | 2 users, 2 requirements, 2 criteria, 2 milestones, 3 turns, 1 kill | NothingForgotten, PlanWasComplete, BoundaryMatchesRoadmap |

Bounds. `MaxRevision` stops transitions from being *begun* at that revision: with 2, a
controller may crash in one transition, another may complete it and make the next, and
the first may come back with a stale revision. Two controllers give every pairwise race
on an intent; a third adds no new pair, because all steps that change files are under
one lock. One task list, next to "no update", tells an update from none and a lost one
from a kept one. The controllers are on one machine, where a dead owner's lock and lease
are taken over; on two (`MachineOf <- TwoMachines`, also explored) nothing is. In RunMaintenance
`MaxRevision` is 1: one transition, one migration and any number of repairs and crashes
of two processes. The lock needs three processes on one machine (owner, breaker, third
party), and a fourth elsewhere, which may not judge them; the three are symmetric. There
TLC ends with a lock nobody may break: the run says CHECK_DEADLOCK FALSE, because the
system really may stop there.

In TaskExecution the number of resumes is unbounded, and a fault is a crash, a failed
write or command, a commit of the user, or his beginning to work in the checkout (he may
be done with it at any time). Solo and a chain of two tasks get two faults, so that a
second one can hit the recovery from the first; the four plans about debts and
replanning get one. A resume gives three tasks and two
attempts, or one and one: a retry, an exhausted record under the smaller budget, and a
task budget that ends between a task and its debt all happen. MaxAttempts is the larger of
these budgets' attempts and bounds nothing else. One failure signature: a
second would only delay the runner's limit. The plans include an enabler
of an enabler and one whose target does not depend on it, and the write of the Solo inbox
may fail.

In Integration the three files are the three cases a path can be in: added, changed or
left alone by the candidate. Three moves are enough to leave a branch, work there and come
back, or to edit, commit and switch; two faults, to crash in the recovery from a crash.

In RunLifecycle two calls on one run race for its leases, or two on different runs for
the checkout; a third run would only be refused. Calls are made on the first run while
its revision is below 2 and on the second while it is 0; what they do then goes on without
a bound, so that starts, resumes with a second engine, and stops meet on the first, and
each of them with one engine of the second. In ProjectInstaller the
large profile has one file more than the small one, so that a change of profile adds or
removes one; the second fault hits the restoration after the first, or the next command.
In EventStream a buffer of one is the smallest that evicts; two changes put a page one
event behind an eviction; more pages share nothing but the event lock, which strong
fairness passes on. In JobLedger two jobs suffice for two creators to collide and for a
pruned job next to a live one, and four scripts (`MaxScripts`) to accept one and to overlap
on it; the gates get every input of their size. In
ArchitectIntake two milestones with one delegated have a first and a later one, and the
five answers include one with an open question that names a milestone twice, and two that
leave out fields and move a criterion to another requirement; a compilation follows at any
point. Integration and ArchitectIntake come to an
end (a verdict, no turns left), hence their CHECK_DEADLOCK FALSE.

Symmetry is used only in runs without liveness properties, for processes, callers,
creators and editors, which no definition tells apart.

Fairness. Safety runs assume none. In RunStore, weak fairness of the steps of an
operation that has been begun: a live process is scheduled, a file operation returns,
and the deadline of a lock wait (5 s, `store.py:114`) passes. Nothing is assumed of
claims, heartbeats or crashes. A dead process takes no step, and its operation counts
as over. In TaskExecution it is weak fairness of the engine's step: agents, gates and git
commands have timeouts. Nothing is assumed of resumes or of which
outcome an attempt has; that RunsEnd holds all the same is what the budgets are for. In
EventStream threads and timers go on (weak fairness), and a stream that keeps asking for
the event lock gets it (strong fairness of `ListRuns`: every holder keeps it for one
listing a second). Nothing is assumed of changes, failures or restarts.

Each property of a passing run has a mutant of the model (listed in PROJECT.json, the
definitions are marked "Faulty variant") that breaks it: a recovery that trusts RUN.json,
an intent without the task updates, a lease freed on expiry, an unsigned lock
directory that counts as free, a commit without its expected revision, an obsolete file left behind, an evicted cursor
that is served what is left, an accepted job that may be reopened, and so on.

## 5. Proofs

Every safety and action property of the passing runs is a theorem here, and so is every
refinement; what TLC shows for the instances of section 4 holds for every value of the
constants. The search for cycles has a theorem and no run. Eight modules hold the proofs, one to a component, except `MechanismProofs`,
which has three mechanisms that stand alone. It extends their three modules together,
which is why the initial states and next-state relations of two of them have names of
their own (`LockInit`, `LockSpec`; `SearchInit`, `SearchSpec`).

`MechanismProofs`, the directory locks. `LockIsExclusive`: ExclusiveUnlessStolen, for any
number of processes, machines and waiters that break a lock at once, and either kind.
It is not inductive: the invariant says in addition, of every state before a lock was
stolen, that whoever has made the directory and not left it is alone (`EngagedAlone`), and
that the directory shows it: it is there, and OWNER.json names him from the moment it is
published to the release (`EngagedPresent`). A breaker that has decided on a dead owner and
is late then hits a directory of a dead process, or steals. `OwnerIsNamed` follows from it.

`RunStoreProofs`, for any number of controllers, processes, machines, values and
revisions:
- `TypeCorrect` rests on `LockedInv`: every controller in a critical step is alive and
  holds the lock, and an intent exists in the steps that read it.
- `LeaseProtectsWriter`: adds that a lease changes hands only from the dead, for the
  holder of the lock to keep what it has validated.
- `StoreIsCrashConsistent` (this and the rest for MaySplitNewline = FALSE, which is
  needed: section 6, 2): adds, for each step of the lock's holder, how far the intent has
  been applied.
- `PreparedTransitionsSurvive`: from the same invariant, for every step.
- `StoreImplementsHistory`: the refinement of RunHistory. `HistoryInv` says that an entry's
  place in the log is its revision, that an intent is of the next revision and its event of
  the next number, and that until RUN.json is written, which is the step that commits, the
  intent's author has read exactly the revision it replaces.
- `SnapshotsAgreeWithLog`: `ReplayInv` says that each field of the snapshots is what the
  last event that updates it gave it, and of an intent that it continues those.

The same module goes on to the store with the operator's commands (`RunMaintenance`),
for MaySplitNewline = FALSE. A migration may replace a prepared transition. What holds
even then is `LastingInv`: the locks (`LockedInv`), what an entry of the log is
(`LogShape`) and what the commands know (`MaintenanceInv`): a prepared migration, or one a
controller is applying, holds the snapshots as they are, and no intent exists beside it
(`MigrationHeld`); whoever got past recovery has left none (`PastMigration`); each step of
a migration has written its schema (`SchemaWritten`); a repair has nothing prepared
(`RepairAtRest`). `TogetherInv` adds `StoreInv`, which joins the invariants of RunStore, as
long as no half-applied transition was `superseded`; the steps of RunStore keep it as
before, once the steps that are not taken beside a damaged file or a migration are set apart.
- `RepairsRestore`: while a repair is under way nobody else writes, so that it puts back
  what was there. `MigrationsFinish`: only the last step of a migration removes it, and the
  snapshots are then those it was asked to keep, at the new schema.
- `MaintainedStoreImplementsHistory`: the refinement of RunHistory until then; every command
  is a stutter.
- `MaintainedStoreIsConsistent`: the log stays readable with the commands, too, and until
  then CrashConsistent and SnapshotsReplayLog hold. `MaintenanceTypeCorrect` is their typing.

`IntegrationProofs`, for any paths, branches, candidate, moves and faults:
- `BranchInv`: types; the branch that is bound is the one recorded (`Bound`); and every
  branch is the user's alone or `target_before`, the candidate, and then only commits of the
  user (`Grown`). From it `TypeCorrect`, `EditsSurvive` and `TransactionImplementsTarget`.
- `FailedInv` adds `FirstTry`: until the first try has ended only the bound branch can end
  in the candidate, and a failure is only reported by the recovery called right after it,
  which then finds nothing to resume. From it `FailureLeavesNothing`.
- `CourseInv` adds that as long as nobody interferes, branches, index and files are, at
  each step, those before the candidate or those with it (`OnCourse`), or a crash has cut
  read-tree short: then the branch has the candidate, the files are neither, and the only
  step from there blocks the task (`Torn`). From it `CrashesAreResumed`.

`TaskExecutionProofs`, for any plans, budgets, resumes, faults and moves of the user. None
of the properties is inductive, because what a record may say depends on the step the
engine is at and on what it has not saved yet; three layers say so:
- `EngineInv`: types; what a record, on disk or in memory, may say given the inbox and the
  target (`Sound`); memory is ahead of the disk by the task in hand at most (`Agree`); at
  most one task has an attempt that a restart would find (`Alone`); what each step knows of
  the task in hand (`CurrentKnown`). `Sound` carries `CandidatesKnown`: a candidate in the
  target is below a commit of the user, or belongs to a task that is over or to an attempt
  that was refused, or is the last commit and recorded as prepared. From it `AcceptanceIsReal`, `WorkIsIntegratedOnce` and
  `ExecutionImplementsTarget`.
- `PolicyInv`: the policy in memory agrees with the records in memory, the saved one with
  the saved records, and the two differ by the task in hand; a task in flight can still be
  accepted and is the debt if there is one (`FlightStands`); work in place is given up only
  if it is an enabler's, or refused (`PlacedKept`). The agreement needs that no Solo result was lost
  (`Reliable`), and the two theorems, `DebtIsPaidFirst` and `IntegrationIsKept`, do not.
- `RestoreInv`: what is accepted stands on what it needs and is counted, a debt is never
  accepted, and nothing is in flight while a replan is due (`Stands`), unless an enabler was
  accepted after its target or a Solo result was lost (`Spared` says that neither was). From it `RunsCanResume`.

`ProjectInstallerProofs`, for any profiles, files, versions, edits and failing writes:
- `CommandInv`: types and what each step of a command knows; `Progress` says which files
  are already written, removed or restored, and what is in them unless the user `raced`.
  From it `CommandsKeepUserWork` and `TransactionsAreWhole`.
- `TruthInv` adds that backups were truthful when they were made and that a command
  accounts for every owned file (`TransactionAccounted`): what it restores is what the old
  lock says, and what it installs what the new one will say, or the user's. From it
  `LockIsTruthful`.

`RunLifecycleProofs`, for any number of runs, calls, processes and faults. The invariant
is built in layers, and each theorem rests on the layers below it:
- `Controlled`: types, what each step of a call knows, `LeaseHeld` (between its claim and
  its release a call is named by the lease of its run, whether or not that expired) and
  `GuardHeld` (between Enter and Leave its process holds the guard, or it is at an engine
  and the mutation lease names it). From it `OneEngine` and `EngineAlone`.
- `Honest`: what is closed in the file, and in the copy a call will write back, is
  accepted. From it `ClosedIsHonest`.
- `Packets`: a packet of the current revision has the current contents. From it
  `HandoffIsCurrent`.

`JobLedgerProofs`: `CreatorsApart` (two creators never fill one directory; the invariant
says which number each has made and that its directory has no status yet; `LedgerTyped` is
its typing), and `PrunedIsFinal`, for scripts that overlap in any way: what a script is about
to write follows from the state it has read (`WritesFollow`), which is the one in the file
unless the write makes the job `overwritten`; and from `accepted` nothing follows.
The two gates are proved for inputs of any size, not as invariants: `PanelKeepsPolicy` (two
verdicts cannot both have a majority, and what does not block acceptance is `accept`, with
the majority or the unanimity the quorum asks for) and `GateCountsLastTwo` (the
streak the gate counts from the newest job down is at least two exactly when the two
newest, which exist in every finite set of two or more, are in it); `DebtStopsDispatch`
applies it to the histories of the run.

`ArchitectIntakeProofs`, for any users, requirements, milestones, updates and kills, and
commands that overlap in any way:
- `IntakeTyped` rests on `UpsertedKeeps`: the loop of `_upsert_by_id`, a recursive function
  on the number of entries merged, gives for every list and every update a list without
  an id twice, in which whatever was listed keeps its place and gets the fields the update
  has. It is an induction over a range of numbers, by the existence of a smallest
  counterexample (`UpTo`).
- `PlansComplete`: what is being compiled is complete from its check on, or was forced
  (`CompiledWhole`), because each command renders the spec it has loaded.
- `BoundariesHold` and `InterviewKeepsAll` rest on the copies there are of a spec: the
  session, the two planning files and what each command has loaded (`Copies`). Interviews are
  numbered as they begin (`Numbered`). In an interview that nobody has `overtaken`, the session
  and what is loaded and not stale are the same and continue all other copies (`Leaders`),
  and any two copies agree on the order of the milestones they both list (`OneHistory`).

`MechanismProofs`, the search. `VerdictOfTheSearch`, for every import graph and every order.
The invariant: the active modules are a path; a module is active or visited, and once;
what is reported is a closed path; and as long as nothing is reported, an import that an
active module has crossed off leads to a visited module or to the next active one, and
what a visited module imports was visited before it. That order is the witness that no
path returns when the search is over; that it is no longer than the modules are many is
a pigeonhole on injective sequences.

`MechanismProofs`, the event stream. `EventsOnTheWayInOrder` and from it
`StreamIsContiguous`, for any number of runs and pages, any retention limit, and any
cuts, slow pages and restarts. StreamContiguous speaks of what a page hears; the
invariant `StreamInv` has to speak of what has been sent and not yet received: it begins
with the number after the last one the page has heard and goes on without a gap
(`NoGap`); an "open" comes first and nothing follows a reset but the end (`OpenFirst`);
and the cursor of a thread that goes on is the number of the last event it has sent, or
else the page's own (`CursorKept`). `ReplayIsNext` is the boundary: what `_replay_locked`
returns is an interval that begins right after the cursor, unless it answers with a
reset. A page with an empty cursor is sent all that is retained, wherever that begins;
a reset leaves it with the last number of this connection, or with none.

`StreamTypeCorrect` is its TypeOK with every bound, and the bounds are not inductive by
themselves either. That a page never counts more than MaxReconnects failures needs that a
connected page has an attempt left, that only a connected page has anything on the way or a
thread that serves it, and that the end of a stream is the last thing on it, so that a page
is told once that its connection has ended (`Within`); the number a page has heard last is
one the server has given out because every number on the way is (`NumbersKnown`, until the
server starts anew); and the event lock is held exactly by the stream that is between
listing and publishing (`LockKnown`).

TLC has checked each of these invariants on the instances of section 4. What the proofs
assume is what the modules ASSUME of their constants (the placement of controllers, null
values distinct from the others, a candidate that changes the tree, a finite well-formed
plan of tasks, attempts of a budget between 1 and MaxAttempts) and, for RunStore and
RunMaintenance, MaySplitNewline = FALSE (section 6, 2). What the properties except, they
name themselves: `stolen`, `superseded`, `lapses`, `disturbed`, `outrun`, `overwritten`,
`overtaken` are history variables that no guard reads, and section 6 says what happens then.

Only model-checked: OperationsEnd, RunsEnd, FollowersCatchUp and PagesComeToRest. They are
liveness under fairness, and neither that nor ENABLED is within the prover's reach. The
induction theorems of the library, which take an operator, cannot be used: the loop of the intake is done by a smallest
counterexample, and what else a recursive definition computes for every input is not proved. No module here declares a
RECURSIVE operator.

## 6. Where the code and its documents disagree

Two of these are runs that TLC must find violated.

1. `MutualExclusion` (run DirectoryLockRacing). The owner of the store's lock dies inside it;
   two waiters read the dead owner; one breaks the lock, takes it and signs it, and the
   other, which does not look again (`store.py:181`), removes that lock and is inside as
   well, though `README.md:160` says "one controller lease, revision compare-and-swap".
   locks.py has the same race, and another one: a live creator that needs longer than the
   grace period to sign its directory loses it. DirectoryLock calls either `stolen`.
2. RunStore, `MaySplitNewline = TRUE`: `LogStaysReadable` fails. A torn append that lost
   exactly its newline is a whole JSON document, so recovery (`events.py:94`) keeps it, and the
   next event is written on the same line. From then on the log cannot be read:
   transition, recover and repair fail. No run states it; the passing run has FALSE.
3. `MigrationCompletes` (run RunMaintenanceRacing). migrate writes its intent over a prepared
   transition without looking (`repair.py:154`). If RUN.json was written by then, which
   needs only a write that raises, and the event was not, the migration keeps a RUN.json
   ahead of TASKS.json and the log, and verify() fails for ever, though
   `docs/OPERATIONS.md:39` says "Migration is transactional and idempotent."

The following come out of the modules as well; no run states them, because the passing runs
hold with them in it, and name them as exceptions:

4. TaskExecution, plan EnablerChain: `RejectedNeverIntegrated` fails. Accepting an enabler
   while its own enabler's debt is open is refused (`progress.py:295`), but only after the
   integration: `validate_claim` does not look at the debt. The candidate stays in the
   target, the task is blocked (compare
   `tests/regression/test_p12_architecture_final_red.py:81`).
5. TaskExecution: AlwaysRestorable excepts two ways to a run that cannot be resumed. `late`
   (plan LateEnabler): a ready delivery is dispatched before a ready enabler; if the delivery
   is the enabler's target, accepting the enabler makes an accepted task the debt
   (`progress.py:300`), the run stops, and every later resume raises. `lost` (plan Solo): the
   policy accepts before the inbox is written (`execution.py:454`); if that write raises, the
   policy counts a task whose record is not accepted, and saves that.
6. EventStream: `RestartNoticed` fails. A page whose cursor is empty, or has been given
   out again, is not told that the server restarted, though
   `frontend/tests/e2e/gui.spec.ts:132` says "browser receives a reset snapshot after the
   project server restarts". FollowersCatchUp excepts `outrun`: an older snapshot that
   arrives last is what the page shows, until the next event or poll (`App.tsx:17`).
7. ArchitectIntake: NothingForgotten and BoundaryMatchesRoadmap except `overtaken`: a
   compilation saves the session it has loaded over a turn of the interview, since nothing
   locks the session (`architect.py:62`, `architect_compile.py:152`).
8. JobLedger: PrunedStaysAccepted excepts `overwritten`. Reading, checking and replacing a
   status is not atomic, and transition_job.py neither checks nor bumps `state_revision`.
   `AcceptedWorkKept` fails in any case: an approval prunes (branch -D) an accepted job that
   has not been integrated.

Seen while modelling:
- Installer. A project.toml the user has edited becomes an owned, unchanged file by the
  next upgrade, and uninstall then deletes it (`docs/MIGRATION.md:28`: "Uninstall removes
  only unchanged hash-owned managed files. Modified files are preserved"); a rollback
  overwrites it. A crash in init leaves files that no command accepts, a crash in an
  upgrade a drift that upgrade and rollback refuse (`docs/MIGRATION.md:26`: "Upgrade
  profiles transactionally"). An edit of a file that the running command has already
  read is overwritten when that command raises. The installer takes no lock.
- Ledger. integrate_job.py looks at the state, base and commit of a job, tests_passed and
  two blocking flags, not at reviewers_complete (`.ai/README.md:339`), and does not rerun
  the progress gate (`.ai/supervisor/supervisor_protocol.md:94`). tests_passed and commit
  are not cleared when a job runs again. A rejected job is not an active one, so a new
  job may be created before it runs again. Once the last two jobs closed nothing, the
  gate refuses every task, also one that would close something, contrary to its message.
  A majority ends a consultation (`consensus_policy.md`) but its exit code is 1; the ledger
  does not read it, and records the first two answers of the panel only, so that a job
  whose third panelist dissents is integrated. A crash
  between archiving a human gate and writing the request loses the requested changes;
  start_loop removes a lock directory whose pid file is not there yet, so that two loops
  are possible.
- Intake. The session is saved in place: cut short, it cannot be read, and the next
  command starts a new interview. A criterion named again may be given another requirement
  and leaves the first one without (`architect_core.py:97`). architect_compile.py can be called on its own,
  without the panel, though `check_spec_completeness.py:9` says "Two layers, both must pass
  before the spec is handed off to the supervisor".
- Lifecycle. stop and pause need the lease that a running controller holds, so they
  cannot reach a live run. When building the default tasks raises after the claim, the
  lease is left behind until it expires.
- Engine. Two enablers of one target: the second can be dispatched neither before the
  debt nor after it, and the target that depends on both waits for ever. In Solo mode, a
  crash between the inbox file and the accepted record blocks the task: an inbox without
  orchestration data cannot be adopted.
- Integration. A commit of the user between the swap and the checks after it makes the
  transaction report a failure although the candidate stays in the history; the task is
  done again (the exception in IntegratedOnce). A crash after the swap, and the user
  switches to a branch that is still at target_before: `_recover_pending_integration`
  compares HEAD with target_before, but not the branch with target_ref, and integrates
  the candidate there a second time (`docs/OPERATIONS.md:45`: "Recovery resumes that exact
  transaction"). A rollback whose compare-and-swap or read-tree is refused leaves the
  checkout with changes the user did not make. A crash in the middle of read-tree leaves
  some files updated: recovery finds a dirty checkout and blocks the task with its commit in
  place (`docs/OPERATIONS.md:43` promises that it is resumed). So does any change the user has made by
  then; if it is the running engine that finds it, the attempt is retried instead, and its
  work may be integrated a second time (`refused`, the other exception in IntegratedOnce).
- Store. A transaction lock orphaned by a crash (or left with a temporary file) blocks a
  run until someone removes it, and so does a lease file that a crash left empty.

## 7. Not modelled

- Data checks without a state of their own: identity, attestation, cycle evidence, process
  and scan guards, configuration, request parsing and tokens of the server, the metrics
  and budgets of the quality gate, signatures of the integration.
- Input and output around one call: agent backends (an answer or an error), the scheduler
  poller, the release archive, the terminal and the rendering of the frontend.
- The hub that proxies several project servers; runs that are deleted while a page
  follows them.
- In the installer, the upgrade of the self-hosted distribution. In the skill manager,
  sync removes a skill before it moves the new one in: a crash there loses it, in one step.
- In the scripts, the loops that start agents, the repair flags (`--force`,
  `--allow-state`, `--job`), `--no-consensus`, the completeness gate called on its own, the
  session's `status`, the requests a rejected milestone writes, and the fields of a status
  nothing decides on.
- In TaskExecution, a second branch: the user may be on one, but integrates and commits
  nothing there (Integration has two).
- RunStore starts after `create` has returned. `prepare_transition` is not called by the
  program (transition() inlines it).
- Clocks are "expired or not" and "aged or not", so clock skew between machines is outside
  the models.
