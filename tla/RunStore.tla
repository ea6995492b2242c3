------------------------------ MODULE RunStore ------------------------------
(***************************************************************************)
(* The durable store of one run: RUN.json, TASKS.json, EVENTS.jsonl and    *)
(* the write-ahead intent TRANSACTION.json, changed under a directory lock *)
(* by controllers that hold the run's lease.                               *)
(*                                                                         *)
(* Every file write is a step of its own, so that a process may die, or a  *)
(* write may fail, between any two of them.  Processes run on machines: a  *)
(* machine is one (host, boot) pair, and whether a process is still alive  *)
(* can be told only from its own machine (state/ownership.py).             *)
(*                                                                         *)
(* Here the two directory locks work as intended: one taker wins, and a    *)
(* lock is broken only when its owner is dead.  DirectoryLock models them  *)
(* step by step.                                                           *)
(***************************************************************************)
EXTENDS Naturals, Sequences

CONSTANTS
    Controllers,       \* controllers; each runs in one process
    Processes,         \* operating-system processes (pid and start time)
    Machines,          \* (host_id, boot_id) pairs
    ProcessOf,         \* the process of a controller
    MachineOf,         \* the machine of a process
    Statuses,          \* values of the updated fields of RUN.json
    TaskLists,         \* values of the updated fields of TASKS.json
    MaxRevision,       \* bound: no transition is begun from this revision on
    MaySplitNewline,   \* a torn append may lose exactly the final newline
    None,              \* no file, no owner, no update
    Orphan,            \* a lock directory that has no OWNER.json
    Torn               \* a lease file that is empty or cut short

VARIABLES
    run,        \* RUN.json
    tasks,      \* TASKS.json
    log,        \* the complete events of EVENTS.jsonl
    ending,     \* how EVENTS.jsonl ends, or that it cannot be read any more
    intent,     \* TRANSACTION.json, or None
    lock,       \* .transaction.lock: free (None), owned, or Orphan
    lease,      \* CONTROLLER_LEASE.json: None, the controller it names, or Torn
    expired,    \* the lease's expires_at has passed
    pc,         \* the step each controller is at
    goal,       \* the operation it runs: transition() or recover(), or None
    rolling,    \* it is rolling an intent forward, before its own operation
    seen,       \* the revision it last read (its expected_revision)
    alive       \* the processes that have not died

files == <<run, tasks, log, ending, intent>>
leasing == <<lease, expired>>
control == <<pc, goal, rolling, seen>>
vars == <<files, lock, leasing, control, alive>>
----------------------------------------------------------------------------
(* The payloads, reduced to what the properties tell apart.  `by` is the   *)
(* field controller_id; an update of None leaves its fields alone.         *)

Revisions == Nat
Authors == Controllers \cup {None}
StatusUpdates == Statuses \cup {None}
TaskUpdates == TaskLists \cup {None}

RunSnapshots == [rev : Revisions, by : Authors, status : StatusUpdates]
TaskSnapshots == [rev : Revisions, list : TaskUpdates]
Events == [seq : Nat \ {0}, rev : Revisions, by : Authors,
           status : StatusUpdates, list : TaskUpdates]
Intents == [base : Revisions, next : Revisions, run : RunSnapshots,
            tasks : TaskSnapshots, event : Events]

ASSUME NullAssumption ==
    /\ None \notin Controllers /\ None \notin Intents
    /\ Orphan \notin Controllers /\ Orphan # None
    /\ Torn \notin Controllers /\ Torn # None

ASSUME PlacementAssumption ==
    /\ ProcessOf \in [Controllers -> Processes]
    /\ MachineOf \in [Processes -> Machines]

ASSUME BoundAssumption ==
    MaxRevision \in Nat /\ MaySplitNewline \in BOOLEAN

Running(c) == ProcessOf[c] \in alive
SameMachine(c, d) == MachineOf[ProcessOf[c]] = MachineOf[ProcessOf[d]]
(* owner_is_live is false, and may be believed: c runs on d's machine.     *)
KnownDead(c, d) == SameMachine(c, d) /\ ~Running(d)

(* read_events succeeds: every line parses and the chain is unbroken.      *)
Readable == ending \in {"clean", "unterminated"}

Goto(c, step) == pc' = [pc EXCEPT ![c] = step]
(* The operation of every controller in cs is over, well or badly.         *)
Ended(cs) ==
    /\ pc' = [c \in Controllers |-> IF c \in cs THEN "idle" ELSE pc[c]]
    /\ goal' = [c \in Controllers |-> IF c \in cs THEN None ELSE goal[c]]
    /\ rolling' = [c \in Controllers |-> c \notin cs /\ rolling[c]]
Return(c) == Ended({c})
At(c, step) == Running(c) /\ pc[c] = step

(* The steps taken inside `with self._lock()`.                             *)
Critical == {"trim", "inspect", "writeRun", "writeTasks", "append",
             "finalize", "verify", "validate", "build", "release"}
----------------------------------------------------------------------------
Created == [seq |-> 1, rev |-> 0, by |-> None, status |-> None, list |-> None]

(* RunStore.create has returned: revision 0 and the run_created event.     *)
Init ==
    /\ run = [rev |-> 0, by |-> None, status |-> None]
    /\ tasks = [rev |-> 0, list |-> None]
    /\ log = <<Created>>
    /\ ending = "clean"
    /\ intent = None
    /\ lock = None
    /\ lease = None
    /\ expired = FALSE
    /\ pc = [c \in Controllers |-> "idle"]
    /\ goal = [c \in Controllers |-> None]
    /\ rolling = [c \in Controllers |-> FALSE]
    /\ seen = [c \in Controllers |-> 0]
    /\ alive = Processes

(* read_run outside the lock: the revision a later transition will expect. *)
Observe(c) ==
    /\ At(c, "idle")
    /\ seen' = [seen EXCEPT ![c] = run.rev]
    /\ UNCHANGED <<files, lock, leasing, pc, goal, rolling, alive>>

(* transition() or recover() is called.                                    *)
Begin(c) ==
    /\ At(c, "idle")
    /\ \E g \in {"transition", "recover"} :
           /\ g = "transition" => seen[c] < MaxRevision
           /\ goal' = [goal EXCEPT ![c] = g]
    /\ Goto(c, "waiting")
    /\ UNCHANGED <<files, lock, leasing, rolling, seen, alive>>
----------------------------------------------------------------------------
(* The transaction lock.                                                   *)

AcquireLock(c) ==
    /\ At(c, "waiting")
    /\ goal[c] \in {"transition", "recover"}
    /\ lock = None
    /\ lock' = c
    /\ Goto(c, "trim")
    /\ UNCHANGED <<files, leasing, goal, rolling, seen, alive>>

(* The owner file names a dead process of this machine: the lock is        *)
(* removed, and the waiter tries mkdir again.                              *)
RecoverStaleLock(c) ==
    /\ At(c, "waiting")
    /\ lock \in Controllers
    /\ KnownDead(c, lock)
    /\ lock' = None
    /\ UNCHANGED <<files, leasing, control, alive>>

(* Faulty variant: a waiter gives up only on a lock that has an owner.     *)
LockTimeoutIfOwned(c) ==
    /\ At(c, "waiting")
    /\ lock \in Controllers
    /\ Return(c)
    /\ UNCHANGED <<files, lock, leasing, seen, alive>>

(* The deadline passes while the lock is held, foreign or orphaned.        *)
LockTimeout(c) ==
    /\ At(c, "waiting")
    /\ lock # None
    /\ Return(c)
    /\ UNCHANGED <<files, lock, leasing, seen, alive>>

ReleaseLock(c) ==
    /\ At(c, "release")
    /\ lock' = None
    /\ Return(c)
    /\ UNCHANGED <<files, leasing, seen, alive>>
----------------------------------------------------------------------------
(* _recover_locked, with which transition() and recover() both begin.      *)

AfterRecovery(c) == IF goal[c] = "recover" THEN "release" ELSE "validate"

(* Faulty variant: recovery trims the log and ignores a prepared intent.   *)
TrimTailOnly(c) ==
    /\ At(c, "trim")
    /\ ending' = IF ending = "fragment" THEN "clean" ELSE ending
    /\ Goto(c, AfterRecovery(c))
    /\ UNCHANGED <<run, tasks, log, intent, lock, leasing, goal, rolling, seen, alive>>

(* recover_partial_tail: an unterminated tail that is not a JSON document  *)
(* is cut off; one that is a whole document is left as it is.              *)
TrimTail(c) ==
    /\ At(c, "trim")
    /\ ending' = IF ending = "fragment" THEN "clean" ELSE ending
    /\ Goto(c, "inspect")
    /\ UNCHANGED <<run, tasks, log, intent, lock, leasing, goal, rolling, seen, alive>>

(* Faulty variant: an intent whose RUN.json has been written counts as     *)
(* done.                                                                   *)
InspectIntentTrustingRun(c) ==
    /\ At(c, "inspect")
    /\ rolling' = [rolling EXCEPT ![c] = intent # None /\ run.rev = intent.base]
    /\ intent' = IF intent # None /\ run.rev = intent.base THEN intent ELSE None
    /\ Goto(c, IF intent' = None THEN AfterRecovery(c) ELSE "writeRun")
    /\ UNCHANGED <<run, tasks, log, ending, lock, leasing, goal, seen, alive>>

InspectIntent(c) ==
    /\ At(c, "inspect")
    /\ rolling' = [rolling EXCEPT ![c] = intent # None]
    /\ Goto(c, IF intent = None THEN AfterRecovery(c)
               ELSE IF run.rev \in {intent.base, intent.next} THEN "writeRun"
               ELSE "release")
    /\ UNCHANGED <<files, lock, leasing, goal, seen, alive>>
----------------------------------------------------------------------------
(* apply_prepared_snapshot, _finalize_intent and verify: the same steps    *)
(* for the author of an intent and for whoever rolls it forward.           *)

WriteRun(c) ==
    /\ At(c, "writeRun")
    /\ run' = intent.run
    /\ Goto(c, "writeTasks")
    /\ UNCHANGED <<tasks, log, ending, intent, lock, leasing, goal, rolling, seen, alive>>

WriteTasks(c) ==
    /\ At(c, "writeTasks")
    /\ tasks' = intent.tasks
    /\ Goto(c, "append")
    /\ UNCHANGED <<run, log, ending, intent, lock, leasing, goal, rolling, seen, alive>>

(* An event with this sequence number is in the log already.               *)
AlreadyLogged == intent.event.seq <= Len(log)
(* append_event accepts the event: it is the next one of a readable log.   *)
Appendable == Readable /\ intent.event.seq = Len(log) + 1

(* The event is there already, or another one, or the log is unreadable.   *)
SkipAppend(c) ==
    /\ At(c, "append")
    /\ ~Appendable
    /\ Goto(c, IF Readable /\ AlreadyLogged /\ log[intent.event.seq] = intent.event
               THEN "finalize" ELSE "release")
    /\ UNCHANGED <<files, lock, leasing, goal, rolling, seen, alive>>

(* The event and its newline are written.  After a tail without a newline  *)
(* they share its line, which is then no JSON document any more.           *)
AppendEvent(c) ==
    /\ At(c, "append")
    /\ Appendable
    /\ log' = Append(log, intent.event)
    /\ ending' = IF ending = "clean" THEN "clean" ELSE "garbled"
    /\ Goto(c, "finalize")
    /\ UNCHANGED <<run, tasks, intent, lock, leasing, goal, rolling, seen, alive>>

(* Only a prefix of the line reaches the disk: what the log becomes.       *)
TornAppend ==
    /\ Appendable
    /\ IF ending = "clean"
       THEN \/ ending' = "fragment" /\ log' = log
            \/ /\ MaySplitNewline
               /\ ending' = "unterminated"
               /\ log' = Append(log, intent.event)
       ELSE \* the torn line swallows the unterminated event before it
            /\ ending' = "fragment"
            /\ log' = SubSeq(log, 1, Len(log) - 1)
    /\ UNCHANGED <<run, tasks, intent>>

(* TRANSACTION.committed.json is written, which no code reads, and the     *)
(* intent is unlinked.                                                     *)
FinalizeIntent(c) ==
    /\ At(c, "finalize")
    /\ intent' = None
    /\ Goto(c, "verify")
    /\ UNCHANGED <<run, tasks, log, ending, lock, leasing, goal, rolling, seen, alive>>

Verified ==
    /\ run.rev = tasks.rev
    /\ Readable
    /\ log # << >> /\ log[Len(log)].rev = run.rev

(* After verify() a recovery goes on to the operation itself; a transition *)
(* returns the new revision to its caller.                                 *)
Verify(c) ==
    /\ At(c, "verify")
    /\ Goto(c, IF Verified /\ rolling[c] THEN AfterRecovery(c) ELSE "release")
    /\ rolling' = [rolling EXCEPT ![c] = FALSE]
    /\ seen' = [seen EXCEPT ![c] = IF Verified /\ ~rolling[c] THEN run.rev ELSE @]
    /\ UNCHANGED <<files, lock, leasing, goal, alive>>
----------------------------------------------------------------------------
(* The operation's own part of transition().                               *)

(* validate_controller: the lease exists, can be read, names c, is valid.  *)
ValidateController(c) ==
    /\ At(c, "validate")
    /\ Goto(c, IF lease = c /\ ~expired THEN "build" ELSE "release")
    /\ UNCHANGED <<files, lock, leasing, goal, rolling, seen, alive>>

(* Faulty variant: the event omits the task updates.                       *)
IntentOfWithoutTasks(c, status, list) ==
    [base  |-> run.rev,
     next  |-> run.rev + 1,
     run   |-> [rev |-> run.rev + 1, by |-> c,
                status |-> IF status = None THEN run.status ELSE status],
     tasks |-> [rev |-> run.rev + 1,
                list |-> IF list = None THEN tasks.list ELSE list],
     event |-> [seq |-> Len(log) + 1, rev |-> run.rev + 1, by |-> c,
                status |-> status, list |-> None]]

IntentOf(c, status, list) ==
    [base  |-> run.rev,
     next  |-> run.rev + 1,
     run   |-> [rev |-> run.rev + 1, by |-> c,
                status |-> IF status = None THEN run.status ELSE status],
     tasks |-> [rev |-> run.rev + 1,
                list |-> IF list = None THEN tasks.list ELSE list],
     event |-> [seq |-> Len(log) + 1, rev |-> run.rev + 1, by |-> c,
                status |-> status, list |-> list]]

(* Faulty variant: expected_revision is not compared.                      *)
PrepareIntentUnchecked(c) ==
    /\ At(c, "build")
    /\ run.rev = tasks.rev /\ Readable
    /\ \E status \in StatusUpdates, list \in TaskUpdates :
           intent' = IntentOf(c, status, list)
    /\ Goto(c, "writeRun")
    /\ UNCHANGED <<run, tasks, log, ending, lock, leasing, goal, rolling, seen, alive>>

(* _build_intent passes its checks and the intent is on disk.              *)
PrepareIntent(c) ==
    /\ At(c, "build")
    /\ run.rev = tasks.rev /\ Readable
    /\ seen[c] = run.rev
    /\ \E status \in StatusUpdates, list \in TaskUpdates :
           intent' = IntentOf(c, status, list)
    /\ Goto(c, "writeRun")
    /\ UNCHANGED <<run, tasks, log, ending, lock, leasing, goal, rolling, seen, alive>>

(* RevisionConflict, or StateCorruption.                                   *)
RefuseIntent(c) ==
    /\ At(c, "build")
    /\ ~(run.rev = tasks.rev /\ Readable /\ seen[c] = run.rev)
    /\ Goto(c, "release")
    /\ UNCHANGED <<files, lock, leasing, goal, rolling, seen, alive>>
----------------------------------------------------------------------------
(* The controller lease.  Each operation runs under the lease guard.       *)

(* Faulty variant: expiry alone frees a lease.                             *)
ClaimableOnExpiry(c) ==
    \/ lease = None
    \/ lease \in Controllers /\ expired

(* _clear_expired finds no lease, or removes one that has expired and      *)
(* whose owner is known to be dead.                                        *)
Claimable(c) ==
    \/ lease = None
    \/ lease \in Controllers /\ expired /\ KnownDead(c, lease)

Claim(c) ==
    /\ At(c, "idle")
    /\ Claimable(c)
    /\ lease' = c
    /\ expired' = FALSE
    /\ UNCHANGED <<files, lock, control, alive>>

(* The heartbeat thread: it may revive a lease that has already expired.   *)
Heartbeat(c) ==
    /\ Running(c)
    /\ lease = c
    /\ expired' = FALSE
    /\ UNCHANGED <<files, lock, lease, control, alive>>

ReleaseLease(c) ==
    /\ At(c, "idle")
    /\ lease = c
    /\ lease' = None
    /\ expired' = FALSE
    /\ UNCHANGED <<files, lock, control, alive>>

LeaseExpires ==
    /\ lease \in Controllers
    /\ ~expired
    /\ expired' = TRUE
    /\ UNCHANGED <<files, lock, lease, control, alive>>
----------------------------------------------------------------------------
(* Failures.                                                               *)

(* A read or write raises inside the lock; the finally clause releases it. *)
WriteFails(c) ==
    /\ Running(c)
    /\ pc[c] \in Critical \ {"release"}
    /\ \/ UNCHANGED files
       \/ pc[c] = "append" /\ TornAppend
    /\ Goto(c, "release")
    /\ UNCHANGED <<lock, leasing, goal, rolling, seen, alive>>

(* mkdir raises, or OWNER.json cannot be written into the directory it     *)
(* made; or, on the way out, OWNER.json or the directory cannot be         *)
(* removed.  The operation ends with that error, and its process lives on. *)
LockFails(c) ==
    /\ \/ At(c, "waiting") /\ lock = None /\ lock' \in {None, Orphan}
       \/ At(c, "release") /\ lock' \in {lock, Orphan}
    /\ Return(c)
    /\ UNCHANGED <<files, leasing, seen, alive>>

(* What dying at its present step may leave half done: a torn append, a    *)
(* lock directory without its owner file (on the way in, or out), a lease  *)
(* file created but not written, or the expired lease removed and no more. *)
HalfDone(c) ==
    \/ UNCHANGED <<files, lock, leasing>>
    \/ /\ pc[c] = "append" /\ TornAppend
       /\ UNCHANGED <<lock, leasing>>
    \/ /\ (pc[c] = "waiting" /\ lock = None) \/ pc[c] = "release"
       /\ lock' = Orphan
       /\ UNCHANGED <<files, leasing>>
    \/ /\ pc[c] = "idle" /\ Claimable(c)
       /\ lease' \in {None, Torn}
       /\ expired' = FALSE
       /\ UNCHANGED <<files, lock>>

(* The process of c dies, and with it every controller it runs.            *)
Crash(c) ==
    /\ Running(c)
    /\ HalfDone(c)
    /\ alive' = alive \ {ProcessOf[c]}
    /\ Ended({d \in Controllers : ProcessOf[d] = ProcessOf[c]})
    /\ UNCHANGED seen
----------------------------------------------------------------------------
(* The steps of an operation that has been begun.                          *)
Step(c) ==
    \/ AcquireLock(c) \/ RecoverStaleLock(c) \/ LockTimeout(c) \/ ReleaseLock(c)
    \/ TrimTail(c) \/ InspectIntent(c)
    \/ WriteRun(c) \/ WriteTasks(c)
    \/ SkipAppend(c) \/ AppendEvent(c)
    \/ FinalizeIntent(c) \/ Verify(c)
    \/ ValidateController(c) \/ PrepareIntent(c) \/ RefuseIntent(c)

Next ==
    \/ \E c \in Controllers :
           \/ Observe(c) \/ Begin(c) \/ Step(c)
           \/ Claim(c) \/ Heartbeat(c) \/ ReleaseLease(c)
           \/ WriteFails(c) \/ LockFails(c) \/ Crash(c)
    \/ LeaseExpires

Spec == Init /\ [][Next]_vars

(* A process that lives gets to run, and the lock's deadline passes.       *)
FairSpec == Spec /\ \A c \in Controllers : WF_vars(Step(c))
----------------------------------------------------------------------------
TypeOK ==
    /\ run \in RunSnapshots
    /\ tasks \in TaskSnapshots
    /\ log \in Seq(Events)
    /\ ending \in {"clean", "fragment", "unterminated", "garbled"}
    /\ intent \in Intents \cup {None}
    /\ lock \in Controllers \cup {None, Orphan}
    /\ lease \in Controllers \cup {None, Torn}
    /\ expired \in BOOLEAN
    /\ pc \in [Controllers -> Critical \cup {"idle", "waiting"}]
    /\ goal \in [Controllers -> {"transition", "recover", None}]
    /\ rolling \in [Controllers -> BOOLEAN]
    /\ seen \in [Controllers -> Revisions]
    /\ alive \subseteq Processes

(* Whatever instant a process dies or a write fails, the files are in a    *)
(* state that _recover_locked completes: either nothing is prepared and    *)
(* the snapshots and the log agree, or the intent on disk is related to    *)
(* both snapshots and its event is the log's last or its next one.         *)
CrashConsistent ==
    \/ /\ intent = None
       /\ run.rev = tasks.rev /\ log[Len(log)].rev = run.rev
       /\ ending = "clean"
    \/ /\ intent # None
       /\ {run.rev, tasks.rev} \subseteq {intent.base, intent.next}
       /\ \/ intent.event.seq = Len(log) + 1 /\ ending \in {"clean", "fragment"}
          \/ AlreadyLogged /\ log[Len(log)] = intent.event /\ ending = "clean"

(* While a live controller is between its lease check and the end of its   *)
(* transition, the lease stays its own: expiry alone lets nobody else in,  *)
(* because a lease is taken over only from a process known to be dead.     *)
WriterHoldsLease ==
    \A c \in Controllers :
        /\ Running(c)
        /\ \/ pc[c] = "build"
           \/ /\ pc[c] \in {"writeRun", "writeTasks", "append", "finalize", "verify"}
              /\ ~rolling[c]
        => lease = c

(* The snapshots are what a repair would compute: replaying the events'    *)
(* updates, the last one of each field winning, gives RUN.json and         *)
(* TASKS.json, so that the two representations never drift apart.  A field *)
(* no event updated is that of the base, as created.                       *)
LastUpdate(field) ==
    LET updated == {i \in 1 .. Len(log) : log[i][field] # None}
    IN  IF updated = {} THEN None
        ELSE log[CHOOSE i \in updated : \A j \in updated : j <= i][field]
(* Faulty variant: the replay forgets the controller.                      *)
ReplayedRunAnonymous ==
    [rev |-> log[Len(log)].rev, by |-> None, status |-> LastUpdate("status")]

ReplayedRun ==
    LET last == log[Len(log)]
    IN  [rev |-> last.rev, by |-> last.by, status |-> LastUpdate("status")]
ReplayedTasks == [rev |-> log[Len(log)].rev, list |-> LastUpdate("list")]
SnapshotsReplayLog ==
    intent = None => run = ReplayedRun /\ tasks = ReplayedTasks

(* The log can be read after any crash, once recovery has cut a partial    *)
(* tail: no line of it ever holds anything but one event.                  *)
LogStaysReadable == ending # "garbled"

(* A prepared transition leaves the disk only once its event is in the     *)
(* log: no crash, failed write, rival or recovery drops or replaces it.    *)
PreparedNeverDropped ==
    [][intent # None /\ intent' # intent =>
          \E i \in 1 .. Len(log') : log'[i] = intent.event]_vars

(* The history the store implements: one entry per revision of RUN.json,   *)
(* the newest still only in the intent while its event is not in the log.  *)
EntryOf(event) ==
    [by |-> event.by, change |-> <<event.status, event.list>>]
History ==
    [i \in 1 .. run.rev |->
        EntryOf(IF i < Len(log) THEN log[i + 1] ELSE intent.event)]
Abstract == INSTANCE RunHistory WITH
    history <- History,
    Changes <- StatusUpdates \X TaskUpdates

(* The store implements RunHistory: writing RUN.json is the one step that  *)
(* commits, whether the author or a later recovery takes it; a revision    *)
(* that anyone has read is never rolled back; and a transition takes       *)
(* effect only on the revision its author had read.                        *)
ImplementsHistory == Abstract!Spec

(* Every operation ends, by success or by an error, even after crashes     *)
(* have left the lock foreign or orphaned.                                 *)
OperationsEnd ==
    \A c \in Controllers : pc[c] # "idle" ~> pc[c] = "idle"
=============================================================================
