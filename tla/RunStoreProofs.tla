--------------------------- MODULE RunStoreProofs ---------------------------
(***************************************************************************)
(* Theorems about RunStore, for every set of controllers, processes,       *)
(* machines and updates, every placement and every bound on revisions.     *)
(***************************************************************************)
EXTENDS RunMaintenance, SequenceTheorems, WellFoundedInduction, TLAPS

(* The types of the store's files and of its controllers, which may also  *)
(* be at a step of the operator's commands: the invariants below hold of   *)
(* RunStore alone and of RunMaintenance.                                   *)
Outside == {"idle", "waiting"}
Goals == {"transition", "recover", "repair", "migrate", None}
StoreTyped ==
    /\ run \in RunSnapshots
    /\ tasks \in TaskSnapshots
    /\ log \in Seq(Events)
    /\ ending \in {"clean", "fragment", "unterminated", "garbled"}
    /\ intent \in Intents \cup {None}
    /\ lock \in Controllers \cup {None, Orphan}
    /\ lease \in Controllers \cup {None, Torn}
    /\ expired \in BOOLEAN
    /\ pc \in [Controllers -> Critical \cup MaintenanceSteps \cup Outside]
    /\ goal \in [Controllers -> Goals]
    /\ rolling \in [Controllers -> BOOLEAN]
    /\ seen \in [Controllers -> Revisions]
    /\ alive \subseteq Processes

(* Only the lock's owner is inside the lock.                               *)
OneWriter ==
    \A c \in Controllers : Running(c) /\ pc[c] \notin Outside => lock = c

(* The steps that apply an intent find one on disk.  This needs OneWriter: *)
(* a rival inside the lock could have finalized it.                        *)
Applying == {"writeRun", "writeTasks", "append", "finalize"}
IntentPresent ==
    \A c \in Controllers : Running(c) /\ pc[c] \in Applying => intent # None

LockedInv == StoreTyped /\ OneWriter /\ IntentPresent

USE DEF Critical, MaintenanceSteps, Outside, Goals, Applying, Running, Revisions,
        Authors, StatusUpdates, TaskUpdates
----------------------------------------------------------------------------
LEMMA LockedInit == Init => LockedInv
<1> SUFFICES ASSUME Init PROVE LockedInv
  OBVIOUS
<1> USE NullAssumption DEF Init
<1>1. <<Created>> \in Seq(Events)
  <2>1. Created \in Events
    BY DEF Created, Events
  <2> QED
    BY <2>1
<1>2. StoreTyped
  BY <1>1 DEF StoreTyped, RunSnapshots, TaskSnapshots
<1>3. OneWriter /\ IntentPresent
  BY DEF OneWriter, IntentPresent
<1> QED
  BY <1>2, <1>3 DEF LockedInv

(* A torn append leaves a log of whole events.                             *)
LEMMA TornLogTyped ==
  ASSUME StoreTyped, intent \in Intents, TornAppend
  PROVE  /\ log' \in Seq(Events)
         /\ ending' \in {"clean", "fragment", "unterminated", "garbled"}
<1>1. intent.event \in Events
  BY DEF Intents
<1>2. CASE ending = "clean"
  <2>1. \/ ending' = "fragment" /\ log' = log
        \/ ending' = "unterminated" /\ log' = Append(log, intent.event)
    BY <1>2 DEF TornAppend
  <2>2. Append(log, intent.event) \in Seq(Events)
    BY <1>1 DEF StoreTyped
  <2> QED
    BY <2>1, <2>2 DEF StoreTyped
<1>3. CASE ending # "clean"
  <2>1. log' = SubSeq(log, 1, Len(log) - 1) /\ ending' = "fragment"
    BY <1>3 DEF TornAppend
  <2>2. log \in Seq(Events) /\ Len(log) \in Nat
    BY DEF StoreTyped
  <2>3. \A i \in 1 .. Len(log) - 1 : log[i] \in Events
    BY <2>2
  <2>4. SubSeq(log, 1, Len(log) - 1) \in Seq(Events)
    BY <2>2, <2>3, SubSeqProperties
  <2> QED
    BY <2>1, <2>4
<1> QED
  BY <1>2, <1>3

(* What a controller prepares is a well-formed intent.                     *)
LEMMA IntentTyped ==
  ASSUME StoreTyped, NEW c \in Controllers,
         NEW status \in StatusUpdates, NEW list \in TaskUpdates
  PROVE  IntentOf(c, status, list) \in Intents
<1>1. run.rev + 1 \in Nat /\ Len(log) + 1 \in Nat \ {0}
  BY DEF StoreTyped, RunSnapshots
<1>2. /\ run.status \in StatusUpdates
      /\ tasks.list \in TaskUpdates
  BY DEF StoreTyped, RunSnapshots, TaskSnapshots
<1> QED
  BY <1>1, <1>2 DEF IntentOf, Intents, Events, RunSnapshots, TaskSnapshots,
                   StoreTyped
----------------------------------------------------------------------------
LEMMA LockedStep ==
  ASSUME LockedInv, [Next]_vars
  PROVE  LockedInv'
<1> USE NullAssumption, PlacementAssumption
    DEF LockedInv, OneWriter, IntentPresent, At, Goto, files, leasing, control
<1>1. ASSUME NEW c \in Controllers, Observe(c) PROVE LockedInv'
  BY <1>1 DEF Observe, StoreTyped, RunSnapshots
<1>2. ASSUME NEW c \in Controllers, Begin(c) PROVE LockedInv'
  <2>1. PICK g \in {"transition", "recover"} : goal' = [goal EXCEPT ![c] = g]
    BY <1>2 DEF Begin
  <2> QED
    BY <1>2, <2>1 DEF Begin, StoreTyped
<1>3. ASSUME NEW c \in Controllers, AcquireLock(c) PROVE LockedInv'
  BY <1>3 DEF AcquireLock, StoreTyped
<1>4. ASSUME NEW c \in Controllers, RecoverStaleLock(c) PROVE LockedInv'
  BY <1>4 DEF RecoverStaleLock, StoreTyped, KnownDead
<1>5. ASSUME NEW c \in Controllers, LockTimeout(c) PROVE LockedInv'
  BY <1>5 DEF LockTimeout, StoreTyped, Return, Ended
<1>6. ASSUME NEW c \in Controllers, ReleaseLock(c) PROVE LockedInv'
  BY <1>6 DEF ReleaseLock, StoreTyped, Return, Ended
<1>7. ASSUME NEW c \in Controllers, TrimTail(c) PROVE LockedInv'
  BY <1>7 DEF TrimTail, StoreTyped
<1>8. ASSUME NEW c \in Controllers, InspectIntent(c) PROVE LockedInv'
  BY <1>8 DEF InspectIntent, StoreTyped, AfterRecovery
<1>9. ASSUME NEW c \in Controllers, WriteRun(c) PROVE LockedInv'
  <2>1. intent.run \in RunSnapshots
    BY <1>9 DEF WriteRun, StoreTyped, Intents
  <2> QED
    BY <1>9, <2>1 DEF WriteRun, StoreTyped
<1>10. ASSUME NEW c \in Controllers, WriteTasks(c) PROVE LockedInv'
  <2>1. intent.tasks \in TaskSnapshots
    BY <1>10 DEF WriteTasks, StoreTyped, Intents
  <2> QED
    BY <1>10, <2>1 DEF WriteTasks, StoreTyped
<1>11. ASSUME NEW c \in Controllers, SkipAppend(c) PROVE LockedInv'
  BY <1>11 DEF SkipAppend, StoreTyped
<1>12. ASSUME NEW c \in Controllers, AppendEvent(c) PROVE LockedInv'
  <2>1. intent.event \in Events
    BY <1>12 DEF AppendEvent, StoreTyped, Intents
  <2>2. log' \in Seq(Events) /\ ending' \in {"clean", "garbled"}
    BY <1>12, <2>1 DEF AppendEvent, StoreTyped
  <2> QED
    BY <1>12, <2>2 DEF AppendEvent, StoreTyped
<1>13. ASSUME NEW c \in Controllers, FinalizeIntent(c) PROVE LockedInv'
  BY <1>13 DEF FinalizeIntent, StoreTyped
<1>14. ASSUME NEW c \in Controllers, Verify(c) PROVE LockedInv'
  <2>1. run.rev \in Revisions
    BY DEF StoreTyped, RunSnapshots
  <2>2. StoreTyped'
    BY <1>14, <2>1 DEF Verify, StoreTyped, AfterRecovery
  <2>3. OneWriter' /\ IntentPresent'
    BY <1>14 DEF Verify, StoreTyped, AfterRecovery
  <2> QED
    BY <2>2, <2>3
<1>15. ASSUME NEW c \in Controllers, ValidateController(c) PROVE LockedInv'
  BY <1>15 DEF ValidateController, StoreTyped
<1>16. ASSUME NEW c \in Controllers, PrepareIntent(c) PROVE LockedInv'
  <2>1. intent' \in Intents
    BY <1>16, IntentTyped DEF PrepareIntent
  <2>2. intent' # None
    BY <2>1
  <2> QED
    BY <1>16, <2>1, <2>2 DEF PrepareIntent, StoreTyped
<1>17. ASSUME NEW c \in Controllers, RefuseIntent(c) PROVE LockedInv'
  BY <1>17 DEF RefuseIntent, StoreTyped
<1>18. ASSUME NEW c \in Controllers, Claim(c) PROVE LockedInv'
  BY <1>18 DEF Claim, StoreTyped
<1>19. ASSUME NEW c \in Controllers, Heartbeat(c) PROVE LockedInv'
  BY <1>19 DEF Heartbeat, StoreTyped
<1>20. ASSUME NEW c \in Controllers, ReleaseLease(c) PROVE LockedInv'
  BY <1>20 DEF ReleaseLease, StoreTyped
<1>21. ASSUME LeaseExpires PROVE LockedInv'
  BY <1>21 DEF LeaseExpires, StoreTyped
<1>22. ASSUME NEW c \in Controllers, WriteFails(c) PROVE LockedInv'
  <2>1. CASE UNCHANGED files
    BY <1>22, <2>1 DEF WriteFails, StoreTyped
  <2>2. CASE pc[c] = "append" /\ TornAppend
    <3>1. intent \in Intents
      BY <1>22, <2>2 DEF WriteFails, StoreTyped
    <3>2. /\ log' \in Seq(Events)
          /\ ending' \in {"clean", "fragment", "unterminated", "garbled"}
      BY <2>2, <3>1, TornLogTyped
    <3>3. UNCHANGED <<run, tasks, intent>>
      BY <2>2 DEF TornAppend
    <3> QED
      BY <1>22, <3>2, <3>3 DEF WriteFails, StoreTyped
  <2> QED
    BY <1>22, <2>1, <2>2 DEF WriteFails
<1>23. ASSUME NEW c \in Controllers, Crash(c) PROVE LockedInv'
  <2>1. \A d \in Controllers :
            Running(d)' => /\ Running(d) /\ ProcessOf[d] # ProcessOf[c]
                           /\ pc'[d] = pc[d]
    BY <1>23 DEF Crash, Ended
  <2>2. /\ pc' \in [Controllers -> Critical \cup MaintenanceSteps \cup Outside]
        /\ goal' \in [Controllers -> Goals]
        /\ rolling' \in [Controllers -> BOOLEAN]
        /\ seen' \in [Controllers -> Revisions]
        /\ alive' \subseteq Processes
    BY <1>23 DEF Crash, Ended, StoreTyped
  <2>3. CASE UNCHANGED <<files, lock, leasing>>
    BY <1>23, <2>1, <2>2, <2>3 DEF StoreTyped
  <2>4. CASE pc[c] = "append" /\ TornAppend /\ UNCHANGED <<lock, leasing>>
    <3>1. intent \in Intents
      BY <1>23, <2>4 DEF Crash, StoreTyped
    <3>2. /\ log' \in Seq(Events)
          /\ ending' \in {"clean", "fragment", "unterminated", "garbled"}
      BY <2>4, <3>1, TornLogTyped
    <3>3. UNCHANGED <<run, tasks, intent>>
      BY <2>4 DEF TornAppend
    <3> QED
      BY <2>1, <2>2, <2>4, <3>2, <3>3 DEF StoreTyped
  <2>5. CASE /\ (pc[c] = "waiting" /\ lock = None) \/ pc[c] = "release"
             /\ lock' = Orphan /\ UNCHANGED <<files, leasing>>
    <3>1. \A d \in Controllers : Running(d)' => pc'[d] \in Outside
      BY <1>23, <2>1, <2>5 DEF Crash
    <3> QED
      BY <2>2, <2>5, <3>1 DEF StoreTyped
  <2>6. CASE lease' \in {None, Torn} /\ expired' = FALSE /\ UNCHANGED <<files, lock>>
    BY <2>1, <2>2, <2>6 DEF StoreTyped
  <2> QED
    BY <1>23, <2>3, <2>4, <2>5, <2>6 DEF Crash, HalfDone
<1>24. ASSUME UNCHANGED vars PROVE LockedInv'
  BY <1>24 DEF vars, StoreTyped
<1>25. ASSUME NEW c \in Controllers, LockFails(c) PROVE LockedInv'
  BY <1>25 DEF LockFails, StoreTyped, Return, Ended
<1> QED
  BY <1>25, <1>1, <1>2, <1>3, <1>4, <1>5, <1>6, <1>7, <1>8, <1>9, <1>10, <1>11, <1>12, <1>13, <1>14, <1>15, <1>16, <1>17, <1>18, <1>19, <1>20, <1>21, <1>22, <1>23, <1>24 DEF Next, Step

(* Without the operator's commands nobody is at one of their steps.        *)
OwnSteps ==
    /\ pc \in [Controllers -> Critical \cup Outside]
    /\ goal \in [Controllers -> {"transition", "recover", None}]

LEMMA OwnStepsKept ==
  ASSUME OwnSteps, [Next]_vars PROVE OwnSteps'
<1> USE DEF OwnSteps, At, Goto, Return, Ended, control
<1>1. ASSUME NEW c \in Controllers, Observe(c) \/ Begin(c) PROVE OwnSteps'
  BY <1>1 DEF Observe, Begin
<1>2. ASSUME NEW c \in Controllers, Step(c) PROVE OwnSteps'
  <2>1. CASE AcquireLock(c) \/ RecoverStaleLock(c) \/ LockTimeout(c) \/ ReleaseLock(c)
    BY <2>1 DEF AcquireLock, RecoverStaleLock, LockTimeout, ReleaseLock
  <2>2. CASE TrimTail(c) \/ InspectIntent(c)
    BY <2>2 DEF TrimTail, InspectIntent, AfterRecovery
  <2>3. CASE WriteRun(c) \/ WriteTasks(c) \/ SkipAppend(c) \/ AppendEvent(c)
    BY <2>3 DEF WriteRun, WriteTasks, SkipAppend, AppendEvent
  <2>4. CASE FinalizeIntent(c) \/ Verify(c)
    BY <2>4 DEF FinalizeIntent, Verify, AfterRecovery
  <2>5. CASE ValidateController(c) \/ PrepareIntent(c) \/ RefuseIntent(c)
    BY <2>5 DEF ValidateController, PrepareIntent, RefuseIntent
  <2> QED
    BY <1>2, <2>1, <2>2, <2>3, <2>4, <2>5 DEF Step
<1>3. ASSUME NEW c \in Controllers, Claim(c) \/ Heartbeat(c) \/ ReleaseLease(c)
      PROVE  OwnSteps'
  BY <1>3 DEF Claim, Heartbeat, ReleaseLease
<1>4. ASSUME NEW c \in Controllers, WriteFails(c) \/ LockFails(c) \/ Crash(c)
      PROVE  OwnSteps'
  BY <1>4 DEF WriteFails, LockFails, Crash
<1>5. ASSUME LeaseExpires \/ UNCHANGED vars PROVE OwnSteps'
  BY <1>5 DEF LeaseExpires, vars
<1> QED
  BY <1>1, <1>2, <1>3, <1>4, <1>5 DEF Next

LEMMA StoreAlwaysTyped == Spec => []StoreTyped
<1>1. LockedInv /\ [Next]_vars => LockedInv'
  BY LockedStep
<1>2. LockedInv => StoreTyped
  BY DEF LockedInv
<1> QED
  BY LockedInit, <1>1, <1>2, PTL DEF Spec

(* Every state of the store is well typed, whatever fails: state/store.py. *)
THEOREM TypeCorrect == Spec => []TypeOK
<1>1. Init => OwnSteps
  BY DEF Init, OwnSteps
<1>2. OwnSteps /\ [Next]_vars => OwnSteps'
  BY OwnStepsKept
<1>3. StoreTyped /\ OwnSteps => TypeOK
  BY DEF StoreTyped, OwnSteps, TypeOK
<1> QED
  BY <1>1, <1>2, <1>3, StoreAlwaysTyped, PTL DEF Spec
----------------------------------------------------------------------------
(* WriterHoldsLease is inductive beside the typing of pc and rolling.      *)
LEMMA LeaseStep ==
  ASSUME StoreTyped, WriterHoldsLease, [Next]_vars
  PROVE  WriterHoldsLease'
<1> USE NullAssumption, PlacementAssumption
    DEF WriterHoldsLease, At, Goto, files, leasing, control, StoreTyped
<1>1. ASSUME NEW c \in Controllers, Observe(c) PROVE WriterHoldsLease'
  BY <1>1 DEF Observe
<1>2. ASSUME NEW c \in Controllers, Begin(c) PROVE WriterHoldsLease'
  BY <1>2 DEF Begin
<1>3. ASSUME NEW c \in Controllers, AcquireLock(c) PROVE WriterHoldsLease'
  BY <1>3 DEF AcquireLock
<1>4. ASSUME NEW c \in Controllers, RecoverStaleLock(c) PROVE WriterHoldsLease'
  BY <1>4 DEF RecoverStaleLock
<1>5. ASSUME NEW c \in Controllers, LockTimeout(c) PROVE WriterHoldsLease'
  BY <1>5 DEF LockTimeout, Return, Ended
<1>6. ASSUME NEW c \in Controllers, ReleaseLock(c) PROVE WriterHoldsLease'
  BY <1>6 DEF ReleaseLock, Return, Ended
<1>7. ASSUME NEW c \in Controllers, TrimTail(c) PROVE WriterHoldsLease'
  BY <1>7 DEF TrimTail
<1>8. ASSUME NEW c \in Controllers, InspectIntent(c) PROVE WriterHoldsLease'
  BY <1>8 DEF InspectIntent, AfterRecovery
<1>9. ASSUME NEW c \in Controllers, WriteRun(c) PROVE WriterHoldsLease'
  BY <1>9 DEF WriteRun
<1>10. ASSUME NEW c \in Controllers, WriteTasks(c) PROVE WriterHoldsLease'
  BY <1>10 DEF WriteTasks
<1>11. ASSUME NEW c \in Controllers, SkipAppend(c) PROVE WriterHoldsLease'
  BY <1>11 DEF SkipAppend
<1>12. ASSUME NEW c \in Controllers, AppendEvent(c) PROVE WriterHoldsLease'
  BY <1>12 DEF AppendEvent
<1>13. ASSUME NEW c \in Controllers, FinalizeIntent(c) PROVE WriterHoldsLease'
  BY <1>13 DEF FinalizeIntent
<1>14. ASSUME NEW c \in Controllers, Verify(c) PROVE WriterHoldsLease'
  BY <1>14 DEF Verify, AfterRecovery
<1>15. ASSUME NEW c \in Controllers, ValidateController(c) PROVE WriterHoldsLease'
  BY <1>15 DEF ValidateController
<1>16. ASSUME NEW c \in Controllers, PrepareIntent(c) PROVE WriterHoldsLease'
  BY <1>16 DEF PrepareIntent
<1>17. ASSUME NEW c \in Controllers, RefuseIntent(c) PROVE WriterHoldsLease'
  BY <1>17 DEF RefuseIntent
<1>18. ASSUME NEW c \in Controllers, Claim(c) PROVE WriterHoldsLease'
  BY <1>18 DEF Claim, Claimable, KnownDead
<1>19. ASSUME NEW c \in Controllers, Heartbeat(c) PROVE WriterHoldsLease'
  BY <1>19 DEF Heartbeat
<1>20. ASSUME NEW c \in Controllers, ReleaseLease(c) PROVE WriterHoldsLease'
  BY <1>20 DEF ReleaseLease
<1>21. ASSUME NEW c \in Controllers, WriteFails(c) PROVE WriterHoldsLease'
  BY <1>21 DEF WriteFails
<1>22. ASSUME NEW c \in Controllers, Crash(c) PROVE WriterHoldsLease'
  BY <1>22 DEF Crash, HalfDone, Claimable, KnownDead, Ended
<1>23. ASSUME LeaseExpires PROVE WriterHoldsLease'
  BY <1>23 DEF LeaseExpires
<1>24. ASSUME UNCHANGED vars PROVE WriterHoldsLease'
  BY <1>24 DEF vars
<1>25. ASSUME NEW c \in Controllers, LockFails(c) PROVE WriterHoldsLease'
  BY <1>25 DEF LockFails, Return, Ended
<1> QED
  BY <1>25, <1>1, <1>2, <1>3, <1>4, <1>5, <1>6, <1>7, <1>8, <1>9, <1>10, <1>11, <1>12, <1>13, <1>14, <1>15, <1>16, <1>17, <1>18, <1>19, <1>20, <1>21, <1>22, <1>23, <1>24 DEF Next, Step

(* A controller that has passed its lease check keeps the lease until its  *)
(* transition is over: leases.py lets nobody else in on expiry alone.      *)
THEOREM LeaseProtectsWriter == Spec => []WriterHoldsLease
<1>1. Init => WriterHoldsLease
  BY DEF Init, WriterHoldsLease
<1>2. StoreTyped /\ WriterHoldsLease /\ [Next]_vars => WriterHoldsLease'
  BY LeaseStep
<1> QED
  BY <1>1, <1>2, StoreAlwaysTyped, PTL DEF Spec
----------------------------------------------------------------------------
(* What makes CrashConsistent inductive: an intent on disk is one step     *)
(* ahead of its base in all its parts; whoever is past the trimming finds  *)
(* a log that ends with a newline; and each step of applying an intent     *)
(* finds the files that the earlier steps have written.                    *)
LogShape == log # << >> /\ ending \in {"clean", "fragment"}
IntentShape ==
    intent # None =>
        /\ intent.run.rev = intent.next
        /\ intent.tasks.rev = intent.next
        /\ intent.event.rev = intent.next
Trimmed ==
    \A c \in Controllers :
        Running(c) /\ pc[c] \in Critical \ {"trim", "release"} => ending = "clean"
LoggedLast == AlreadyLogged /\ log[Len(log)] = intent.event
AppliedSoFar ==
    \A c \in Controllers : Running(c) =>
        /\ pc[c] \in {"writeTasks", "append", "finalize"} => run = intent.run
        /\ pc[c] \in {"append", "finalize"} => tasks = intent.tasks
        /\ pc[c] = "finalize" => LoggedLast
        /\ pc[c] \in {"verify", "validate", "build"} => intent = None

ConsistentInv ==
    LogShape /\ IntentShape /\ Trimmed /\ AppliedSoFar /\ CrashConsistent

LEMMA ConsistentInit == Init => ConsistentInv
  BY NullAssumption
  DEF Init, Created, ConsistentInv, LogShape, IntentShape, Trimmed, AppliedSoFar,
      CrashConsistent

LEMMA ConsistentStep ==
  ASSUME MaySplitNewline = FALSE, LockedInv, ConsistentInv, [Next]_vars
  PROVE  ConsistentInv'
<1> USE NullAssumption, PlacementAssumption
    DEF LockedInv, StoreTyped, OneWriter, IntentPresent, ConsistentInv, LogShape,
        IntentShape, Trimmed, AppliedSoFar, LoggedLast, AlreadyLogged,
        CrashConsistent, At, Goto, files, leasing, control
<1>1. ASSUME NEW c \in Controllers, Observe(c) PROVE ConsistentInv'
  BY <1>1 DEF Observe
<1>2. ASSUME NEW c \in Controllers, Begin(c) PROVE ConsistentInv'
  BY <1>2 DEF Begin
<1>3. ASSUME NEW c \in Controllers, AcquireLock(c) PROVE ConsistentInv'
  BY <1>3 DEF AcquireLock
<1>4. ASSUME NEW c \in Controllers, RecoverStaleLock(c) PROVE ConsistentInv'
  BY <1>4 DEF RecoverStaleLock
<1>5. ASSUME NEW c \in Controllers, LockTimeout(c) PROVE ConsistentInv'
  BY <1>5 DEF LockTimeout, Return, Ended
<1>6. ASSUME NEW c \in Controllers, ReleaseLock(c) PROVE ConsistentInv'
  BY <1>6 DEF ReleaseLock, Return, Ended
<1>7. ASSUME NEW c \in Controllers, TrimTail(c) PROVE ConsistentInv'
  BY <1>7 DEF TrimTail
<1>8. ASSUME NEW c \in Controllers, InspectIntent(c) PROVE ConsistentInv'
  BY <1>8 DEF InspectIntent, AfterRecovery
<1>9. ASSUME NEW c \in Controllers, WriteRun(c) PROVE ConsistentInv'
  BY <1>9 DEF WriteRun
<1>10. ASSUME NEW c \in Controllers, WriteTasks(c) PROVE ConsistentInv'
  BY <1>10 DEF WriteTasks
<1>11. ASSUME NEW c \in Controllers, SkipAppend(c) PROVE ConsistentInv'
  BY <1>11 DEF SkipAppend
<1>12. ASSUME NEW c \in Controllers, AppendEvent(c) PROVE ConsistentInv'
  <2>1. /\ \A d \in Controllers :
              Running(d)' => Running(d) /\ (d # c => pc[d] \in Outside /\ pc'[d] = pc[d])
        /\ pc'[c] = "finalize"
    BY <1>12 DEF AppendEvent
  <2>2. /\ intent \in Intents /\ intent # None /\ UNCHANGED <<run, tasks, intent>>
        /\ run = intent.run /\ tasks = intent.tasks /\ ending = "clean"
        /\ log' = Append(log, intent.event) /\ ending' = "clean"
        /\ intent.event.seq = Len(log) + 1
    BY <1>12 DEF AppendEvent, Appendable
  <2>3. /\ log' # << >> /\ Len(log') = Len(log) + 1 /\ log'[Len(log')] = intent.event
        /\ Len(log) \in Nat
    BY <2>2 DEF Intents
  <2>4. AlreadyLogged' /\ log'[Len(log')] = intent'.event
    BY <2>2, <2>3
  <2>5. LogShape' /\ IntentShape'
    BY <2>2, <2>3
  <2>6. Trimmed'
    BY <2>1, <2>2
  <2>7. AppliedSoFar'
    BY <2>1, <2>2, <2>4
  <2>8. CrashConsistent'
    BY <2>2, <2>4
  <2> QED
    BY <2>5, <2>6, <2>7, <2>8
<1>13. ASSUME NEW c \in Controllers, FinalizeIntent(c) PROVE ConsistentInv'
  BY <1>13 DEF FinalizeIntent
<1>14. ASSUME NEW c \in Controllers, Verify(c) PROVE ConsistentInv'
  BY <1>14 DEF Verify, AfterRecovery
<1>15. ASSUME NEW c \in Controllers, ValidateController(c) PROVE ConsistentInv'
  BY <1>15 DEF ValidateController
<1>16. ASSUME NEW c \in Controllers, PrepareIntent(c) PROVE ConsistentInv'
  <2>1. /\ \A d \in Controllers :
              Running(d)' => Running(d) /\ (d # c => pc[d] \in Outside /\ pc'[d] = pc[d])
        /\ pc'[c] = "writeRun"
    BY <1>16 DEF PrepareIntent
  <2>2. PICK status \in StatusUpdates, list \in TaskUpdates :
            intent' = IntentOf(c, status, list)
    BY <1>16 DEF PrepareIntent
  <2>3. /\ intent' \in Intents /\ intent' # None
        /\ intent'.base = run.rev /\ intent'.next = run.rev + 1
        /\ intent'.run.rev = run.rev + 1 /\ intent'.tasks.rev = run.rev + 1
        /\ intent'.event.rev = run.rev + 1 /\ intent'.event.seq = Len(log) + 1
    <3>1. IntentOf(c, status, list) \in Intents
      BY IntentTyped
    <3> QED
      BY <2>2, <3>1 DEF IntentOf
  <2>4. /\ UNCHANGED <<run, tasks, log, ending>> /\ run.rev = tasks.rev
        /\ ending = "clean" /\ log # << >>
    BY <1>16 DEF PrepareIntent
  <2>5. LogShape' /\ IntentShape'
    BY <2>3, <2>4
  <2>6. Trimmed' /\ AppliedSoFar'
    BY <2>1, <2>4
  <2>7. CrashConsistent'
    BY <2>3, <2>4
  <2> QED
    BY <2>5, <2>6, <2>7
<1>17. ASSUME NEW c \in Controllers, RefuseIntent(c) PROVE ConsistentInv'
  BY <1>17 DEF RefuseIntent
<1>18. ASSUME NEW c \in Controllers, Claim(c) PROVE ConsistentInv'
  BY <1>18 DEF Claim
<1>19. ASSUME NEW c \in Controllers, Heartbeat(c) PROVE ConsistentInv'
  BY <1>19 DEF Heartbeat
<1>20. ASSUME NEW c \in Controllers, ReleaseLease(c) PROVE ConsistentInv'
  BY <1>20 DEF ReleaseLease
<1>21. ASSUME NEW c \in Controllers, WriteFails(c) PROVE ConsistentInv'
  BY <1>21 DEF WriteFails, TornAppend, Appendable
<1>22. ASSUME NEW c \in Controllers, Crash(c) PROVE ConsistentInv'
  BY <1>22 DEF Crash, HalfDone, TornAppend, Appendable, Ended
<1>23. ASSUME LeaseExpires PROVE ConsistentInv'
  BY <1>23 DEF LeaseExpires
<1>24. ASSUME UNCHANGED vars PROVE ConsistentInv'
  BY <1>24 DEF vars
<1>25. ASSUME NEW c \in Controllers, LockFails(c) PROVE ConsistentInv'
  BY <1>25 DEF LockFails, Return, Ended
<1> QED
  BY <1>25, <1>1, <1>2, <1>3, <1>4, <1>5, <1>6, <1>7, <1>8, <1>9, <1>10, <1>11, <1>12, <1>13, <1>14, <1>15, <1>16, <1>17, <1>18, <1>19, <1>20, <1>21, <1>22, <1>23, <1>24 DEF Next, Step

(* A crash or a failed write at any step leaves files that the recovery of *)
(* state/store.py completes, as long as no torn append loses exactly the   *)
(* newline of its event.                                                   *)
THEOREM StoreIsCrashConsistent ==
  ASSUME MaySplitNewline = FALSE
  PROVE  Spec => []CrashConsistent
<1>1. Init => LockedInv /\ ConsistentInv
  BY LockedInit, ConsistentInit
<1>2. LockedInv /\ ConsistentInv /\ [Next]_vars => LockedInv' /\ ConsistentInv'
  BY LockedStep, ConsistentStep
<1>3. ConsistentInv => CrashConsistent
  BY DEF ConsistentInv
<1> QED
  BY <1>1, <1>2, <1>3, PTL DEF Spec

(* A prepared transition leaves the disk only once its event is in the     *)
(* log: only _finalize_intent removes an intent, after the append, and a   *)
(* new one is written only where recovery has left none.                   *)
THEOREM PreparedTransitionsSurvive ==
  ASSUME MaySplitNewline = FALSE
  PROVE  Spec => PreparedNeverDropped
<1> DEFINE Logged == \E i \in 1 .. Len(log') : log'[i] = intent.event
<1>1. Init => LockedInv /\ ConsistentInv
  BY LockedInit, ConsistentInit
<1>2. LockedInv /\ ConsistentInv /\ [Next]_vars => LockedInv' /\ ConsistentInv'
  BY LockedStep, ConsistentStep
<1>3. ASSUME LockedInv, ConsistentInv, Next, intent # None, intent' # intent
      PROVE  Logged
  <2>1. PICK c \in Controllers : FinalizeIntent(c) \/ PrepareIntent(c)
    <3> USE <1>3 DEF files
    <3>1. ASSUME NEW d \in Controllers,
                 Observe(d) \/ Begin(d) \/ Claim(d) \/ Heartbeat(d) \/ ReleaseLease(d)
          PROVE  FALSE
      BY <3>1 DEF Observe, Begin, Claim, Heartbeat, ReleaseLease
    <3>2. ASSUME NEW d \in Controllers, WriteFails(d) \/ LockFails(d) \/ Crash(d)
          PROVE  FALSE
      BY <3>2 DEF WriteFails, LockFails, Crash, HalfDone, TornAppend
    <3>3. ASSUME NEW d \in Controllers, Step(d)
          PROVE  FinalizeIntent(d) \/ PrepareIntent(d)
      BY <3>3 DEF Step, AcquireLock, RecoverStaleLock, LockTimeout, ReleaseLock,
                  TrimTail, InspectIntent, WriteRun, WriteTasks, SkipAppend,
                  AppendEvent, Verify, ValidateController, RefuseIntent
    <3> QED
      BY <3>1, <3>2, <3>3 DEF Next, LeaseExpires
  <2>2. Running(c)
    BY <2>1 DEF FinalizeIntent, PrepareIntent, At
  <2>3. CASE FinalizeIntent(c)
    <3>1. log' = log /\ LoggedLast
      BY <1>3, <2>2, <2>3 DEF FinalizeIntent, At, ConsistentInv, AppliedSoFar
    <3>2. Len(log) \in Nat /\ log # << >>
      BY <1>3 DEF LockedInv, StoreTyped, ConsistentInv, LogShape
    <3> QED
      BY <1>3, <3>1, <3>2 DEF LoggedLast, LockedInv, StoreTyped
  <2>4. CASE PrepareIntent(c)
    BY <1>3, <2>2, <2>4 DEF PrepareIntent, At, ConsistentInv, AppliedSoFar
  <2> QED
    BY <2>1, <2>3, <2>4
<1>4. LockedInv /\ ConsistentInv /\ [Next]_vars
        => [intent # None /\ intent' # intent => Logged]_vars
  BY <1>3
<1> QED
  BY <1>1, <1>2, <1>4, PTL DEF Spec, PreparedNeverDropped
----------------------------------------------------------------------------
(* What a step may do to the files, to seen and nothing else that the two  *)
(* theorems below speak of.                                                *)
LEMMA StepEffects ==
  ASSUME MaySplitNewline = FALSE, LockedInv, ConsistentInv, [Next]_vars
  PROVE  \/ UNCHANGED <<run, tasks, log, intent, seen>>
         \/ /\ UNCHANGED <<run, tasks, log, intent>>
            /\ \E c \in Controllers : seen' = [seen EXCEPT ![c] = run.rev]
         \/ \E c \in Controllers :
                \/ WriteRun(c) \/ WriteTasks(c) \/ AppendEvent(c)
                \/ FinalizeIntent(c) \/ PrepareIntent(c)
<1> DEFINE Quiet == UNCHANGED <<run, tasks, log, intent, seen>>
           Looks(c) == /\ UNCHANGED <<run, tasks, log, intent>>
                       /\ seen' = [seen EXCEPT ![c] = run.rev]
           Writes(c) == \/ WriteRun(c) \/ WriteTasks(c) \/ AppendEvent(c)
                        \/ FinalizeIntent(c) \/ PrepareIntent(c)
<1> USE DEF files, leasing, control
<1>1. ASSUME NEW c \in Controllers, Observe(c) PROVE Looks(c)
  BY <1>1 DEF Observe
<1>2. ASSUME NEW c \in Controllers,
             Begin(c) \/ Claim(c) \/ Heartbeat(c) \/ ReleaseLease(c)
      PROVE  Quiet
  BY <1>2 DEF Begin, Claim, Heartbeat, ReleaseLease
<1>3. ASSUME TornAppend PROVE UNCHANGED <<run, tasks, log, intent>>
  <2>1. ending = "clean"
    BY <1>3 DEF TornAppend, Appendable, Readable, ConsistentInv, LogShape
  <2> QED
    BY <1>3, <2>1 DEF TornAppend
<1>4. ASSUME NEW c \in Controllers, WriteFails(c) \/ LockFails(c) PROVE Quiet
  BY <1>3, <1>4 DEF WriteFails, LockFails
<1>5. ASSUME NEW c \in Controllers, Crash(c) PROVE Quiet
  BY <1>3, <1>5 DEF Crash, HalfDone
<1>6. ASSUME LeaseExpires \/ UNCHANGED vars PROVE Quiet
  BY <1>6 DEF LeaseExpires, vars
<1>7. ASSUME NEW c \in Controllers, Verify(c) PROVE Quiet \/ Looks(c)
  <2>1. CASE Verified /\ ~rolling[c]
    BY <1>7, <2>1 DEF Verify
  <2>2. CASE ~(Verified /\ ~rolling[c])
    <3>1. seen' = [seen EXCEPT ![c] = seen[c]]
      BY <1>7, <2>2 DEF Verify
    <3> QED
      BY <1>7, <3>1 DEF Verify, LockedInv, StoreTyped
  <2> QED
    BY <2>1, <2>2
<1>8. ASSUME NEW c \in Controllers, Step(c), ~Verify(c) PROVE Quiet \/ Writes(c)
  BY <1>8 DEF Step, AcquireLock, RecoverStaleLock, LockTimeout, ReleaseLock,
              TrimTail, InspectIntent, SkipAppend, ValidateController, RefuseIntent
<1> HIDE DEF Quiet, Looks, Writes
<1>9. Quiet \/ \E c \in Controllers : Looks(c) \/ Writes(c)
  BY <1>1, <1>2, <1>4, <1>5, <1>6, <1>7, <1>8 DEF Next
<1> QED
  BY <1>9 DEF Quiet, Looks, Writes

(* What makes the history and the replay inductive: events carry the       *)
(* revisions in order; an intent is the next one, by a controller, and     *)
(* once its event is logged the snapshots are those of the intent; and     *)
(* until RUN.json is written, its author has read the revision it          *)
(* replaces, whoever may write it in the end.                              *)
LogNumbered == \A i \in 1 .. Len(log) : log[i].rev = i - 1
IntentIsNext ==
    intent # None =>
        /\ intent.next = intent.base + 1
        /\ intent.event.seq = intent.next + 1
        /\ intent.event.by \in Controllers
        /\ AlreadyLogged => run = intent.run /\ tasks = intent.tasks
AuthorHasRead ==
    intent # None /\ run.rev = intent.base => seen[intent.event.by] = intent.base

HistoryInv == LogNumbered /\ IntentIsNext /\ AuthorHasRead

(* Appending the event of the next revision keeps a log numbered.          *)
LEMMA NumberedAppend ==
  ASSUME NEW l \in Seq(Events), NEW e \in Events, e.rev = Len(l),
         \A i \in 1 .. Len(l) : l[i].rev = i - 1
  PROVE  \A i \in 1 .. Len(Append(l, e)) : Append(l, e)[i].rev = i - 1
<1> SUFFICES ASSUME NEW i \in 1 .. Len(Append(l, e))
             PROVE  Append(l, e)[i].rev = i - 1
  OBVIOUS
<1>1. CASE i \in 1 .. Len(l)
  BY <1>1, AppendProperties
<1>2. CASE i = Len(l) + 1
  BY <1>2, AppendProperties
<1> QED
  BY <1>1, <1>2, AppendProperties

LEMMA HistoryInit == Init => HistoryInv
  BY NullAssumption
  DEF Init, Created, HistoryInv, LogNumbered, IntentIsNext, AuthorHasRead

(* The revision in RUN.json is the log's last, until an intent's is        *)
(* written: then it is one ahead while the event is missing.               *)
LEMMA RevisionOfLog ==
  ASSUME LockedInv, ConsistentInv, HistoryInv
  PROVE  /\ Len(log) \in Nat \ {0}
         /\ intent = None => run.rev = Len(log) - 1
         /\ intent # None =>
               \/ /\ ~AlreadyLogged /\ intent.base = Len(log) - 1
                  /\ run.rev \in {intent.base, intent.next}
               \/ /\ AlreadyLogged /\ log[Len(log)] = intent.event
                  /\ run.rev = Len(log) - 1 /\ intent.next = run.rev
<1>1. Len(log) \in Nat \ {0}
  BY DEF LockedInv, StoreTyped, ConsistentInv, LogShape
<1>2. log[Len(log)].rev = Len(log) - 1
  BY <1>1 DEF HistoryInv, LogNumbered
<1>3. CASE intent = None
  BY <1>1, <1>2, <1>3 DEF ConsistentInv, CrashConsistent
<1>4. CASE intent # None
  <2>1. intent.base \in Nat /\ intent.next \in Nat /\ intent.event.seq \in Nat
    BY <1>4 DEF LockedInv, StoreTyped, Intents, Events
  <2>2. run.rev \in {intent.base, intent.next}
    BY <1>4 DEF ConsistentInv, CrashConsistent
  <2>3. intent.run.rev = intent.next /\ intent.event.rev = intent.next
    BY <1>4 DEF ConsistentInv, IntentShape
  <2>4. CASE intent.event.seq = Len(log) + 1
    <3>1. intent.next = intent.base + 1 /\ intent.event.seq = intent.next + 1
      BY <1>4 DEF HistoryInv, IntentIsNext
    <3>2. ~AlreadyLogged
      BY <1>1, <2>4 DEF AlreadyLogged
    <3>3. intent.base = Len(log) - 1
      BY <1>1, <2>1, <2>4, <3>1
    <3> QED
      BY <1>1, <1>4, <2>2, <3>2, <3>3
  <2>5. CASE AlreadyLogged /\ log[Len(log)] = intent.event
    <3>1. intent.next = Len(log) - 1
      BY <1>2, <2>3, <2>5
    <3>2. run = intent.run
      BY <1>4, <2>5 DEF HistoryInv, IntentIsNext
    <3>3. run.rev = Len(log) - 1 /\ intent.next = run.rev
      BY <2>3, <3>1, <3>2
    <3> QED
      BY <1>1, <1>4, <2>5, <3>3
  <2> QED
    BY <1>4, <2>4, <2>5 DEF ConsistentInv, CrashConsistent
<1> QED
  BY <1>1, <1>3, <1>4

LEMMA HistoryStep ==
  ASSUME MaySplitNewline = FALSE, LockedInv, ConsistentInv, HistoryInv, [Next]_vars
  PROVE  HistoryInv'
<1> USE NullAssumption
    DEF HistoryInv, LogNumbered, IntentIsNext, AuthorHasRead, AlreadyLogged,
        LockedInv, StoreTyped, At
<1>1. CASE UNCHANGED <<run, tasks, log, intent, seen>>
  BY <1>1
<1>2. ASSUME NEW c \in Controllers, UNCHANGED <<run, tasks, log, intent>>,
             seen' = [seen EXCEPT ![c] = run.rev]
      PROVE  HistoryInv'
  BY <1>2
<1>3. ASSUME NEW c \in Controllers, WriteRun(c) PROVE HistoryInv'
  <2>1. intent # None /\ intent.run.rev = intent.next
    BY <1>3 DEF WriteRun, IntentPresent, ConsistentInv, IntentShape
  <2>2. intent.base \in Nat
    BY <2>1 DEF Intents
  <2> QED
    BY <1>3, <2>1, <2>2 DEF WriteRun
<1>4. ASSUME NEW c \in Controllers, WriteTasks(c) PROVE HistoryInv'
  BY <1>4 DEF WriteTasks
<1>5. ASSUME NEW c \in Controllers, AppendEvent(c) PROVE HistoryInv'
  <2>1. intent # None /\ intent.event \in Events /\ intent.event.rev = intent.next
    BY <1>5 DEF AppendEvent, IntentPresent, ConsistentInv, IntentShape, Intents
  <2>2. run = intent.run /\ tasks = intent.tasks
    BY <1>5 DEF AppendEvent, ConsistentInv, AppliedSoFar
  <2>3. intent.event.seq = Len(log) + 1 /\ log' = Append(log, intent.event)
    BY <1>5 DEF AppendEvent, Appendable
  <2>4. LogNumbered'
    <3>1. intent.next \in Nat /\ intent.event.rev = Len(log)
      BY <2>1, <2>3 DEF Intents
    <3> QED
      BY <2>1, <2>3, <3>1, NumberedAppend
  <2> QED
    BY <1>5, <2>1, <2>2, <2>4 DEF AppendEvent
<1>6. ASSUME NEW c \in Controllers, FinalizeIntent(c) PROVE HistoryInv'
  BY <1>6 DEF FinalizeIntent
<1>7. ASSUME NEW c \in Controllers, PrepareIntent(c) PROVE HistoryInv'
  <2>1. intent = None
    BY <1>7 DEF PrepareIntent, ConsistentInv, AppliedSoFar
  <2>2. run.rev = Len(log) - 1 /\ Len(log) \in Nat
    BY <2>1, RevisionOfLog
  <2>3. seen[c] = run.rev /\ UNCHANGED <<run, tasks, log, seen>>
    BY <1>7 DEF PrepareIntent
  <2>4. PICK status \in StatusUpdates, list \in TaskUpdates :
            intent' = IntentOf(c, status, list)
    BY <1>7 DEF PrepareIntent
  <2>5. /\ intent'.base = run.rev /\ intent'.next = run.rev + 1
        /\ intent'.event.seq = Len(log) + 1 /\ intent'.event.by = c
    BY <2>4 DEF IntentOf
  <2> QED
    BY <2>2, <2>3, <2>5
<1> QED
  BY <1>1, <1>2, <1>3, <1>4, <1>5, <1>6, <1>7, StepEffects
----------------------------------------------------------------------------
(* The refinement mapping yields a history of one entry per revision.      *)
Entries == {EntryOf(event) : event \in Events}

HistoryShape ==
    /\ run.rev \in Nat
    /\ History \in Seq(Entries)
    /\ Len(History) = run.rev
    /\ \A i \in 1 .. run.rev :
           History[i] = EntryOf(IF i < Len(log) THEN log[i + 1] ELSE intent.event)

LEMMA HistoryTyped == LockedInv /\ ConsistentInv /\ HistoryInv => HistoryShape
<1> SUFFICES ASSUME LockedInv, ConsistentInv, HistoryInv
             PROVE  HistoryShape
  OBVIOUS
<1> DEFINE Event(i) == IF i < Len(log) THEN log[i + 1] ELSE intent.event
<1>1. run.rev \in Nat /\ Len(log) \in Nat \ {0}
  BY RevisionOfLog DEF LockedInv, StoreTyped, RunSnapshots
<1>2. ASSUME NEW i \in 1 .. run.rev PROVE Event(i) \in Events
  <2>1. CASE i < Len(log)
    BY <1>1, <2>1 DEF LockedInv, StoreTyped
  <2>2. CASE ~(i < Len(log))
    <3>1. intent # None
      BY <1>1, <2>2, RevisionOfLog
    <3> QED
      BY <2>2, <3>1 DEF LockedInv, StoreTyped, Intents
  <2> QED
    BY <2>1, <2>2
<1>3. \A i \in 1 .. run.rev : EntryOf(Event(i)) \in Entries
  BY <1>2 DEF Entries
<1>4. History = [i \in 1 .. run.rev |-> EntryOf(Event(i))]
  BY DEF History
<1> HIDE DEF Event
<1>5. /\ History \in Seq(Entries)
      /\ Len(History) = run.rev
      /\ \A i \in 1 .. run.rev : History[i] = EntryOf(Event(i))
  BY <1>1, <1>3, <1>4
<1> QED
  BY <1>1, <1>5 DEF Event, HistoryShape

(* Two logs and intents that give every revision the same event give the   *)
(* same history.                                                           *)
LEMMA SameHistory ==
  ASSUME run'.rev = run.rev,
         \A i \in 1 .. run.rev :
             (IF i < Len(log') THEN log'[i + 1] ELSE intent'.event) =
             (IF i < Len(log) THEN log[i + 1] ELSE intent.event)
  PROVE  History' = History
  BY DEF History

(* Writing RUN.json commits the intent's event, unless a recovery writes   *)
(* what is there already.                                                  *)
LEMMA WriteRunCommits ==
  ASSUME MaySplitNewline = FALSE, LockedInv, ConsistentInv, HistoryInv,
         LockedInv', ConsistentInv', HistoryInv',
         NEW c \in Controllers, WriteRun(c)
  PROVE  \/ History' = History /\ seen' = seen
         \/ Abstract!Commit(intent.event.by)
<1>0. HistoryShape /\ HistoryShape'
  <2>1. (LockedInv /\ ConsistentInv /\ HistoryInv => HistoryShape)'
    BY HistoryTyped, PTL
  <2> QED
    BY <2>1, HistoryTyped
<1>1. intent \in Intents /\ intent # None
  BY DEF WriteRun, At, LockedInv, IntentPresent, StoreTyped
<1>2. UNCHANGED <<log, intent, seen>> /\ run'.rev = intent.next
  BY <1>1 DEF WriteRun, ConsistentInv, IntentShape
<1>3. CASE run.rev = intent.next
  <2>1. run'.rev = run.rev
    BY <1>2, <1>3
  <2>2. History' = History
    BY <1>2, <2>1, SameHistory
  <2> QED
    BY <1>2, <2>2
<1>4. CASE run.rev # intent.next
  <2>1. run.rev = intent.base /\ run.rev = Len(log) - 1 /\ Len(log) \in Nat
    BY <1>1, <1>4, RevisionOfLog
  <2>2. intent.next = intent.base + 1
    BY <1>1 DEF HistoryInv, IntentIsNext
  <2>3. /\ run.rev \in Nat /\ run'.rev = run.rev + 1
         /\ Len(log) = run.rev + 1 /\ Len(log') = run.rev + 1
    <3>1. run.rev \in Nat
      BY <1>0 DEF HistoryShape
    <3>2. Len(log') = Len(log)
      BY <1>2
    <3>3. run'.rev = run.rev + 1
      BY <1>2, <2>1, <2>2
    <3>4. Len(log) = run.rev + 1
      BY <2>1
    <3> QED
      BY <3>1, <3>2, <3>3, <3>4
  <2>4. intent.event \in Events
    BY <1>1 DEF Intents
  <2>5. PICK entry \in Entries : entry = EntryOf(intent.event)
    BY <2>4 DEF Entries
  <2>6. /\ History \in Seq(Entries) /\ History' \in Seq(Entries)
        /\ Len(History) = run.rev /\ Len(History') = run.rev + 1 /\ run.rev \in Nat
    BY <1>0, <1>2, <2>1, <2>2 DEF HistoryShape
  <2>7. ASSUME NEW i \in 1 .. run.rev PROVE History'[i] = History[i]
    <3>1. i < Len(log) /\ i < Len(log') /\ i \in 1 .. run'.rev
      BY <2>3
    <3>2. History[i] = EntryOf(log[i + 1])
      BY <1>0, <3>1 DEF HistoryShape
    <3>3. History'[i] = EntryOf(log'[i + 1])
      BY <1>0, <3>1 DEF HistoryShape
    <3> QED
      BY <1>2, <3>2, <3>3
  <2>8. History'[run.rev + 1] = entry
    <3>1. run.rev + 1 \in 1 .. run'.rev /\ ~(run.rev + 1 < Len(log'))
      BY <2>3
    <3>2. History'[run.rev + 1] = EntryOf(intent'.event)
      BY <1>0, <3>1 DEF HistoryShape
    <3> QED
      BY <1>2, <2>5, <3>2
  <2>9. History' = Append(History, entry)
    <3> HIDE DEF History
    <3>1. /\ Append(History, entry) \in Seq(Entries)
          /\ Len(Append(History, entry)) = run.rev + 1
          /\ \A i \in 1 .. run.rev : Append(History, entry)[i] = History[i]
          /\ Append(History, entry)[run.rev + 1] = entry
      BY <2>6, AppendProperties
    <3>2. \A i \in 1 .. run.rev + 1 : History'[i] = Append(History, entry)[i]
      BY <2>6, <2>7, <2>8, <3>1
    <3> QED
      BY <2>6, <3>1, <3>2, SeqEqual
  <2>10. entry = [by |-> intent.event.by,
                 change |-> <<intent.event.status, intent.event.list>>]
    BY <2>5 DEF EntryOf
  <2>11. <<intent.event.status, intent.event.list>> \in StatusUpdates \X TaskUpdates
    BY <2>4 DEF Events
  <2>12. seen[intent.event.by] = Len(History)
    BY <1>1, <2>1, <2>6 DEF HistoryInv, AuthorHasRead
  <2> QED
    BY <1>2, <2>9, <2>10, <2>11, <2>12 DEF Abstract!Commit
<1> QED
  BY <1>3, <1>4

(* Every step of the store is a step of RunHistory, or leaves the history  *)
(* and what has been read as they are.                                     *)
LEMMA StepRefines ==
  ASSUME MaySplitNewline = FALSE, LockedInv, ConsistentInv, HistoryInv,
         LockedInv', ConsistentInv', HistoryInv', [Next]_vars
  PROVE  [Abstract!Next]_<<History, seen>>
<1> USE RevisionOfLog, HistoryTyped DEF HistoryShape
<1>1. CASE UNCHANGED <<run, tasks, log, intent, seen>>
  BY <1>1, SameHistory
<1>2. ASSUME NEW c \in Controllers, UNCHANGED <<run, tasks, log, intent>>,
             seen' = [seen EXCEPT ![c] = run.rev]
      PROVE  Abstract!Next
  <2>1. History' = History
    BY <1>2, SameHistory
  <2>2. Abstract!Observe(c)
    BY <1>2, <2>1 DEF Abstract!Observe
  <2> QED
    BY <2>2 DEF Abstract!Next
<1>3. ASSUME NEW c \in Controllers, WriteRun(c) PROVE [Abstract!Next]_<<History, seen>>
  <2>1. intent.event.by \in Controllers
    BY <1>3 DEF WriteRun, At, LockedInv, IntentPresent, HistoryInv, IntentIsNext
  <2> QED
    BY <1>3, <2>1, WriteRunCommits DEF Abstract!Next
<1>4. ASSUME NEW c \in Controllers, WriteTasks(c) PROVE UNCHANGED <<History, seen>>
  BY <1>4, SameHistory DEF WriteTasks
<1>5. ASSUME NEW c \in Controllers, AppendEvent(c) PROVE UNCHANGED <<History, seen>>
  <2>1. /\ UNCHANGED <<run, intent, seen>> /\ log' = Append(log, intent.event)
        /\ intent.event.seq = Len(log) + 1
    BY <1>5 DEF AppendEvent, Appendable
  <2>2. log \in Seq(Events) /\ intent \in Intents /\ intent # None
    BY <1>5 DEF AppendEvent, At, LockedInv, IntentPresent, StoreTyped
  <2>3. intent.event \in Events
    BY <2>2 DEF Intents
  <2>4. run.rev = Len(log)
    BY <1>5, <2>1, <2>2 DEF AppendEvent, At, ConsistentInv, AppliedSoFar, IntentShape,
                           HistoryInv, IntentIsNext, Intents
  <2>5. /\ Len(log') = Len(log) + 1 /\ log'[Len(log) + 1] = intent.event
        /\ \A i \in 1 .. Len(log) : log'[i] = log[i]
    BY <2>1, <2>2, <2>3, AppendProperties
  <2>6. ASSUME NEW i \in 1 .. run.rev
        PROVE  (IF i < Len(log') THEN log'[i + 1] ELSE intent'.event) =
               (IF i < Len(log) THEN log[i + 1] ELSE intent.event)
    BY <2>1, <2>4, <2>5
  <2>7. History' = History
    BY <2>1, <2>6, SameHistory
  <2> QED
    BY <2>1, <2>7
<1>6. ASSUME NEW c \in Controllers, FinalizeIntent(c) PROVE UNCHANGED <<History, seen>>
  <2>1. UNCHANGED <<run, log, seen>> /\ intent # None /\ AlreadyLogged
    BY <1>6 DEF FinalizeIntent, At, LockedInv, IntentPresent, ConsistentInv,
                AppliedSoFar, LoggedLast
  <2>2. run.rev = Len(log) - 1
    BY <2>1
  <2>3. \A i \in 1 .. run.rev : i < Len(log)
    BY <2>2
  <2>4. History' = History
    BY <2>1, <2>3, SameHistory
  <2> QED
    BY <2>1, <2>4
<1>7. ASSUME NEW c \in Controllers, PrepareIntent(c) PROVE UNCHANGED <<History, seen>>
  <2>1. UNCHANGED <<run, log, seen>> /\ intent = None
    BY <1>7 DEF PrepareIntent, At, ConsistentInv, AppliedSoFar
  <2>2. run.rev = Len(log) - 1
    BY <2>1
  <2>3. \A i \in 1 .. run.rev : i < Len(log)
    BY <2>2
  <2>4. History' = History
    BY <2>1, <2>3, SameHistory
  <2> QED
    BY <2>1, <2>4
<1> QED
  BY <1>1, <1>2, <1>3, <1>4, <1>5, <1>6, <1>7, StepEffects

LEMMA InitialHistory == Init => Abstract!Init
<1>1. Init => History = << >>
  BY DEF Init, History
<1> QED
  BY <1>1 DEF Init, Abstract!Init

(* The store implements RunHistory: whatever crashes, fails or recovers,   *)
(* writing RUN.json is the one step that commits, no revision that was     *)
(* read is rolled back, and a transition takes effect only on the revision *)
(* its author had read (store.py's transition and _recover_locked).        *)
THEOREM StoreImplementsHistory ==
  ASSUME MaySplitNewline = FALSE
  PROVE  Spec => ImplementsHistory
<1> DEFINE Inv == LockedInv /\ ConsistentInv /\ HistoryInv
<1>1. Init => Inv
  BY LockedInit, ConsistentInit, HistoryInit
<1>2. Inv /\ [Next]_vars => Inv'
  BY LockedStep, ConsistentStep, HistoryStep
<1>3. Init => Abstract!Init
  BY InitialHistory
<1>4. Inv /\ Inv' /\ [Next]_vars => [Abstract!Next]_<<History, seen>>
  BY StepRefines
<1> HIDE DEF Inv
<1> QED
  BY <1>1, <1>2, <1>3, <1>4, PTL DEF Spec, ImplementsHistory, Abstract!Spec, Abstract!vars
----------------------------------------------------------------------------
(* value is what the last event of l that updates the field gave it.       *)
IsLast(l, field, value) ==
    \/ /\ value = None
       /\ \A i \in 1 .. Len(l) : l[i][field] = None
    \/ /\ value # None
       /\ \E i \in 1 .. Len(l) :
              /\ l[i][field] = value
              /\ \A j \in 1 .. Len(l) : l[j][field] # None => j <= i

(* What the snapshots hold, or will hold once the intent is applied, is    *)
(* what the events and then the intent's event have updated last.          *)
Revised(old, update) == IF update = None THEN old ELSE update
ReplayInv ==
    /\ intent = None =>
           /\ run.by = log[Len(log)].by
           /\ IsLast(log, "status", run.status)
           /\ IsLast(log, "list", tasks.list)
    /\ intent # None => intent.run.by = intent.event.by
    /\ intent # None /\ AlreadyLogged =>
           /\ IsLast(log, "status", intent.run.status)
           /\ IsLast(log, "list", intent.tasks.list)
    /\ intent # None /\ ~AlreadyLogged =>
           \E status, list :
               /\ IsLast(log, "status", status)
               /\ intent.run.status = Revised(status, intent.event.status)
               /\ IsLast(log, "list", list)
               /\ intent.tasks.list = Revised(list, intent.event.list)

LEMMA LastUpdateIsLast ==
  ASSUME log \in Seq(Events), NEW field \in {"status", "list"}, NEW value,
         IsLast(log, field, value)
  PROVE  LastUpdate(field) = value
<1> DEFINE updated == {i \in 1 .. Len(log) : log[i][field] # None}
           last == CHOOSE i \in updated : \A j \in updated : j <= i
<1>1. LastUpdate(field) = IF updated = {} THEN None ELSE log[last][field]
  BY DEF LastUpdate
<1>2. CASE value = None
  <2>1. updated = {}
    BY <1>2 DEF IsLast
  <2> QED
    BY <1>1, <1>2, <2>1
<1>3. CASE value # None
  <2>1. PICK i \in updated : log[i][field] = value /\ \A j \in updated : j <= i
    BY <1>3 DEF IsLast
  <2>2. last \in updated /\ \A j \in updated : j <= last
    BY <2>1
  <2>3. updated \subseteq Nat
    OBVIOUS
  <2>4. last = i
    <3> HIDE DEF updated, last
    <3>1. last \in Nat /\ i \in Nat /\ i <= last /\ last <= i
      BY <2>1, <2>2, <2>3
    <3> QED
      BY <3>1
  <2> QED
    BY <1>1, <2>1, <2>4
<1> QED
  BY <1>2, <1>3

LEMMA AppendedIsLast ==
  ASSUME NEW l \in Seq(Events), NEW e \in Events, NEW field \in {"status", "list"},
         NEW old, IsLast(l, field, old)
  PROVE  IsLast(Append(l, e), field, Revised(old, e[field]))
<1> DEFINE m == Append(l, e)
<1>1. /\ Len(l) \in Nat /\ Len(m) = Len(l) + 1 /\ m[Len(l) + 1] = e
      /\ \A i \in 1 .. Len(l) : m[i] = l[i]
  BY AppendProperties
<1> HIDE DEF m
<1>2. \A i \in 1 .. Len(m) : i = Len(l) + 1 \/ i \in 1 .. Len(l)
  BY <1>1
<1>3. CASE e[field] # None
  <2>1. Len(m) \in 1 .. Len(m) /\ m[Len(m)][field] = e[field]
    BY <1>1
  <2>2. \A j \in 1 .. Len(m) : j <= Len(m)
    BY <1>1
  <2> QED
    BY <1>3, <2>1, <2>2 DEF IsLast, Revised, m
<1>4. CASE e[field] = None
  <2>1. CASE old = None
    <3>1. \A i \in 1 .. Len(m) : m[i][field] = None
      BY <1>1, <1>2, <1>4, <2>1 DEF IsLast
    <3> QED
      BY <1>4, <2>1, <3>1 DEF IsLast, Revised, m
  <2>2. CASE old # None
    <3>1. PICK i \in 1 .. Len(l) :
              l[i][field] = old /\ \A j \in 1 .. Len(l) : l[j][field] # None => j <= i
      BY <2>2 DEF IsLast
    <3>2. i \in 1 .. Len(m) /\ m[i][field] = old
      BY <1>1, <3>1
    <3>3. \A j \in 1 .. Len(m) : m[j][field] # None => j <= i
      BY <1>1, <1>2, <1>4, <3>1
    <3> QED
      BY <1>4, <2>2, <3>2, <3>3 DEF IsLast, Revised, m
  <2> QED
    BY <2>1, <2>2
<1> QED
  BY <1>3, <1>4

LEMMA ReplayInit == Init => ReplayInv
<1> SUFFICES ASSUME Init PROVE ReplayInv
  OBVIOUS
<1>1. Len(log) = 1 /\ log[1] = Created /\ intent = None
  BY DEF Init
<1>2. IsLast(log, "status", None) /\ IsLast(log, "list", None)
  BY <1>1 DEF Created, IsLast
<1>3. run.by = None /\ run.status = None /\ tasks.list = None /\ log[1].by = None
  BY <1>1 DEF Init, Created
<1> QED
  BY <1>1, <1>2, <1>3 DEF ReplayInv

LEMMA ReplayStep ==
  ASSUME MaySplitNewline = FALSE, LockedInv, ConsistentInv, HistoryInv, ReplayInv,
         [Next]_vars
  PROVE  ReplayInv'
<1>1. CASE UNCHANGED <<run, tasks, log, intent>>
  BY <1>1 DEF ReplayInv, AlreadyLogged
<1>2. ASSUME NEW c \in Controllers, WriteRun(c) \/ WriteTasks(c) PROVE ReplayInv'
  <2>1. UNCHANGED <<log, intent>> /\ intent # None
    BY <1>2 DEF WriteRun, WriteTasks, At, LockedInv, IntentPresent
  <2> QED
    BY <2>1 DEF ReplayInv, AlreadyLogged
<1>3. ASSUME NEW c \in Controllers, AppendEvent(c) PROVE ReplayInv'
  <2>1. /\ log \in Seq(Events) /\ Len(log) \in Nat
        /\ intent # None /\ intent.event \in Events
        /\ intent.event.seq = Len(log) + 1
        /\ log' = Append(log, intent.event) /\ intent' = intent
    BY <1>3 DEF AppendEvent, Appendable, At, LockedInv, IntentPresent, StoreTyped, Intents
  <2>2. ~AlreadyLogged
    BY <2>1 DEF AlreadyLogged
  <2>3. PICK status, list :
            /\ IsLast(log, "status", status)
            /\ intent.run.status = Revised(status, intent.event.status)
            /\ IsLast(log, "list", list)
            /\ intent.tasks.list = Revised(list, intent.event.list)
    BY <2>1, <2>2 DEF ReplayInv
  <2>4. /\ IsLast(log', "status", intent.run.status)
        /\ IsLast(log', "list", intent.tasks.list)
    BY <2>1, <2>3, AppendedIsLast
  <2>5. AlreadyLogged'
    <3>1. Len(log') = Len(log) + 1
      BY <2>1, AppendProperties
    <3> QED
      BY <2>1, <3>1 DEF AlreadyLogged
  <2> QED
    BY <2>1, <2>4, <2>5 DEF ReplayInv
<1>4. ASSUME NEW c \in Controllers, FinalizeIntent(c) PROVE ReplayInv'
  <2>1. /\ UNCHANGED <<run, tasks, log>> /\ intent' = None /\ intent # None
        /\ AlreadyLogged /\ log[Len(log)] = intent.event
        /\ run = intent.run /\ tasks = intent.tasks
    BY <1>4 DEF FinalizeIntent, At, LockedInv, IntentPresent, ConsistentInv,
                AppliedSoFar, LoggedLast, HistoryInv, IntentIsNext
  <2> QED
    BY <2>1 DEF ReplayInv
<1>5. ASSUME NEW c \in Controllers, PrepareIntent(c) PROVE ReplayInv'
  <2>1. UNCHANGED <<run, tasks, log>> /\ intent = None
    BY <1>5 DEF PrepareIntent, At, ConsistentInv, AppliedSoFar
  <2>2. PICK status \in StatusUpdates, list \in TaskUpdates :
            intent' = IntentOf(c, status, list)
    BY <1>5 DEF PrepareIntent
  <2>3. /\ intent'.run.by = intent'.event.by
        /\ intent'.run.status = Revised(run.status, intent'.event.status)
        /\ intent'.tasks.list = Revised(tasks.list, intent'.event.list)
        /\ intent'.event.seq = Len(log) + 1
    BY <2>2 DEF IntentOf, Revised
  <2>4. ~AlreadyLogged' /\ intent' # None
    <3>1. StoreTyped
      BY DEF LockedInv
    <3>2. intent' \in Intents
      BY <2>2, <3>1, IntentTyped
    <3>3. Len(log) \in Nat /\ log' = log
      BY <2>1, <3>1 DEF StoreTyped
    <3> QED
      BY <2>3, <3>2, <3>3, NullAssumption DEF AlreadyLogged
  <2>5. IsLast(log', "status", run.status) /\ IsLast(log', "list", tasks.list)
    BY <2>1 DEF ReplayInv
  <2> QED
    BY <2>3, <2>4, <2>5 DEF ReplayInv
<1> QED
  BY <1>1, <1>2, <1>3, <1>4, <1>5, StepEffects

(* Nothing but the intent itself has been written while RUN.json is still  *)
(* at its base: the snapshots and the log are those it was built from.     *)
UntouchedInv ==
    intent # None /\ run.rev = intent.base =>
        /\ tasks.rev = run.rev /\ log[Len(log)].rev = run.rev
        /\ ending = "clean"
        /\ run.by = log[Len(log)].by
        /\ IsLast(log, "status", run.status)
        /\ IsLast(log, "list", tasks.list)

LEMMA UntouchedStep ==
  ASSUME MaySplitNewline = FALSE, LockedInv, ConsistentInv, HistoryInv, ReplayInv,
         UntouchedInv, [Next]_vars
  PROVE  UntouchedInv'
<1>1. \/ ending' \in {ending, "clean"}
      \/ \E c \in Controllers : Running(c) /\ pc[c] = "append"
  <2> USE DEF At, files, control
  <2>1. ASSUME NEW c \in Controllers,
               Observe(c) \/ Begin(c) \/ Claim(c) \/ Heartbeat(c) \/ ReleaseLease(c)
        PROVE  ending' = ending
    BY <2>1 DEF Observe, Begin, Claim, Heartbeat, ReleaseLease
  <2>2. ASSUME NEW c \in Controllers, WriteFails(c) \/ LockFails(c) \/ Crash(c)
        PROVE  ending' = ending \/ (Running(c) /\ pc[c] = "append")
    BY <2>2 DEF WriteFails, LockFails, Crash, HalfDone
  <2>3. ASSUME NEW c \in Controllers, Step(c)
        PROVE  ending' \in {ending, "clean"} \/ (Running(c) /\ pc[c] = "append")
    BY <2>3 DEF Step, AcquireLock, RecoverStaleLock, LockTimeout, ReleaseLock,
                TrimTail, InspectIntent, WriteRun, WriteTasks, SkipAppend,
                AppendEvent, FinalizeIntent, Verify, ValidateController,
                PrepareIntent, RefuseIntent
  <2> QED
    BY <2>1, <2>2, <2>3 DEF Next, LeaseExpires, vars
<1>2. ASSUME intent # None, run = intent.run PROVE run.rev # intent.base
  BY <1>2 DEF LockedInv, StoreTyped, Intents, ConsistentInv, IntentShape, HistoryInv,
              IntentIsNext
<1>3. CASE UNCHANGED <<run, tasks, log, intent>>
  <2> SUFFICES ASSUME intent # None, run.rev = intent.base PROVE ending' = "clean"
    BY <1>3 DEF UntouchedInv
  <2> QED
    BY <1>1, <1>2 DEF UntouchedInv, ConsistentInv, AppliedSoFar
<1>4. ASSUME NEW c \in Controllers, WriteRun(c) PROVE UntouchedInv'
  <2>1. intent # None /\ intent' = intent /\ run' = intent.run
    BY <1>4 DEF WriteRun, At, LockedInv, IntentPresent
  <2>2. intent.run.rev # intent.base
    BY <2>1 DEF LockedInv, StoreTyped, Intents, ConsistentInv, IntentShape, HistoryInv,
                IntentIsNext
  <2> QED
    BY <2>1, <2>2 DEF UntouchedInv
<1>5. ASSUME NEW c \in Controllers, WriteTasks(c) \/ AppendEvent(c) PROVE UntouchedInv'
  <2>1. intent # None /\ UNCHANGED <<run, intent>> /\ run = intent.run
    BY <1>5 DEF WriteTasks, AppendEvent, At, LockedInv, IntentPresent, ConsistentInv,
                AppliedSoFar
  <2> QED
    BY <1>2, <2>1 DEF UntouchedInv
<1>6. ASSUME NEW c \in Controllers, FinalizeIntent(c) PROVE UntouchedInv'
  BY <1>6 DEF FinalizeIntent, UntouchedInv
<1>7. ASSUME NEW c \in Controllers, PrepareIntent(c) PROVE UntouchedInv'
  <2>1. UNCHANGED <<run, tasks, log, ending>> /\ intent = None
    BY <1>7 DEF PrepareIntent, At, ConsistentInv, AppliedSoFar
  <2> QED
    BY <2>1 DEF UntouchedInv, ReplayInv, ConsistentInv, CrashConsistent
<1> QED
  BY <1>3, <1>4, <1>5, <1>6, <1>7, StepEffects

StoreInv ==
    LockedInv /\ ConsistentInv /\ HistoryInv /\ ReplayInv /\ UntouchedInv

LEMMA StoreInvInit == Init => StoreInv
<1>1. Init => UntouchedInv
  BY DEF Init, UntouchedInv
<1> QED
  BY <1>1, LockedInit, ConsistentInit, HistoryInit, ReplayInit DEF StoreInv

LEMMA StoreInvStep ==
  ASSUME MaySplitNewline = FALSE, StoreInv, [Next]_vars PROVE StoreInv'
  BY LockedStep, ConsistentStep, HistoryStep, ReplayStep, UntouchedStep DEF StoreInv

LEMMA SnapshotsReplay ==
  ASSUME StoreInv, intent = None PROVE run = ReplayedRun /\ tasks = ReplayedTasks
<1>1. run \in RunSnapshots /\ tasks \in TaskSnapshots /\ log \in Seq(Events)
  BY DEF StoreInv, LockedInv, StoreTyped
<1>2. run.rev = log[Len(log)].rev /\ tasks.rev = run.rev
  BY DEF StoreInv, ConsistentInv, CrashConsistent
<1>3. run.status = LastUpdate("status") /\ tasks.list = LastUpdate("list")
  BY <1>1, LastUpdateIsLast DEF StoreInv, ReplayInv
<1>4. run.by = log[Len(log)].by
  BY DEF StoreInv, ReplayInv
<1>5. run = ReplayedRun
  BY <1>1, <1>2, <1>3, <1>4 DEF ReplayedRun, RunSnapshots
<1>6. tasks = ReplayedTasks
  BY <1>1, <1>2, <1>3 DEF ReplayedTasks, TaskSnapshots
<1> QED
  BY <1>5, <1>6

(* With no transition prepared, the snapshots are what replaying the log   *)
(* gives (repair.py's recompute), after any crash, failure or recovery.    *)
THEOREM SnapshotsAgreeWithLog ==
  ASSUME MaySplitNewline = FALSE
  PROVE  Spec => []SnapshotsReplayLog
<1>1. Init => StoreInv
  BY StoreInvInit
<1>2. StoreInv /\ [Next]_vars => StoreInv'
  BY StoreInvStep
<1>3. StoreInv => SnapshotsReplayLog
  BY SnapshotsReplay DEF SnapshotsReplayLog
<1> QED
  BY <1>1, <1>2, <1>3, PTL DEF Spec
----------------------------------------------------------------------------
(* With the operator's commands (RunMaintenance).  A prepared migration    *)
(* holds the snapshots as they are: nothing else may be prepared beside    *)
(* it, and whoever finds it applies it before doing anything else.         *)
Migrating == {"migrateRun", "migrateTasks", "migrated"}
MigrationHeld ==
    /\ migration # None =>
         intent = None /\ migration = [run |-> run, tasks |-> tasks]
    /\ \A c \in Controllers : Running(c) /\ pc[c] \in Migrating =>
         intent = None /\ migration = [run |-> run, tasks |-> tasks]
PastMigration ==
    \A c \in Controllers :
        Running(c) /\ pc[c] \in {"verify", "validate", "build"} => migration = None
SchemaWritten ==
    \A c \in Controllers : Running(c) =>
        /\ pc[c] \in {"migrateTasks", "migrated"} => runSchema = CurrentSchema
        /\ pc[c] = "migrated" => tasksSchema = CurrentSchema

(* A repair works on a store with nothing prepared, and under the lock.    *)
RepairAtRest ==
    \A c \in Controllers :
        Running(c) /\ pc[c] \in {"repairRun", "repairTasks"} =>
            intent = None /\ migration = None

(* The dead are at no step.                                                *)
DeadIdle == \A c \in Controllers : pc[c] # "idle" => Running(c)

MaintenanceInv ==
    MigrationHeld /\ PastMigration /\ SchemaWritten /\ RepairAtRest /\ DeadIdle

(* What holds of every state, and what a migration of a half-applied       *)
(* transition ends.                                                        *)
LastingInv == LockedInv /\ LogShape /\ MaintenanceInv
TogetherInv == LastingInv /\ (superseded \/ StoreInv)

LEMMA MaintenanceInit == MInit => TogetherInv
<1> SUFFICES ASSUME MInit PROVE TogetherInv
  OBVIOUS
<1>1. Init /\ migration = None
  BY DEF MInit
<1>2. \A c \in Controllers : pc[c] = "idle"
  BY <1>1 DEF Init
<1> QED
  BY <1>1, <1>2, StoreInvInit
  DEF TogetherInv, LastingInv, StoreInv, ConsistentInv, MaintenanceInv, MigrationHeld,
      PastMigration, SchemaWritten, RepairAtRest, DeadIdle, Migrating

(* No step leaves the log empty, or so that it cannot be read.             *)
LEMMA LogShapeStep ==
  ASSUME MaySplitNewline = FALSE, LockedInv, LogShape, [Next]_vars
  PROVE  LogShape'
<1> USE DEF LogShape, At, files, control, LockedInv, StoreTyped
<1>1. TornAppend => log' = log /\ ending' = "fragment"
  BY DEF TornAppend, Appendable, Readable
<1>2. ASSUME NEW c \in Controllers,
             Observe(c) \/ Begin(c) \/ Claim(c) \/ Heartbeat(c) \/ ReleaseLease(c)
      PROVE  LogShape'
  BY <1>2 DEF Observe, Begin, Claim, Heartbeat, ReleaseLease
<1>3. ASSUME NEW c \in Controllers, WriteFails(c) \/ LockFails(c) \/ Crash(c)
      PROVE  LogShape'
  BY <1>1, <1>3 DEF WriteFails, LockFails, Crash, HalfDone
<1>4. ASSUME NEW c \in Controllers, AppendEvent(c) PROVE LogShape'
  <2>1. log' = Append(log, intent.event) /\ ending' = "clean"
    BY <1>4 DEF AppendEvent, Appendable, Readable
  <2>2. intent.event \in Events
    BY <1>4 DEF AppendEvent, IntentPresent, Intents
  <2> QED
    BY <2>1, <2>2, AppendProperties
<1>5. ASSUME NEW c \in Controllers, Step(c), ~AppendEvent(c) PROVE LogShape'
  BY <1>5 DEF Step, AcquireLock, RecoverStaleLock, LockTimeout, ReleaseLock,
              TrimTail, InspectIntent, WriteRun, WriteTasks, SkipAppend,
              FinalizeIntent, Verify, ValidateController, PrepareIntent, RefuseIntent
<1> QED
  BY <1>2, <1>3, <1>4, <1>5 DEF Next, LeaseExpires, vars

(* Where a step of RunStore's operations leads.                            *)
LEMMA StepMoves ==
  ASSUME LockedInv, NEW c \in Controllers, Step(c)
  PROVE  /\ Running(c) /\ alive' = alive
         /\ pc[c] \in Critical \cup {"waiting"}
         /\ \A d \in Controllers \ {c} : pc'[d] = pc[d]
         /\ pc'[c] \notin MaintenanceSteps
         /\ pc'[c] = "verify" => pc[c] = "finalize"
         /\ pc'[c] = "validate" => pc[c] \in {"inspect", "verify"}
         /\ pc'[c] = "build" => pc[c] = "validate"
         /\ \/ UNCHANGED <<run, tasks, intent>>
            \/ pc[c] \in Applying \cup {"build"}
<1> USE DEF At, Goto, Return, Ended, control, files, AfterRecovery, LockedInv, StoreTyped
<1>1. CASE AcquireLock(c) \/ RecoverStaleLock(c) \/ LockTimeout(c) \/ ReleaseLock(c)
  BY <1>1 DEF AcquireLock, RecoverStaleLock, LockTimeout, ReleaseLock
<1>2. CASE TrimTail(c) \/ InspectIntent(c)
  BY <1>2 DEF TrimTail, InspectIntent
<1>3. CASE WriteRun(c) \/ WriteTasks(c) \/ SkipAppend(c) \/ AppendEvent(c)
  BY <1>3 DEF WriteRun, WriteTasks, SkipAppend, AppendEvent
<1>4. CASE FinalizeIntent(c) \/ Verify(c)
  BY <1>4 DEF FinalizeIntent, Verify
<1>5. CASE ValidateController(c) \/ PrepareIntent(c) \/ RefuseIntent(c)
  BY <1>5 DEF ValidateController, PrepareIntent, RefuseIntent
<1> QED
  BY <1>1, <1>2, <1>3, <1>4, <1>5 DEF Step

(* ... and every other step of RunStore.                                   *)
OtherStep(c) ==
    \/ Observe(c) \/ Claim(c) \/ Begin(c) \/ Heartbeat(c) \/ ReleaseLease(c)
    \/ WriteFails(c) \/ LockFails(c) \/ Crash(c)

LEMMA OtherMoves ==
  ASSUME LockedInv, DeadIdle, NEW c \in Controllers, OtherStep(c)
  PROVE  /\ UNCHANGED <<run, tasks, intent>>
         /\ \A d \in Controllers :
              /\ Running(d)' => Running(d) /\ (pc'[d] = pc[d]
                                               \/ pc'[d] \in {"idle", "waiting", "release"})
              /\ pc'[d] # "idle" => Running(d)'
<1> USE DEF At, Goto, control, files, LockedInv, StoreTyped, DeadIdle
<1>1. TornAppend => UNCHANGED <<run, tasks, intent>>
  BY DEF TornAppend
<1>2. CASE Observe(c) \/ Claim(c) \/ Heartbeat(c) \/ ReleaseLease(c)
  BY <1>2 DEF Observe, Claim, Heartbeat, ReleaseLease
<1>3. CASE Begin(c) \/ WriteFails(c) \/ LockFails(c)
  BY <1>1, <1>3 DEF Begin, WriteFails, LockFails, Return, Ended
<1>4. CASE Crash(c)
  <2>1. UNCHANGED <<run, tasks, intent>>
    BY <1>1, <1>4 DEF Crash, HalfDone
  <2>2. /\ alive' = alive \ {ProcessOf[c]}
        /\ pc' = [d \in Controllers |-> IF d \in {e \in Controllers :
                                                     ProcessOf[e] = ProcessOf[c]}
                                        THEN "idle" ELSE pc[d]]
    BY <1>4 DEF Crash, Ended
  <2> QED
    BY <2>1, <2>2
<1> QED
  BY <1>2, <1>3, <1>4 DEF OtherStep

LEMMA MaintenanceInvStoreStep ==
  ASSUME LockedInv, MaintenanceInv, NEW c \in Controllers, StoreStep(c)
  PROVE  MaintenanceInv'
<1> USE DEF LockedInv, MaintenanceInv
<1>1. /\ Step(c) /\ UNCHANGED <<runSchema, tasksSchema, migration>>
      /\ pc[c] = "inspect" => migration = None
  BY DEF StoreStep, Undisturbed
<1>2. /\ Running(c) /\ alive' = alive
      /\ pc[c] \in Critical \cup {"waiting"}
      /\ \A d \in Controllers \ {c} : pc'[d] = pc[d]
      /\ pc'[c] \notin MaintenanceSteps
      /\ pc'[c] = "verify" => pc[c] = "finalize"
      /\ pc'[c] = "validate" => pc[c] \in {"inspect", "verify"}
      /\ pc'[c] = "build" => pc[c] = "validate"
      /\ \/ UNCHANGED <<run, tasks, intent>>
         \/ pc[c] \in Applying \cup {"build"}
  BY <1>1, StepMoves
<1>3. \A d \in Controllers :
         /\ Running(d)' <=> Running(d)
         /\ pc'[d] \in MaintenanceSteps => d # c /\ pc'[d] = pc[d]
  BY <1>2
<1>4. ASSUME NEW d \in Controllers, d # c, Running(d), pc[d] \notin Outside
      PROVE  UNCHANGED <<run, tasks, intent>>
  <2>1. lock = d
    BY <1>4 DEF OneWriter
  <2>2. pc[c] \in Outside
    BY <1>2, <1>4, <2>1 DEF OneWriter
  <2> QED
    BY <1>2, <2>2
<1>5. migration # None => UNCHANGED <<run, tasks, intent>>
  <2>1. SUFFICES ASSUME migration # None, pc[c] \in Applying \cup {"build"} PROVE FALSE
    BY <1>2
  <2>2. intent = None
    BY <2>1 DEF MigrationHeld
  <2> QED
    BY <1>2, <2>1, <2>2 DEF IntentPresent, PastMigration
<1>6. MigrationHeld'
  <2>1. migration' # None =>
           intent' = None /\ migration' = [run |-> run', tasks |-> tasks']
    BY <1>1, <1>5 DEF MigrationHeld
  <2>2. ASSUME NEW d \in Controllers, Running(d)', pc'[d] \in Migrating
        PROVE  intent' = None /\ migration' = [run |-> run', tasks |-> tasks']
    <3>1. d # c /\ Running(d) /\ pc[d] \in Migrating
      BY <1>3, <2>2 DEF Migrating
    <3> QED
      BY <1>1, <1>4, <3>1 DEF MigrationHeld, Migrating
  <2> QED
    BY <2>1, <2>2 DEF MigrationHeld
<1>7. PastMigration'
  <2> SUFFICES ASSUME NEW d \in Controllers, Running(d),
                      pc'[d] \in {"verify", "validate", "build"}
               PROVE  migration = None
    BY <1>1, <1>3 DEF PastMigration
  <2>1. CASE d # c
    BY <1>2, <2>1 DEF PastMigration
  <2>2. CASE d = c /\ pc[c] = "finalize"
    BY <1>2, <2>2 DEF IntentPresent, MigrationHeld
  <2>3. CASE d = c /\ pc[c] # "finalize"
    BY <1>1, <1>2, <2>3 DEF PastMigration
  <2> QED
    BY <2>1, <2>2, <2>3
<1>8. SchemaWritten'
  BY <1>1, <1>3 DEF SchemaWritten
<1>9. RepairAtRest'
  <2> SUFFICES ASSUME NEW d \in Controllers, Running(d)',
                      pc'[d] \in {"repairRun", "repairTasks"}
               PROVE  intent' = None /\ migration' = None
    BY DEF RepairAtRest
  <2>1. d # c /\ Running(d) /\ pc[d] \in {"repairRun", "repairTasks"}
    BY <1>3
  <2> QED
    BY <1>1, <1>4, <2>1 DEF RepairAtRest
<1>10. DeadIdle'
  BY <1>2, <1>3 DEF DeadIdle
<1> QED
  BY <1>6, <1>7, <1>8, <1>9, <1>10

LEMMA MaintenanceInvOtherStep ==
  ASSUME LockedInv, MaintenanceInv, UNCHANGED maintenance,
         (\E c \in Controllers : OtherStep(c)) \/ LeaseExpires
  PROVE  MaintenanceInv'
<1> USE DEF LockedInv, MaintenanceInv, maintenance
<1>1. /\ UNCHANGED <<run, tasks, intent>>
      /\ \A d \in Controllers :
           /\ Running(d)' => Running(d) /\ (pc'[d] = pc[d]
                                            \/ pc'[d] \in {"idle", "waiting", "release"})
           /\ pc'[d] # "idle" => Running(d)'
  BY OtherMoves DEF LeaseExpires, control, files, DeadIdle
<1> QED
  BY <1>1 DEF MigrationHeld, PastMigration, SchemaWritten, RepairAtRest, DeadIdle, Migrating

(* A set of numbers up to a bound has a largest one.                       *)
LEMMA HasLargest ==
  ASSUME NEW N \in Nat, NEW T \in SUBSET (1 .. N), T # {}
  PROVE  \E i \in T : \A j \in T : j <= i
<1> DEFINE D == {N - i : i \in T}
<1>1. D \subseteq Nat /\ D # {}
  <2>1. \A i \in T : N - i \in Nat
    OBVIOUS
  <2>2. PICK i \in T : TRUE
    OBVIOUS
  <2>3. N - i \in D
    OBVIOUS
  <2> QED
    BY <2>1, <2>3
<1>2. PICK x \in D : \A y \in D : ~(<<y, x>> \in OpToRel(<, Nat))
  <2> HIDE DEF D
  <2> QED
    BY <1>1, NatLessThanWellFounded, WFMin
<1>3. \A y \in D : ~(y < x)
  <2> HIDE DEF D
  <2> QED
    BY <1>1, <1>2 DEF OpToRel
<1>4. PICK i \in T : x = N - i
  BY <1>2
<1>5. \A j \in T : j <= i
  <2> SUFFICES ASSUME NEW j \in T PROVE j <= i
    OBVIOUS
  <2>1. N - j \in D
    OBVIOUS
  <2>2. ~(N - j < N - i)
    BY <1>3, <1>4, <2>1
  <2>3. i \in Nat /\ j \in Nat
    OBVIOUS
  <2> HIDE DEF D
  <2> QED
    BY <2>2, <2>3
<1> QED
  BY <1>5

(* A replay of a log computes snapshots, whatever the log holds.           *)
LEMMA ReplayTyped ==
  ASSUME StoreTyped, log # << >>
  PROVE  ReplayedRun \in RunSnapshots /\ ReplayedTasks \in TaskSnapshots
<1>1. log \in Seq(Events) /\ Len(log) \in Nat \ {0} /\ log[Len(log)] \in Events
  BY DEF StoreTyped
<1>2. ASSUME NEW field
      PROVE  LastUpdate(field) = None
             \/ \E i \in 1 .. Len(log) : LastUpdate(field) = log[i][field]
  <2> DEFINE updated == {i \in 1 .. Len(log) : log[i][field] # None}
  <2>1. updated # {} => \E i \in updated : \A j \in updated : j <= i
    <3>1. updated \in SUBSET (1 .. Len(log)) /\ Len(log) \in Nat
      BY <1>1
    <3> HIDE DEF updated
    <3> QED
      BY <3>1, HasLargest
  <2>2. LastUpdate(field) =
          IF updated = {} THEN None
          ELSE log[CHOOSE i \in updated : \A j \in updated : j <= i][field]
    BY DEF LastUpdate
  <2>3. CASE updated = {}
    BY <2>2, <2>3
  <2>4. CASE updated # {}
    <3>1. (CHOOSE i \in updated : \A j \in updated : j <= i) \in updated
      BY <2>1, <2>4
    <3> QED
      BY <2>2, <2>4, <3>1
  <2> QED
    BY <2>3, <2>4
<1>3. \A i \in 1 .. Len(log) : log[i] \in Events
  BY <1>1
<1>4. LastUpdate("status") \in StatusUpdates
  <2>1. \A i \in 1 .. Len(log) : log[i]["status"] \in StatusUpdates
    BY <1>3 DEF Events
  <2> QED
    BY <1>2, <2>1
<1>5. LastUpdate("list") \in TaskUpdates
  <2>1. \A i \in 1 .. Len(log) : log[i]["list"] \in TaskUpdates
    BY <1>3 DEF Events
  <2> QED
    BY <1>2, <2>1
<1> QED
  BY <1>1, <1>4, <1>5 DEF ReplayedRun, ReplayedTasks, RunSnapshots, TaskSnapshots, Events

(* What a step of the operator's commands leaves of the store: the log and *)
(* the lease, the snapshots except for a repair, the intent except for a   *)
(* migration.                                                              *)
LEMMA MaintenanceEffects ==
  ASSUME LastingInv, NEW c \in Controllers, BeginMaintenance(c) \/ MaintenanceStep(c)
  PROVE  /\ UNCHANGED <<log, ending, leasing, seen, alive>>
         /\ Running(c)
         /\ goal' \in [Controllers -> Goals] /\ rolling' \in [Controllers -> BOOLEAN]
         /\ \E step \in MaintenanceSteps \cup {"waiting", "verify", "release"} :
              /\ pc' = [pc EXCEPT ![c] = step]
              /\ step = "verify" => intent = None
         /\ \/ lock' = lock /\ (pc[c] \notin Outside \/ pc'[c] = "waiting")
            \/ lock' = c /\ lock = None
         /\ \/ UNCHANGED <<run, tasks>>
            \/ /\ intent = None /\ migration = None /\ migration' = None
               /\ pc[c] \notin Outside
               /\ run' \in {run, ReplayedRun} /\ tasks' \in {tasks, ReplayedTasks}
         /\ \/ intent' = intent /\ superseded' = superseded
            \/ /\ intent' = None /\ pc[c] \notin Outside
               /\ superseded' = (superseded \/ HalfApplied)
<1> USE DEF At, Goto, files, control, maintenance, LastingInv, LockedInv, StoreTyped
<1>1. CASE BeginMaintenance(c)
  <2>1. PICK g \in {"repair", "migrate"} : goal' = [goal EXCEPT ![c] = g]
    BY <1>1 DEF BeginMaintenance
  <2> QED
    BY <1>1, <2>1 DEF BeginMaintenance
<1>2. CASE AcquireForMaintenance(c)
  BY <1>2 DEF AcquireForMaintenance
<1>3. CASE Repair(c) \/ GiveUp(c)
  BY <1>3 DEF Repair, GiveUp
<1>4. CASE RepairRun(c) \/ RepairTasks(c)
  <2>1. intent = None /\ migration = None
    BY <1>4 DEF RepairRun, RepairTasks, MaintenanceInv, RepairAtRest
  <2> QED
    BY <1>4, <2>1 DEF RepairRun, RepairTasks
<1>5. CASE Migrate(c)
  BY <1>5 DEF Migrate
<1>6. CASE InspectMigration(c)
  BY <1>6 DEF InspectMigration
<1>7. CASE MigrateRun(c) \/ MigrateTasks(c)
  <2>1. migration = [run |-> run, tasks |-> tasks]
    BY <1>7 DEF MigrateRun, MigrateTasks, MaintenanceInv, MigrationHeld, Migrating
  <2>2. migration.run = run /\ migration.tasks = tasks
    BY <2>1
  <2> QED
    BY <1>7, <2>2 DEF MigrateRun, MigrateTasks
<1>8. CASE FinalizeMigration(c)
  <2>1. intent = None
    BY <1>8 DEF FinalizeMigration, MaintenanceInv, MigrationHeld, Migrating
  <2> QED
    BY <1>8, <2>1 DEF FinalizeMigration
<1> QED
  BY <1>1, <1>2, <1>3, <1>4, <1>5, <1>6, <1>7, <1>8 DEF MaintenanceStep

LEMMA MaintenanceKeepsLocked ==
  ASSUME LastingInv, NEW c \in Controllers, BeginMaintenance(c) \/ MaintenanceStep(c)
  PROVE  LockedInv' /\ LogShape'
<1>1. /\ UNCHANGED <<log, ending, leasing, seen, alive>>
      /\ Running(c)
      /\ goal' \in [Controllers -> Goals] /\ rolling' \in [Controllers -> BOOLEAN]
  BY MaintenanceEffects
<1>2. PICK step \in MaintenanceSteps \cup {"waiting", "verify", "release"} :
         /\ pc' = [pc EXCEPT ![c] = step]
         /\ step = "verify" => intent = None
  BY MaintenanceEffects
<1>3. \/ lock' = lock /\ (pc[c] \notin Outside \/ pc'[c] = "waiting")
      \/ lock' = c /\ lock = None
  BY MaintenanceEffects
<1>4. pc'[c] = step /\ \A d \in Controllers \ {c} : pc'[d] = pc[d]
  BY <1>2 DEF LastingInv, LockedInv, StoreTyped
<1>5. run' \in {run, ReplayedRun} /\ tasks' \in {tasks, ReplayedTasks}
  BY MaintenanceEffects
<1>6. intent' = intent \/ (intent' = None /\ pc[c] \notin Outside)
  BY MaintenanceEffects
<1>7. StoreTyped'
  <2>1. run' \in RunSnapshots /\ tasks' \in TaskSnapshots
    BY <1>5, ReplayTyped DEF LastingInv, LockedInv, LogShape, StoreTyped
  <2> QED
    BY <1>1, <1>2, <1>3, <1>6, <2>1 DEF LastingInv, LockedInv, StoreTyped, leasing
<1>8. OneWriter'
  BY <1>1, <1>3, <1>4, NullAssumption DEF LastingInv, LockedInv, OneWriter
<1>9. IntentPresent'
  <2>1. CASE intent' = intent
    BY <1>1, <1>4, <2>1 DEF LastingInv, LockedInv, IntentPresent
  <2>2. CASE pc[c] \notin Outside
    <3>1. \A d \in Controllers \ {c} : Running(d) => pc[d] \in Outside
      BY <1>1, <2>2 DEF LastingInv, LockedInv, OneWriter
    <3> QED
      BY <1>1, <1>4, <3>1 DEF IntentPresent
  <2> QED
    BY <1>6, <2>1, <2>2
<1>10. LogShape'
  BY <1>1 DEF LastingInv, LogShape
<1> QED
  BY <1>7, <1>8, <1>9, <1>10 DEF LockedInv

(* A prepared transition that is not half applied can be forgotten: its    *)
(* snapshots and the log agree, as before it or as after it.               *)
LEMMA AgreesUnlessHalfApplied ==
  ASSUME StoreInv, ~HalfApplied
  PROVE  /\ run.rev = tasks.rev /\ log[Len(log)].rev = run.rev /\ ending = "clean"
         /\ run.by = log[Len(log)].by
         /\ IsLast(log, "status", run.status) /\ IsLast(log, "list", tasks.list)
<1> USE DEF StoreInv, ConsistentInv, CrashConsistent
<1>1. CASE intent = None
  BY <1>1 DEF ReplayInv
<1>2. CASE intent # None /\ run.rev = intent.base
  BY <1>2 DEF UntouchedInv
<1>3. CASE intent # None /\ run.rev # intent.base
  <2>1. run.rev = intent.next /\ AlreadyLogged
    BY <1>3 DEF HalfApplied
  <2>2. run = intent.run /\ tasks = intent.tasks
    BY <1>3, <2>1 DEF HistoryInv, IntentIsNext
  <2>3. log[Len(log)] = intent.event /\ ending = "clean"
    <3>1. Len(log) \in Nat
      BY DEF LockedInv, StoreTyped
    <3>2. intent.event.seq # Len(log) + 1
      BY <2>1, <3>1 DEF AlreadyLogged
    <3> QED
      BY <1>3, <3>2
  <2> QED
    BY <1>3, <2>1, <2>2, <2>3 DEF IntentShape, ReplayInv
<1> QED
  BY <1>1, <1>2, <1>3

LEMMA MaintenanceKeepsStore ==
  ASSUME LastingInv, StoreInv, NEW c \in Controllers,
         BeginMaintenance(c) \/ MaintenanceStep(c), ~superseded'
  PROVE  StoreInv' /\ UNCHANGED <<run, tasks>>
<1>1. UNCHANGED <<log, ending, seen, alive>> /\ Running(c)
  BY MaintenanceEffects
<1>2. PICK step \in MaintenanceSteps \cup {"waiting", "verify", "release"} :
         /\ pc' = [pc EXCEPT ![c] = step]
         /\ step = "verify" => intent = None
  BY MaintenanceEffects
<1>3. pc'[c] = step /\ \A d \in Controllers \ {c} : pc'[d] = pc[d]
  BY <1>2 DEF LastingInv, LockedInv, StoreTyped
<1>4. UNCHANGED <<run, tasks>>
  BY MaintenanceEffects, SnapshotsReplay
<1>5. intent' = intent \/ (intent' = None /\ pc[c] \notin Outside /\ ~HalfApplied)
  BY MaintenanceEffects
<1>6. LockedInv' /\ LogShape'
  BY MaintenanceKeepsLocked
<1>7. Trimmed'
  <2>1. pc'[c] \in Critical \ {"trim", "release"} => ending = "clean"
    BY <1>2, <1>3 DEF StoreInv, ConsistentInv, CrashConsistent
  <2> QED
    BY <1>1, <1>3, <2>1 DEF StoreInv, ConsistentInv, Trimmed
<1>8. CASE intent' = intent
  <2>1. IntentShape' /\ CrashConsistent'
    BY <1>1, <1>4, <1>8 DEF StoreInv, ConsistentInv, IntentShape, CrashConsistent,
                            AlreadyLogged
  <2>2. AppliedSoFar'
    <3>1. ASSUME NEW d \in Controllers, Running(d)
          PROVE  /\ pc'[d] \in {"writeTasks", "append", "finalize"} => run = intent.run
                 /\ pc'[d] \in {"append", "finalize"} => tasks = intent.tasks
                 /\ pc'[d] = "finalize" => LoggedLast
                 /\ pc'[d] \in {"verify", "validate", "build"} => intent = None
      <4>1. CASE d = c
        BY <1>2, <1>3, <4>1
      <4>2. CASE d # c
        BY <1>3, <3>1, <4>2 DEF StoreInv, ConsistentInv, AppliedSoFar
      <4> QED
        BY <4>1, <4>2
    <3> QED
      BY <1>1, <1>4, <1>8, <3>1 DEF AppliedSoFar, LoggedLast, AlreadyLogged
  <2>3. HistoryInv' /\ ReplayInv' /\ UntouchedInv'
    BY <1>1, <1>4, <1>8 DEF StoreInv, HistoryInv, LogNumbered, IntentIsNext, AuthorHasRead,
                            ReplayInv, UntouchedInv, AlreadyLogged
  <2> QED
    BY <1>4, <1>6, <1>7, <2>1, <2>2, <2>3 DEF StoreInv, ConsistentInv
<1>9. CASE intent' = None /\ pc[c] \notin Outside /\ ~HalfApplied
  <2>1. \A d \in Controllers \ {c} : Running(d) => pc[d] \in Outside
    BY <1>1, <1>9 DEF LastingInv, LockedInv, OneWriter
  <2>2. AppliedSoFar'
    BY <1>1, <1>2, <1>3, <1>9, <2>1 DEF AppliedSoFar
  <2>3. IntentShape' /\ CrashConsistent'
    BY <1>1, <1>4, <1>9, AgreesUnlessHalfApplied DEF IntentShape, CrashConsistent
  <2>4. HistoryInv' /\ ReplayInv' /\ UntouchedInv'
    <3>1. HistoryInv'
      BY <1>1, <1>9 DEF StoreInv, HistoryInv, LogNumbered, IntentIsNext, AuthorHasRead
    <3>2. ReplayInv' /\ UntouchedInv'
      BY <1>1, <1>4, <1>9, AgreesUnlessHalfApplied DEF ReplayInv, UntouchedInv
    <3> QED
      BY <3>1, <3>2
  <2> QED
    BY <1>4, <1>6, <1>7, <2>2, <2>3, <2>4 DEF StoreInv, ConsistentInv
<1> QED
  BY <1>5, <1>8, <1>9

LEMMA MaintenanceInvOwnStep ==
  ASSUME LastingInv, NEW c \in Controllers, BeginMaintenance(c) \/ MaintenanceStep(c)
  PROVE  MaintenanceInv'
<1>1. /\ alive' = alive /\ Running(c)
      /\ pc' \in [Controllers -> Critical \cup MaintenanceSteps \cup Outside]
      /\ \A d \in Controllers \ {c} : pc'[d] = pc[d]
  BY MaintenanceEffects DEF LastingInv, LockedInv, StoreTyped
<1>2. ASSUME pc[c] \notin Outside
      PROVE  \A d \in Controllers \ {c} : Running(d) => pc[d] \in Outside
  BY <1>1, <1>2 DEF LastingInv, LockedInv, OneWriter
<1>3. DeadIdle'
  BY <1>1 DEF LastingInv, MaintenanceInv, DeadIdle
<1> USE DEF At, Goto, files, control, maintenance, LastingInv, LockedInv, StoreTyped,
            MaintenanceInv, MigrationHeld, PastMigration, SchemaWritten, RepairAtRest,
            Migrating
<1>4. CASE BeginMaintenance(c) \/ AcquireForMaintenance(c)
  <2>1. /\ UNCHANGED maintenance /\ UNCHANGED <<run, tasks, intent>>
        /\ pc'[c] \in {"waiting", "repair", "migrate"}
    BY <1>4 DEF BeginMaintenance, AcquireForMaintenance
  <2> QED
    BY <1>1, <1>3, <2>1
<1>5. CASE Repair(c) \/ GiveUp(c)
  <2>1. /\ UNCHANGED maintenance /\ UNCHANGED <<run, tasks, intent>>
        /\ pc'[c] \in {"repairRun", "release"}
        /\ (pc'[c] = "repairRun" => intent = None /\ migration = None)
    BY <1>5 DEF Repair, GiveUp
  <2> QED
    BY <1>1, <1>3, <2>1
<1>6. CASE RepairRun(c) \/ RepairTasks(c)
  <2>1. /\ migration' = migration /\ intent' = intent /\ pc[c] \notin Outside
        /\ intent = None /\ migration = None
        /\ pc'[c] \in {"repairTasks", "release"}
    BY <1>6 DEF RepairRun, RepairTasks
  <2>2. \A d \in Controllers \ {c} : Running(d) => pc'[d] \in Outside
    BY <1>1, <1>2, <2>1
  <2> QED
    BY <1>1, <1>3, <2>1, <2>2
<1>7. CASE Migrate(c)
  <2>1. /\ migration' = [run |-> run, tasks |-> tasks] /\ intent' = None
        /\ UNCHANGED <<run, tasks>>
        /\ pc[c] \notin Outside /\ pc'[c] = "migrateRun"
    BY <1>7 DEF Migrate
  <2>2. \A d \in Controllers \ {c} : Running(d) => pc'[d] \in Outside
    BY <1>1, <1>2, <2>1
  <2> QED
    BY <1>1, <1>3, <2>1, <2>2
<1>8. CASE InspectMigration(c)
  <2>1. /\ UNCHANGED maintenance /\ UNCHANGED <<run, tasks, intent>>
        /\ migration # None /\ pc'[c] = "migrateRun"
    BY <1>8 DEF InspectMigration
  <2> QED
    BY <1>1, <1>3, <2>1
<1>9. CASE MigrateRun(c) \/ MigrateTasks(c)
  <2>1. /\ migration' = migration /\ pc[c] \in Migrating /\ intent' = intent
        /\ pc'[c] \in {"migrateTasks", "migrated"} /\ runSchema' = CurrentSchema
        /\ (pc'[c] = "migrated" => tasksSchema' = CurrentSchema)
    BY <1>9 DEF MigrateRun, MigrateTasks
  <2>2. \A d \in Controllers \ {c} : Running(d) => pc'[d] \in Outside
    BY <1>1, <1>2, <2>1
  <2>3. UNCHANGED <<run, tasks>>
    <3>1. migration = [run |-> run, tasks |-> tasks]
      BY <1>1, <2>1
    <3>2. migration.run = run /\ migration.tasks = tasks
      BY <3>1
    <3> QED
      BY <1>9, <3>2 DEF MigrateRun, MigrateTasks
  <2> QED
    BY <1>1, <1>3, <2>1, <2>2, <2>3
<1>10. CASE FinalizeMigration(c)
  <2>1. /\ migration' = None /\ pc[c] \notin Outside
        /\ UNCHANGED <<run, tasks, intent>>
        /\ pc'[c] \in {"verify", "release"}
    BY <1>10 DEF FinalizeMigration
  <2>2. \A d \in Controllers \ {c} : Running(d) => pc'[d] \in Outside
    BY <1>1, <1>2, <2>1
  <2> QED
    BY <1>1, <1>3, <2>1, <2>2
<1> QED
  BY <1>4, <1>5, <1>6, <1>7, <1>8, <1>9, <1>10 DEF MaintenanceStep

(* A step of the store and the commands together: of RunStore's operations *)
(* with nothing of the commands, or of a command, or damage to RUN.json.   *)
LEMMA MNextCases ==
  ASSUME [MNext]_allVars
  PROVE  \/ \E c \in Controllers : StoreStep(c)
         \/ \E c \in Controllers : BeginMaintenance(c) \/ MaintenanceStep(c)
         \/ /\ (\E c \in Controllers : OtherStep(c)) \/ LeaseExpires
            /\ UNCHANGED maintenance
         \/ UNCHANGED <<vars, runSchema, tasksSchema, migration, superseded>>
  BY DEF MNext, Damage, OtherStep, allVars, maintenance

LEMMA TogetherStep ==
  ASSUME MaySplitNewline = FALSE, TogetherInv, [MNext]_allVars
  PROVE  TogetherInv' /\ (superseded => superseded')
<1> USE DEF TogetherInv, LastingInv
<1>1. ASSUME NEW c \in Controllers, StoreStep(c)
      PROVE  TogetherInv' /\ (superseded => superseded')
  <2>1. Next /\ superseded' = superseded
    BY <1>1 DEF StoreStep, Next
  <2> QED
    BY <1>1, <2>1, LockedStep, LogShapeStep, StoreInvStep, MaintenanceInvStoreStep
<1>2. ASSUME NEW c \in Controllers, BeginMaintenance(c) \/ MaintenanceStep(c)
      PROVE  TogetherInv' /\ (superseded => superseded')
  <2>1. superseded => superseded'
    BY <1>2, MaintenanceEffects
  <2>2. LockedInv' /\ LogShape' /\ MaintenanceInv'
    BY <1>2, MaintenanceKeepsLocked, MaintenanceInvOwnStep
  <2>3. superseded' \/ StoreInv'
    BY <1>2, <2>1, MaintenanceKeepsStore
  <2> QED
    BY <2>1, <2>2, <2>3
<1>3. ASSUME (\E c \in Controllers : OtherStep(c)) \/ LeaseExpires,
             UNCHANGED maintenance
      PROVE  TogetherInv' /\ (superseded => superseded')
  <2>1. Next /\ superseded' = superseded
    BY <1>3 DEF OtherStep, Next, maintenance
  <2> QED
    BY <1>3, <2>1, LockedStep, LogShapeStep, StoreInvStep, MaintenanceInvOtherStep
<1>4. ASSUME UNCHANGED <<vars, runSchema, tasksSchema, migration, superseded>>
      PROVE  TogetherInv' /\ (superseded => superseded')
  <2>1. UNCHANGED vars /\ superseded' = superseded
    BY <1>4
  <2>2. LockedInv' /\ LogShape' /\ (superseded' \/ StoreInv')
    BY <2>1, LockedStep, LogShapeStep, StoreInvStep
  <2>3. MaintenanceInv'
    BY <1>4 DEF vars, files, control, MaintenanceInv, MigrationHeld, PastMigration,
                SchemaWritten, RepairAtRest, DeadIdle
  <2> QED
    BY <2>1, <2>2, <2>3
<1> QED
  BY <1>1, <1>2, <1>3, <1>4, MNextCases

LEMMA TogetherHold ==
  ASSUME MaySplitNewline = FALSE
  PROVE  MSpec => []TogetherInv
<1>1. TogetherInv /\ [MNext]_allVars => TogetherInv'
  BY TogetherStep
<1> QED
  BY <1>1, MaintenanceInit, PTL DEF MSpec

(* While somebody is inside the lock nobody else changes the snapshots.    *)
LEMMA OnlyOwnerWrites ==
  ASSUME LockedInv, NEW c \in Controllers, NEW d \in Controllers, d # c,
         Running(d), pc[d] \notin Outside, Step(c)
  PROVE  UNCHANGED <<run, tasks, intent>>
<1>1. lock = d
  BY DEF LockedInv, OneWriter
<1>2. Running(c) /\ (UNCHANGED <<run, tasks, intent>> \/ pc[c] \in Applying \cup {"build"})
  BY StepMoves
<1>3. pc[c] \in Outside
  BY <1>1, <1>2 DEF LockedInv, OneWriter
<1> QED
  BY <1>2, <1>3

(* A repair replaces the snapshots by themselves: repair_store only works  *)
(* on a store with nothing prepared, whose snapshots are the replayed      *)
(* ones until a migration has replaced a half-applied transition, and      *)
(* nobody else writes while it holds the lock.                             *)
THEOREM RepairsRestore ==
  ASSUME MaySplitNewline = FALSE
  PROVE  MSpec => RepairRestores
<1> DEFINE Kept == \A c \in Controllers :
                      pc[c] \in {"repairRun", "repairTasks"} /\ ~superseded
                          => UNCHANGED <<run, tasks>>
<1>1. ASSUME TogetherInv, MNext PROVE Kept
  <2> SUFFICES ASSUME NEW d \in Controllers, pc[d] \in {"repairRun", "repairTasks"},
                      ~superseded
               PROVE  UNCHANGED <<run, tasks>>
    OBVIOUS
  <2> USE DEF TogetherInv, LastingInv
  <2>1. Running(d)
    BY <1>1 DEF MaintenanceInv, DeadIdle
  <2>2. ASSUME NEW c \in Controllers, StoreStep(c) PROVE UNCHANGED <<run, tasks>>
    <3>1. Step(c)
      BY <2>2 DEF StoreStep
    <3>2. pc[c] \in Critical \cup {"waiting"}
      BY <1>1, <3>1, StepMoves
    <3>3. d # c
      BY <3>2
    <3> QED
      BY <1>1, <2>1, <3>1, <3>3, OnlyOwnerWrites
  <2>3. ASSUME NEW c \in Controllers, BeginMaintenance(c) \/ MaintenanceStep(c)
        PROVE  UNCHANGED <<run, tasks>>
    BY <1>1, <2>3, MaintenanceEffects, SnapshotsReplay
  <2>4. ASSUME (\E c \in Controllers : OtherStep(c)) \/ LeaseExpires
        PROVE  UNCHANGED <<run, tasks>>
    BY <1>1, <2>4, OtherMoves DEF LeaseExpires, files, MaintenanceInv
  <2>5. ASSUME UNCHANGED vars PROVE UNCHANGED <<run, tasks>>
    BY <2>5 DEF vars, files
  <2> QED
    BY <1>1, <2>2, <2>3, <2>4, <2>5, MNextCases
<1>2. TogetherInv /\ [MNext]_allVars => [Kept]_allVars
  BY <1>1
<1> QED
  BY <1>2, TogetherHold, PTL DEF MSpec, RepairRestores

(* A prepared migration leaves the disk only when both snapshots have the  *)
(* current schema and still hold what it captured, and with a store that   *)
(* verify() accepts unless it has replaced a half-applied transition:      *)
(* repair.py's migrate_store, and store.py's _apply_migration_intent when  *)
(* a recovery takes it over.                                               *)
THEOREM MigrationsFinish ==
  ASSUME MaySplitNewline = FALSE
  PROVE  MSpec => MigrationFinishes
<1> DEFINE Finished == migration # None /\ migration' = None =>
                          /\ {runSchema, tasksSchema} = {CurrentSchema}
                          /\ run = migration.run /\ tasks = migration.tasks
                          /\ superseded \/ Verified'
<1>1. ASSUME TogetherInv, MNext, migration # None, migration' = None
      PROVE  Finished
  <2> USE DEF TogetherInv, LastingInv
  <2>1. PICK c \in Controllers : FinalizeMigration(c)
    <3>1. PICK c \in Controllers : BeginMaintenance(c) \/ MaintenanceStep(c)
      BY <1>1, MNextCases DEF StoreStep, maintenance
    <3>2. FinalizeMigration(c)
      <4>1. ~AcquireForMaintenance(c) /\ ~Repair(c) /\ ~RepairRun(c) /\ ~RepairTasks(c)
        BY <1>1 DEF AcquireForMaintenance, Repair, RepairRun, RepairTasks, maintenance
      <4>2. ~InspectMigration(c) /\ ~MigrateRun(c) /\ ~MigrateTasks(c) /\ ~GiveUp(c)
        BY <1>1 DEF InspectMigration, MigrateRun, MigrateTasks, GiveUp, maintenance
      <4>3. ~BeginMaintenance(c)
        BY <1>1 DEF BeginMaintenance, maintenance
      <4>4. ~Migrate(c)
        <5>1. ASSUME Migrate(c) PROVE FALSE
          <6>1. migration' = [run |-> run, tasks |-> tasks]
            BY <5>1 DEF Migrate
          <6>2. intent' = None /\ Running(c)' /\ pc'[c] \in Migrating
            BY <5>1, <1>1 DEF Migrate, At, Goto, Migrating, LockedInv, StoreTyped
          <6>3. MaintenanceInv'
            BY <1>1, <3>1, MaintenanceInvOwnStep
          <6> QED
            BY <1>1, <6>1, <5>1 DEF Migrate, MaintenanceInv, MigrationHeld
        <5> QED
          BY <5>1
      <4> QED
        BY <3>1, <4>1, <4>2, <4>3, <4>4 DEF MaintenanceStep
    <3> QED
      BY <3>2
  <2>2. Running(c) /\ pc[c] = "migrated" /\ UNCHANGED <<run, tasks, log, ending>>
    BY <2>1 DEF FinalizeMigration, At, files
  <2>3. runSchema = CurrentSchema /\ tasksSchema = CurrentSchema /\ intent = None
    BY <1>1, <2>2 DEF MaintenanceInv, SchemaWritten, MigrationHeld, Migrating
  <2>4. run = migration.run /\ tasks = migration.tasks
    <3>1. migration = [run |-> run, tasks |-> tasks]
      BY <1>1 DEF MaintenanceInv, MigrationHeld
    <3> QED
      BY <3>1
  <2>5. superseded \/ Verified
    BY <1>1, <2>3 DEF StoreInv, ConsistentInv, CrashConsistent, LogShape, Verified, Readable
  <2> QED
    BY <2>2, <2>3, <2>4, <2>5 DEF Verified, Readable
<1>2. TogetherInv /\ [MNext]_allVars => [Finished]_allVars
  BY <1>1
<1> QED
  BY <1>2, TogetherHold, PTL DEF MSpec, MigrationFinishes

(* The store with the commands implements RunHistory, too, up to the       *)
(* moment when a migration replaces a half-applied transition: a repair    *)
(* and a migration neither commit nor roll back anything, whatever crashes *)
(* between their steps.                                                    *)
THEOREM MaintainedStoreImplementsHistory ==
  ASSUME MaySplitNewline = FALSE
  PROVE  MSpec => MaintainsHistory
<1> DEFINE Kept == superseded' \/ Abstract!Next \/ UNCHANGED <<History, seen>>
<1>1. MInit => TogetherInv
  BY MaintenanceInit
<1>2. TogetherInv /\ [MNext]_allVars => TogetherInv'
  BY TogetherStep
<1>3. MInit => Abstract!Init
  BY InitialHistory DEF MInit
<1>4. ASSUME TogetherInv, TogetherInv', [MNext]_allVars PROVE Kept
  <2> SUFFICES ASSUME ~superseded' PROVE Abstract!Next \/ UNCHANGED <<History, seen>>
    OBVIOUS
  <2>0. StoreInv /\ StoreInv' /\ LastingInv
    BY <1>4, TogetherStep DEF TogetherInv
  <2>1. ASSUME [Next]_vars PROVE Abstract!Next \/ UNCHANGED <<History, seen>>
    BY <2>0, <2>1, StepRefines DEF StoreInv
  <2>2. ASSUME NEW c \in Controllers, BeginMaintenance(c) \/ MaintenanceStep(c)
        PROVE  UNCHANGED <<History, seen>>
    <3>1. UNCHANGED <<run, log, seen>>
      BY <2>0, <2>2, MaintenanceEffects, MaintenanceKeepsStore
    <3>2. CASE intent' = intent
      BY <3>1, <3>2, SameHistory
    <3>3. CASE intent' = None /\ ~HalfApplied
      <4>1. run.rev = Len(log) - 1 /\ Len(log) \in Nat
        <5>1. run'.rev = Len(log') - 1 /\ Len(log') \in Nat
          BY <2>0, <3>3, RevisionOfLog DEF StoreInv, LockedInv, ConsistentInv, CrashConsistent,
             HistoryInv, LogNumbered, StoreTyped, LogShape
        <5> QED
          BY <3>1, <5>1
      <4>2. \A i \in 1 .. run.rev : i < Len(log)
        BY <4>1
      <4> QED
        BY <3>1, <4>2, SameHistory
    <3> QED
      BY <2>0, <2>2, <3>2, <3>3, MaintenanceEffects
  <2>3. [Next]_vars \/ \E c \in Controllers : BeginMaintenance(c) \/ MaintenanceStep(c)
    BY <1>4, MNextCases DEF StoreStep, OtherStep, Next
  <2> QED
    BY <2>1, <2>2, <2>3
<1> HIDE DEF TogetherInv
<1>5. TogetherInv /\ TogetherInv' /\ [MNext]_allVars => [Kept]_allVars
  BY <1>4
<1> HIDE DEF Kept
<1>6. MSpec => Abstract!Init /\ [][Kept]_allVars
  BY <1>1, <1>2, <1>3, <1>5, PTL DEF MSpec
<1> QED
  BY <1>6 DEF MaintainsHistory, Kept

(* Whatever the commands interleave with, the log can be read; and until a *)
(* migration has replaced a half-applied transition the store is in a      *)
(* state that _recover_locked completes and, with nothing prepared, its    *)
(* snapshots are those a replay of the log computes.                       *)
THEOREM MaintainedStoreIsConsistent ==
  ASSUME MaySplitNewline = FALSE
  PROVE  MSpec => []( /\ LogStaysReadable
                      /\ superseded \/ (CrashConsistent /\ SnapshotsReplayLog) )
<1>1. TogetherInv => /\ LogStaysReadable
                     /\ superseded \/ (CrashConsistent /\ SnapshotsReplayLog)
  BY SnapshotsReplay
  DEF TogetherInv, LastingInv, SnapshotsReplayLog, LogStaysReadable, StoreInv,
      ConsistentInv, LogShape
<1> QED
  BY <1>1, TogetherHold, PTL

(* Every state of the store and of what the commands add to it is well     *)
(* typed, whatever a migration has replaced: only the schema numbers and   *)
(* the two flags need an induction of their own.                           *)
THEOREM MaintenanceTypeCorrect ==
  ASSUME MaySplitNewline = FALSE
  PROVE  MSpec => []MTypeOK
<1> DEFINE Typed == /\ {runSchema, tasksSchema} \subseteq {InitialSchema, CurrentSchema}
                    /\ damaged \in BOOLEAN /\ superseded \in BOOLEAN
<1>1. MInit => Typed
  BY DEF MInit
<1>2. ASSUME Typed, [MNext]_allVars PROVE Typed'
  <2>1. ASSUME NEW c \in Controllers, StoreStep(c) PROVE Typed'
    BY <1>2, <2>1 DEF StoreStep
  <2>2. ASSUME NEW c \in Controllers, BeginMaintenance(c) \/ MaintenanceStep(c)
        PROVE  Typed'
    <3>1. CASE Migrate(c)
      BY <1>2, <3>1, Zenon DEF Migrate
    <3>2. CASE ~Migrate(c)
      BY <1>2, <2>2, <3>2
      DEF BeginMaintenance, MaintenanceStep, AcquireForMaintenance, Repair, RepairRun,
          RepairTasks, InspectMigration, MigrateRun, MigrateTasks,
          FinalizeMigration, GiveUp, maintenance
    <3> QED
      BY <3>1, <3>2
  <2>3. ASSUME UNCHANGED maintenance \/ Damage \/ UNCHANGED allVars PROVE Typed'
    BY <1>2, <2>3 DEF Damage, maintenance, allVars
  <2> QED
    BY <1>2, <2>1, <2>2, <2>3 DEF MNext
<1>3. TogetherInv /\ Typed => MTypeOK
  <2> SUFFICES ASSUME LastingInv, Typed PROVE MTypeOK
    BY DEF TogetherInv
  <2>1. /\ run \in RunSnapshots /\ tasks \in TaskSnapshots
        /\ intent \in Intents \cup {None}
        /\ pc \in [Controllers -> Critical \cup MaintenanceSteps \cup {"idle", "waiting"}]
    BY DEF LastingInv, LockedInv, StoreTyped
  <2>2. migration = None \/ migration \in [run : RunSnapshots, tasks : TaskSnapshots]
    BY <2>1 DEF LastingInv, MaintenanceInv, MigrationHeld
  <2> QED
    BY <2>1, <2>2 DEF MTypeOK
<1> HIDE DEF Typed
<1> QED
  BY <1>1, <1>2, <1>3, TogetherHold, PTL DEF MSpec
=============================================================================
