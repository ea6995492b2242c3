--------------------------- MODULE RunMaintenance ---------------------------
(***************************************************************************)
(* RunStore together with the operator's commands `aiflow state repair`    *)
(* and `aiflow state migrate`, which take the transaction lock but need no *)
(* lease, and with damage to RUN.json that makes the commands necessary.   *)
(*                                                                         *)
(* TRANSACTION.json holds a prepared transition (intent) or a prepared     *)
(* migration (migration), never both: writing one replaces the other.      *)
(*                                                                         *)
(* superseded is a history variable, read by no guard: a migration has     *)
(* replaced a transition that was half applied.                            *)
(***************************************************************************)
EXTENDS RunStore

CONSTANTS
    InitialSchema,       \* schema_version of the snapshots at the start
    CurrentSchema        \* schema_version this code writes

ASSUME SchemaAssumption ==
    InitialSchema \in Nat /\ CurrentSchema \in Nat

VARIABLES
    runSchema,     \* schema_version of RUN.json
    tasksSchema,   \* schema_version of TASKS.json
    migration,     \* the snapshots of a prepared migration, or None
    damaged,       \* RUN.json's checksum does not match any more
    superseded     \* a half-applied transition has been replaced (history)

maintenance == <<runSchema, tasksSchema, migration, damaged, superseded>>
allVars == <<vars, maintenance>>

MInit ==
    /\ Init
    /\ runSchema = InitialSchema
    /\ tasksSchema = InitialSchema
    /\ migration = None
    /\ damaged = FALSE
    /\ superseded = FALSE

(* c's next step reads RUN.json, or finds a migration where RunStore looks *)
(* for a transition: those steps of RunStore are not taken as they stand.  *)
ReadsRun(c) ==
    pc[c] \in {"build", "verify"} \/ (pc[c] = "inspect" /\ intent # None)
Undisturbed(c) ==
    ~(damaged /\ ReadsRun(c)) /\ ~(pc[c] = "inspect" /\ migration # None)

StoreStep(c) ==
    /\ Undisturbed(c)
    /\ Step(c)
    /\ damaged' = (damaged /\ pc[c] # "writeRun")
    /\ UNCHANGED <<runSchema, tasksSchema, migration, superseded>>
----------------------------------------------------------------------------
BeginMaintenance(c) ==
    /\ At(c, "idle")
    /\ \E g \in {"repair", "migrate"} : goal' = [goal EXCEPT ![c] = g]
    /\ Goto(c, "waiting")
    /\ UNCHANGED <<files, lock, leasing, rolling, seen, alive, maintenance>>

AcquireForMaintenance(c) ==
    /\ At(c, "waiting")
    /\ goal[c] \in {"repair", "migrate"}
    /\ lock = None
    /\ lock' = c
    /\ Goto(c, goal[c])
    /\ UNCHANGED <<files, leasing, goal, rolling, seen, alive, maintenance>>
----------------------------------------------------------------------------
(* Faulty variant: a prepared transition does not stop a repair.           *)
RepairWhilePrepared(c) ==
    /\ At(c, "repair")
    /\ migration = None /\ Readable
    /\ Goto(c, "repairRun")
    /\ UNCHANGED <<files, lock, leasing, goal, rolling, seen, alive, maintenance>>

(* repair_store: refused while anything is prepared or the log cannot be   *)
(* read; otherwise both snapshots are replaced by the replayed ones, and   *)
(* verify() changes nothing any more.                                      *)
Repair(c) ==
    /\ At(c, "repair")
    /\ intent = None /\ migration = None /\ Readable
    /\ Goto(c, "repairRun")
    /\ UNCHANGED <<files, lock, leasing, goal, rolling, seen, alive, maintenance>>

RepairRun(c) ==
    /\ At(c, "repairRun")
    /\ run' = ReplayedRun
    /\ runSchema' = CurrentSchema
    /\ damaged' = FALSE
    /\ Goto(c, "repairTasks")
    /\ UNCHANGED <<tasks, log, ending, intent, lock, leasing, goal, rolling, seen,
                   alive, tasksSchema, migration, superseded>>

RepairTasks(c) ==
    /\ At(c, "repairTasks")
    /\ tasks' = ReplayedTasks
    /\ tasksSchema' = CurrentSchema
    /\ Goto(c, "release")
    /\ UNCHANGED <<run, log, ending, intent, lock, leasing, goal, rolling, seen,
                   alive, runSchema, migration, damaged, superseded>>
----------------------------------------------------------------------------
(* A prepared transition is in RUN.json already, and not in the log.       *)
HalfApplied == intent # None /\ run.rev = intent.next /\ ~AlreadyLogged

(* migrate_store: the migrated snapshots are written to TRANSACTION.json,  *)
(* over whatever it holds, a prepared transition included.                 *)
Migrate(c) ==
    /\ At(c, "migrate")
    /\ ~damaged
    /\ runSchema = tasksSchema /\ runSchema # CurrentSchema
    /\ migration' = [run |-> run, tasks |-> tasks]
    /\ intent' = None
    /\ superseded' = (superseded \/ HalfApplied)
    /\ Goto(c, "migrateRun")
    /\ UNCHANGED <<run, tasks, log, ending, lock, leasing, goal, rolling, seen, alive,
                   runSchema, tasksSchema, damaged>>

(* _recover_locked finds a prepared migration and applies it.              *)
InspectMigration(c) ==
    /\ At(c, "inspect")
    /\ migration # None
    /\ rolling' = [rolling EXCEPT ![c] = TRUE]
    /\ Goto(c, "migrateRun")
    /\ UNCHANGED <<files, lock, leasing, goal, seen, alive, maintenance>>

(* Faulty variant: TASKS.json is not migrated.                             *)
MigrateRunOnly(c) ==
    /\ At(c, "migrateRun")
    /\ run' = migration.run
    /\ runSchema' = CurrentSchema
    /\ damaged' = FALSE
    /\ Goto(c, "migrated")
    /\ UNCHANGED <<tasks, log, ending, intent, lock, leasing, goal, rolling, seen,
                   alive, tasksSchema, migration, superseded>>

(* _apply_migration_intent, after which verify() reads the snapshots.      *)
MigrateRun(c) ==
    /\ At(c, "migrateRun")
    /\ run' = migration.run
    /\ runSchema' = CurrentSchema
    /\ damaged' = FALSE
    /\ Goto(c, "migrateTasks")
    /\ UNCHANGED <<tasks, log, ending, intent, lock, leasing, goal, rolling, seen,
                   alive, tasksSchema, migration, superseded>>

MigrateTasks(c) ==
    /\ At(c, "migrateTasks")
    /\ tasks' = migration.tasks
    /\ tasksSchema' = CurrentSchema
    /\ Goto(c, "migrated")
    /\ UNCHANGED <<run, log, ending, intent, lock, leasing, goal, rolling, seen,
                   alive, runSchema, migration, damaged, superseded>>

FinalizeMigration(c) ==
    /\ At(c, "migrated")
    /\ migration' = None
    /\ Goto(c, IF rolling[c] THEN "verify" ELSE "release")
    /\ UNCHANGED <<files, lock, leasing, goal, rolling, seen, alive,
                   runSchema, tasksSchema, damaged, superseded>>
----------------------------------------------------------------------------
MaintenanceSteps == {"repair", "repairRun", "repairTasks",
                     "migrate", "migrateRun", "migrateTasks", "migrated"}

(* The command is refused, has nothing to do, or a write raises.           *)
GiveUp(c) ==
    /\ Running(c)
    /\ pc[c] \in MaintenanceSteps
    /\ Goto(c, "release")
    /\ UNCHANGED <<files, lock, leasing, goal, rolling, seen, alive, maintenance>>

(* RUN.json is edited or rots: its content cannot be trusted or read.      *)
Damage ==
    /\ ~damaged
    /\ damaged' = TRUE
    /\ UNCHANGED <<vars, runSchema, tasksSchema, migration, superseded>>

MaintenanceStep(c) ==
    \/ AcquireForMaintenance(c)
    \/ Repair(c) \/ RepairRun(c) \/ RepairTasks(c)
    \/ Migrate(c) \/ InspectMigration(c) \/ MigrateRun(c) \/ MigrateTasks(c)
    \/ FinalizeMigration(c)
    \/ GiveUp(c)

MNext ==
    \/ \E c \in Controllers :
           \/ StoreStep(c)
           \/ BeginMaintenance(c) \/ MaintenanceStep(c)
           \/ /\ \/ Observe(c) /\ ~damaged
                 \/ Claim(c) /\ ~damaged
                 \/ Begin(c) \/ Heartbeat(c) \/ ReleaseLease(c)
                 \/ WriteFails(c) \/ LockFails(c) \/ Crash(c)
              /\ UNCHANGED maintenance
    \/ LeaseExpires /\ UNCHANGED maintenance
    \/ Damage

MSpec == MInit /\ [][MNext]_allVars
----------------------------------------------------------------------------
MTypeOK ==
    /\ run \in RunSnapshots /\ tasks \in TaskSnapshots
    /\ intent \in Intents \cup {None}
    /\ pc \in [Controllers -> Critical \cup MaintenanceSteps \cup {"idle", "waiting"}]
    /\ {runSchema, tasksSchema} \subseteq {InitialSchema, CurrentSchema}
    /\ migration = None \/ migration \in [run : RunSnapshots, tasks : TaskSnapshots]
    /\ damaged \in BOOLEAN
    /\ superseded \in BOOLEAN

(* A repair puts back exactly the snapshots that were committed, whether   *)
(* RUN.json was damaged or not, unless a migration has replaced a          *)
(* half-applied transition: `run` keeps the content that damage made       *)
(* unreadable, and no repair step changes it.                              *)
RepairRestores ==
    [][\A c \in Controllers :
           pc[c] \in {"repairRun", "repairTasks"} /\ ~superseded
               => UNCHANGED <<run, tasks>>]_allVars

(* A migration leaves the disk only with both snapshots at the current     *)
(* schema and holding what it found there, whatever crashed, was repaired  *)
(* or was prepared in between; and with a store that verify() accepts,     *)
(* unless a migration has replaced a half-applied transition.              *)
MigrationFinishes ==
    [][migration # None /\ migration' = None =>
          /\ {runSchema, tasksSchema} = {CurrentSchema}
          /\ run = migration.run /\ tasks = migration.tasks
          /\ superseded \/ Verified']_allVars

(* The documentation's claim, which migrate_store breaks: a migration is   *)
(* transactional, so that a store it has finished with is one that         *)
(* verify() accepts, whatever was prepared when it was asked for.          *)
MigrationCompletes ==
    [][migration # None /\ migration' = None => Verified']_allVars

(* With repairs, damage and migrations the store still implements          *)
(* RunHistory, up to the moment when a migration replaces a transition     *)
(* that is half applied.                                                   *)
MaintainsHistory ==
    /\ Abstract!Init
    /\ [][superseded' \/ Abstract!Next \/ UNCHANGED <<History, seen>>]_allVars
=============================================================================
