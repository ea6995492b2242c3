---------------------------- MODULE ProgressGate ----------------------------
(***************************************************************************)
(* When a new worker job may be dispatched, by what the finished jobs have *)
(* brought: scripts/check_job_progress_gate.py.  A history gives for every *)
(* job that counts (accepted, ready for review or implemented) its         *)
(* progress block and whether it closed an acceptance ID; a proposed task  *)
(* is in no job directory, so all of them count.                           *)
(***************************************************************************)
EXTENDS Naturals, FiniteSets, FiniteSetsExt

CONSTANTS
    Subsystems,
    PriorityLock        \* a root-cause priority lock is in force

(* What a task declares of itself in its progress block.                   *)
Delivery == {"implementation", "numerical_test", "backend_test"}
MetadataTypes == {"audit", "metadata", "docs", "visualization", "planning"}
MetadataClasses == {"none", "schema", "construction"}
ValidationClasses ==
    MetadataClasses \cup {"identity", "convergence", "backend_matrix", "mpi_device"}

Block ==
    [type : Delivery \cup MetadataTypes, subsystem : Subsystems,
     class : ValidationClasses, executable : BOOLEAN, metadataOnly : BOOLEAN,
     exception : BOOLEAN,    \* a documented exception
     targets : BOOLEAN,      \* names an acceptance ID as its target ...
     backed : BOOLEAN,       \* ... and the task it unblocks, or its evidence
     unlocks : BOOLEAN,      \* unlocks_next is concrete
     wellFormed : BOOLEAN]   \* all fields there, none vague or unknown

MetadataLike(block) == block.metadataOnly \/ block.type \in MetadataTypes

(* progress_from_block                                                     *)
Consistent(block) ==
    /\ block.wellFormed
    /\ block.targets => block.backed
    /\ MetadataLike(block) => block.unlocks
    /\ ~(block.metadataOnly /\ block.type \in Delivery)
    /\ block.type = "implementation" => block.executable /\ block.class # "none"
    /\ block.type = "numerical_test" => block.class \in {"identity", "convergence"}
    /\ block.type = "backend_test" => block.class \in {"backend_matrix", "mpi_device"}
    /\ MetadataLike(block) /\ ~block.exception => block.class \in MetadataClasses

(* What the gate takes a task for; traced: its Upstream Trace is complete. *)
Task ==
    {[subsystem |-> block.subsystem, metadata |-> MetadataLike(block),
      valid |-> Consistent(block), traced |-> traced] :
        block \in Block, traced \in BOOLEAN}

(* validate_upstream_trace                                                 *)
TracedUpstream(task) == PriorityLock => task.traced

(* no_acceptance_delta_streak and metadata_streak walk back from the       *)
(* latest job; the second passes over other subsystems.                    *)
(* Faulty variant: a job of another subsystem ends the walk.               *)
FaultyNoDeltaStreak(history) ==
    {id \in DOMAIN history : \A later \in DOMAIN history :
        later >= id => ~history[later].closed /\
            history[later].task.subsystem = history[Max(DOMAIN history)].task.subsystem}
NoDeltaStreak(history) ==
    {id \in DOMAIN history : \A later \in DOMAIN history :
        later >= id => ~history[later].closed}

InSubsystem(history, subsystem) ==
    {id \in DOMAIN history : history[id].task.subsystem = subsystem}

MetadataStreak(history, subsystem) ==
    {id \in InSubsystem(history, subsystem) :
        \A later \in InSubsystem(history, subsystem) :
            later >= id => history[later].task.metadata}

GatePasses(history, task) ==
    /\ task.valid
    /\ TracedUpstream(task)
    /\ Cardinality(NoDeltaStreak(history)) < 2
    /\ task.metadata => Cardinality(MetadataStreak(history, task.subsystem)) < 2
----------------------------------------------------------------------------
Histories(ids) ==
    UNION {[counted -> [task : Task, closed : BOOLEAN]] : counted \in SUBSET ids}

LastTwo(ids) == {id \in ids : Cardinality({later \in ids : later > id}) < 2}

(* The debt is that of the last two jobs, wherever they were spent: no     *)
(* change of subsystem and no gap in the numbers resets it, for a metadata *)
(* task neither do other subsystems' jobs in between, and which task is    *)
(* one its type decides alone, in every block the gate takes.              *)
DebtIsOfTheLastTwo(ids) ==
    /\ \A block \in Block :
        Consistent(block) => (MetadataLike(block) <=> block.type \notin Delivery)
    /\ \A history \in Histories(ids), task \in Task :
        LET latest == LastTwo(DOMAIN history)
            same == LastTwo(InSubsystem(history, task.subsystem))
            spent == Cardinality(latest) = 2 /\ \A id \in latest : ~history[id].closed
            repeated == Cardinality(same) = 2
                        /\ \A id \in same : history[id].task.metadata
        IN  task.valid /\ TracedUpstream(task) =>
                (GatePasses(history, task) <=> ~spent /\ ~(task.metadata /\ repeated))
=============================================================================
