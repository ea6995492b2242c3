---------------------------- MODULE DirectoryLock ----------------------------
(***************************************************************************)
(* The directory locks, file operation by file operation: mkdir takes the  *)
(* lock, OWNER.json inside names the owner, unlink and rmdir release it,   *)
(* and a waiter that reads a dead owner breaks the lock the same way.      *)
(*                                                                         *)
(* Two implementations share the protocol: owned_directory_lock            *)
(* (state/locks.py), for the lease guard and the checkout mutation guard,  *)
(* which also breaks a directory left without an owner file for longer     *)
(* than a grace period; and RunStore._lock (state/store.py), which never   *)
(* does.  `kind` says which one a behaviour is about.                      *)
(***************************************************************************)
EXTENDS Naturals, FiniteSets

CONSTANTS
    Processes,         \* those that use the lock
    Machines,          \* (host_id, boot_id) pairs
    MachineOf,         \* the machine of a process
    Kinds,             \* the implementations that are looked at
    NoOwner            \* OWNER.json does not exist

ASSUME LockAssumption ==
    /\ MachineOf \in [Processes -> Machines]
    /\ Kinds \subseteq {"owned", "transaction"}
    /\ NoOwner \notin Processes

VARIABLES
    kind,       \* "owned" or "transaction"
    present,    \* the lock directory exists
    owner,      \* whom OWNER.json names
    temps,      \* the processes whose temporary file is in the directory
    aged,       \* the directory's mtime is older than the grace period
    pc,         \* the step each process is at
    alive,      \* the processes that have not died
    stolen      \* history: a waiter has broken the lock of a live process

directory == <<present, owner, temps, aged>>
lockVars == <<kind, directory, pc, alive, stolen>>

At(p, step) == p \in alive /\ pc[p] = step
Goto(p, step) == pc' = [pc EXCEPT ![p] = step]
KnownDead(p, q) == MachineOf[p] = MachineOf[q] /\ q \notin alive

Creating == {"created", "ensured", "temporary"}
Breaking == {"breakUnlink", "breakRmdir"}
Holding == {"critical", "unlink", "rmdir"}

LockInit ==
    /\ kind \in Kinds
    /\ present = FALSE
    /\ owner = NoOwner
    /\ temps = {}
    /\ aged = FALSE
    /\ pc = [p \in Processes |-> "idle"]
    /\ alive = Processes
    /\ stolen = FALSE
----------------------------------------------------------------------------
Begin(p) ==
    /\ At(p, "idle")
    /\ Goto(p, "mkdir")
    /\ UNCHANGED <<kind, directory, alive, stolen>>

(* Faulty variant: a directory that is not signed yet counts as free.      *)
MakeDirectoryUnlessSigned(p) ==
    /\ At(p, "mkdir")
    /\ IF present /\ owner # NoOwner
       THEN Goto(p, "inspect") /\ UNCHANGED directory
       ELSE /\ present' = TRUE
            /\ aged' = FALSE
            /\ Goto(p, "created")
            /\ UNCHANGED <<owner, temps>>
    /\ UNCHANGED <<kind, alive, stolen>>

MakeDirectory(p) ==
    /\ At(p, "mkdir")
    /\ IF present
       THEN Goto(p, "inspect") /\ UNCHANGED directory
       ELSE /\ present' = TRUE
            /\ aged' = FALSE
            /\ Goto(p, "created")
            /\ UNCHANGED <<owner, temps>>
    /\ UNCHANGED <<kind, alive, stolen>>

(* atomic_write_json begins with parent.mkdir(exist_ok=True): a directory  *)
(* that has been broken in the meantime is silently made again.            *)
EnsureDirectory(p) ==
    /\ At(p, "created")
    /\ present' = TRUE
    /\ aged' = (aged /\ present)
    /\ Goto(p, "ensured")
    /\ UNCHANGED <<kind, owner, temps, alive, stolen>>

(* mkstemp; without the directory it raises, and nothing is released.      *)
MakeTemporary(p) ==
    /\ At(p, "ensured")
    /\ IF present
       THEN temps' = temps \cup {p} /\ aged' = FALSE /\ Goto(p, "temporary")
       ELSE Goto(p, "idle") /\ UNCHANGED <<temps, aged>>
    /\ UNCHANGED <<kind, present, owner, alive, stolen>>

(* os.replace: the owner file appears, and the lock is held.               *)
PublishOwner(p) ==
    /\ At(p, "temporary")
    /\ owner' = p
    /\ temps' = temps \ {p}
    /\ aged' = FALSE
    /\ Goto(p, "critical")
    /\ UNCHANGED <<kind, present, alive, stolen>>
----------------------------------------------------------------------------
(* What the waiter reads entitles it to break the lock.                    *)
Breakable(p) ==
    IF owner = NoOwner
    THEN kind = "owned" /\ present /\ aged
    ELSE KnownDead(p, owner)

(* _recover and _recover_stale_transaction_lock decide on what they read   *)
(* here, and act on it later.                                              *)
DecideToBreak(p) ==
    /\ At(p, "inspect")
    /\ Breakable(p)
    /\ Goto(p, "breakUnlink")
    /\ UNCHANGED <<kind, directory, alive, stolen>>

KeepWaiting(p) ==
    /\ At(p, "inspect")
    /\ ~Breakable(p)
    /\ Goto(p, "mkdir")
    /\ UNCHANGED <<kind, directory, alive, stolen>>

(* Faulty variant: a waiter goes on without the lock after its deadline.   *)
TimeoutEnters(p) ==
    /\ At(p, "inspect")
    /\ ~Breakable(p)
    /\ Goto(p, "critical")
    /\ UNCHANGED <<kind, directory, alive, stolen>>

(* The deadline passes.                                                    *)
Timeout(p) ==
    /\ At(p, "inspect")
    /\ ~Breakable(p)
    /\ Goto(p, "idle")
    /\ UNCHANGED <<kind, directory, alive, stolen>>

(* unlink, with missing_ok in locks.py only.  Nothing is looked at again:  *)
(* the file may name a process that took the lock in the meantime.         *)
BreakUnlink(p) ==
    /\ At(p, "breakUnlink")
    /\ IF owner = NoOwner
       THEN /\ Goto(p, IF kind = "owned" THEN "breakRmdir" ELSE "mkdir")
            /\ UNCHANGED <<owner, aged>>
       ELSE /\ owner' = NoOwner
            /\ aged' = FALSE
            /\ Goto(p, "breakRmdir")
    /\ stolen' = (stolen \/ owner \in alive)
    /\ UNCHANGED <<kind, present, temps, alive>>

(* rmdir fails on a directory that is gone or not empty.                   *)
Removable == present /\ owner = NoOwner /\ temps = {}
RemoveIfEmpty ==
    /\ present' = (present /\ ~Removable)
    /\ aged' = (aged /\ ~Removable)

(* The directory may be that of a live process which has just made it and  *)
(* not signed it yet, or which is about to remove it itself.               *)
BreakRmdir(p) ==
    /\ At(p, "breakRmdir")
    /\ RemoveIfEmpty
    /\ Goto(p, "mkdir")
    /\ stolen' = (\/ stolen
                  \/ Removable /\ \E q \in alive : pc[q] \in {"created", "ensured", "rmdir"})
    /\ UNCHANGED <<kind, owner, temps, alive>>
----------------------------------------------------------------------------
(* The body is over.  owned_directory_lock first reads OWNER.json, and     *)
(* leaves the lock alone when it is not its own any more.                  *)
BeginRelease(p) ==
    /\ At(p, "critical")
    /\ Goto(p, IF kind = "owned" /\ owner # p THEN "idle" ELSE "unlink")
    /\ UNCHANGED <<kind, directory, alive, stolen>>

(* unlink, with missing_ok in store.py only: in locks.py a file that is    *)
(* gone raises, and the directory is left where it is.                     *)
ReleaseUnlink(p) ==
    /\ At(p, "unlink")
    /\ owner' = NoOwner
    /\ aged' = (aged /\ owner = NoOwner)
    /\ Goto(p, IF kind = "owned" /\ owner = NoOwner THEN "idle" ELSE "rmdir")
    /\ UNCHANGED <<kind, present, temps, alive, stolen>>

ReleaseRmdir(p) ==
    /\ At(p, "rmdir")
    /\ RemoveIfEmpty
    /\ Goto(p, "idle")
    /\ UNCHANGED <<kind, owner, temps, alive, stolen>>
----------------------------------------------------------------------------
(* A file operation raises, and the process lives on: what it has made and *)
(* written stays, except for its temporary file.                           *)
Fails(p) ==
    /\ p \in alive /\ pc[p] \in Creating \cup {"unlink", "rmdir"}
    /\ temps' = temps \ {p}
    /\ aged' = (aged /\ p \notin temps)
    /\ Goto(p, "idle")
    /\ UNCHANGED <<kind, present, owner, alive, stolen>>

(* More than the grace period goes by without a change to the directory,   *)
(* its creator dead, gone or merely slow.                                  *)
GracePasses ==
    /\ present /\ ~aged
    /\ aged' = TRUE
    /\ UNCHANGED <<kind, present, owner, temps, pc, alive, stolen>>

Crash(p) ==
    /\ p \in alive
    /\ alive' = alive \ {p}
    /\ UNCHANGED <<kind, directory, pc, stolen>>

Step(p) ==
    \/ MakeDirectory(p) \/ EnsureDirectory(p) \/ MakeTemporary(p) \/ PublishOwner(p)
    \/ DecideToBreak(p) \/ KeepWaiting(p) \/ Timeout(p)
    \/ BreakUnlink(p) \/ BreakRmdir(p)
    \/ BeginRelease(p) \/ ReleaseUnlink(p) \/ ReleaseRmdir(p)

LockNext ==
    \/ \E p \in Processes : Begin(p) \/ Step(p) \/ Fails(p) \/ Crash(p)
    \/ GracePasses

LockSpec == LockInit /\ [][LockNext]_lockVars
----------------------------------------------------------------------------
LockTypeOK ==
    /\ kind \in {"owned", "transaction"}
    /\ present \in BOOLEAN /\ aged \in BOOLEAN
    /\ owner \in Processes \cup {NoOwner}
    /\ temps \subseteq Processes
    /\ pc \in [Processes -> {"idle", "mkdir", "inspect"}
                            \cup Creating \cup Breaking \cup Holding]
    /\ alive \subseteq Processes
    /\ stolen \in BOOLEAN

(* What a lock is for: no two live processes are inside it at once.  It    *)
(* does not hold of either implementation.                                 *)
MutualExclusion ==
    \A p, q \in alive : pc[p] = "critical" /\ pc[q] = "critical" => p = q

(* What does hold, whichever processes die or fail at whichever file       *)
(* operation and however many break the lock together: two processes are   *)
(* inside at once only after a waiter has removed the owner file or the    *)
(* directory of a process that was alive.                                  *)
ExclusiveUnlessStolen == MutualExclusion \/ stolen

(* Until then the owner file tells the truth: whoever is inside is named   *)
(* by it, so that a rival reads a live owner and keeps waiting, and the    *)
(* owner's release finds its own name.                                     *)
OwnerFileTruthful ==
    ~stolen => \A p \in alive : pc[p] = "critical" => present /\ owner = p
=============================================================================
