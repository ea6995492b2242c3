-------------------------- MODULE ProjectInstaller --------------------------
(***************************************************************************)
(* What `aiflow project` does to the files of a project                    *)
(* (skills/installer.py): init, upgrade, rollback and uninstall write and  *)
(* remove files one by one, while the user edits any of them; project.lock *)
(* says which files are owned, and the content each was installed with.    *)
(*                                                                         *)
(* A content is who wrote it, the number of that version or edit, and in   *)
(* project.toml the profile line.  There is one command at a time: the     *)
(* installer takes no lock.                                                *)
(***************************************************************************)
EXTENDS Naturals, Sequences, Functions

CONSTANTS
    Profiles,
    SkillFiles,   \* the files that each profile installs
    Config,       \* .aiflow/project.toml, which every profile has
    MaxVersion,   \* bound: versions of the distribution
    MaxEdits,     \* bound: edits of the user
    MaxBackups,   \* bound: upgrades
    MaxFaults,    \* bound: writes that fail, and crashes
    None

ASSUME InstallerAssumption ==
    /\ \A profile \in Profiles : Config \notin SkillFiles[profile]
    /\ {MaxVersion, MaxEdits, MaxBackups, MaxFaults} \subseteq Nat

Paths == {Config} \cup UNION {SkillFiles[profile] : profile \in Profiles}

Contents == [by : {"distribution", "user"}, n : Nat, profile : Profiles \cup {None}]
(* Some of the files of the project, and what a project.lock may say.      *)
FileSets == UNION {[paths -> Contents \cup {None}] : paths \in SUBSET Paths}
Locks == [profile : Profiles, owned : FileSets]

ASSUME NullAssumption == None \notin Contents /\ None \notin Locks

VARIABLES
    files,     \* the content of each path; None where there is no file
    lock,      \* project.lock: profile, and content of each owned path
    backups,   \* backups/<transaction>: the lock and the owned files of then
    version,   \* of the distribution
    pc,        \* the step the command is at; "idle" without one
    command,   \* what it is going to write, and what there was before
    todo,      \* the paths that this step still has to see to
    raced,     \* the paths the user has edited since it looked at them
    edits,
    faults,
    crashed    \* a command was cut short

project == <<files, lock, backups>>
vars == <<project, version, pc, command, todo, raced, edits, faults, crashed>>

Content(by, n, profile) == [by |-> by, n |-> n, profile |-> profile]
SameText(x, y) == x.by = y.by /\ x.n = y.n

(* Of a lock that validates, what is owned: managed and mutable files.     *)
Owned(l) == IF l = None THEN {} ELSE DOMAIN l.owned
Unchanged(l, path) == path \in Owned(l) /\ files[path] = l.owned[path]

(* verify(): managed files are what was installed, and project.toml, which *)
(* the user may edit, is there.                                            *)
Verified == \A path \in Owned(lock) :
    files[path] # None /\ (path # Config => Unchanged(lock, path))

(* project_config: the text that is there gets the new profile line.       *)
ConfigFor(profile) ==
    IF files[Config] = None THEN Content("distribution", 0, profile)
    ELSE [files[Config] EXCEPT !.profile = profile]

Desired(profile) ==
    [path \in SkillFiles[profile] \cup {Config} |->
        IF path = Config THEN ConfigFor(profile)
        ELSE Content("distribution", version, None)]

(* Faulty variant: a file nobody owns is no obstacle.                      *)
FaultyUnowned(desired) == FALSE
Unowned(desired) ==
    \E path \in (DOMAIN desired) \ (Owned(lock) \cup {Config}) : files[path] # None

(* _preflight, against the lock the command has read.                      *)
Preflight(desired) == ~Unowned(desired) /\ Verified

Fault == faults < MaxFaults /\ faults' = faults + 1

Init ==
    /\ files = [path \in Paths |-> None]
    /\ lock = None
    /\ backups = <<>>
    /\ version = 1
    /\ pc = "idle"
    /\ command = None
    /\ todo = {}
    /\ raced = {}
    /\ edits = 0
    /\ faults = 0
    /\ crashed = FALSE
----------------------------------------------------------------------------
(* _apply, to the first write: the snapshots are of what is written and of *)
(* what was owned.                                                         *)
Apply(op, desired, installed) ==
    /\ command' = [op |-> op, desired |-> desired, installed |-> installed,
                   snapshots |-> Restrict(files, (DOMAIN desired) \cup Owned(lock))]
    /\ todo' = DOMAIN desired
    /\ raced' = {}
    /\ pc' = "writing"

Install(op, profile) ==
    LET desired == Desired(profile)
    IN  IF Preflight(desired)
        THEN Apply(op, desired, [profile |-> profile, owned |-> desired])
        ELSE pc' = "idle" /\ command' = None /\ UNCHANGED <<todo, raced>>

(* init without a lock; with one it changes nothing.                       *)
Initialize(profile) ==
    /\ pc = "idle" /\ lock = None
    /\ Install("init", profile)
    /\ UNCHANGED <<project, version, edits, faults, crashed>>

(* upgrade verifies, and copies what is owned before anything else.        *)
Upgrade(profile) ==
    /\ pc = "idle" /\ lock # None /\ Verified
    /\ Len(backups) < MaxBackups
    /\ backups' = Append(backups, [lock |-> lock,
                                   files |-> Restrict(files, Owned(lock))])
    /\ command' = [op |-> "upgrade", profile |-> profile]
    /\ pc' = "backedUp"
    /\ UNCHANGED <<files, lock, version, todo, raced, edits, faults, crashed>>

InstallUpgrade ==
    /\ pc = "backedUp"
    /\ Install("upgrade", command.profile)
    /\ UNCHANGED <<project, version, edits, faults, crashed>>

(* rollback to any upgrade there was, unless something has drifted since   *)
(* the last one.                                                           *)
Undrifted == \A path \in Owned(lock) : Unchanged(lock, path)

Rollback(backup) ==
    /\ pc = "idle" /\ lock # None
    /\ Undrifted /\ Preflight(backup.files)
    /\ Apply("rollback", backup.files, backup.lock)
    /\ UNCHANGED <<project, version, edits, faults, crashed>>
----------------------------------------------------------------------------
Write(path) ==
    /\ pc = "writing" /\ path \in todo
    /\ files' = [files EXCEPT ![path] = command.desired[path]]
    /\ todo' = todo \ {path}
    /\ UNCHANGED <<lock, backups, version, pc, command, raced, edits, faults, crashed>>

(* Faulty variant: what the new profile lacks is left.                     *)
FaultyObsolete == {}
Obsolete == Owned(lock) \ DOMAIN command.desired

Written ==
    /\ pc = "writing" /\ todo = {}
    /\ pc' = "removing"
    /\ todo' = Obsolete
    /\ UNCHANGED <<project, version, command, raced, edits, faults, crashed>>

(* The transaction raises: everything is put back.                         *)
Fails == pc' = "restoring" /\ todo' = DOMAIN command.snapshots

(* An obsolete file that has changed makes the transaction raise.          *)
RemoveObsolete(path) ==
    /\ pc = "removing" /\ path \in todo
    /\ IF files[path] # None /\ ~Unchanged(lock, path)
       THEN Fails /\ UNCHANGED files
       ELSE /\ files' = [files EXCEPT ![path] = None]
            /\ todo' = todo \ {path}
            /\ UNCHANGED pc
    /\ UNCHANGED <<lock, backups, version, command, raced, edits, faults, crashed>>

Done == pc' = "idle" /\ command' = None /\ todo' = {} /\ raced' = {}

(* The lock is written last.                                               *)
WriteLock ==
    /\ pc = "removing" /\ todo = {}
    /\ lock' = command.installed
    /\ Done
    /\ UNCHANGED <<files, backups, version, edits, faults, crashed>>

WriteFails ==
    /\ pc \in {"writing", "removing"}
    /\ Fault
    /\ Fails
    /\ UNCHANGED <<project, version, command, raced, edits, crashed>>

(* Faulty variant: what was not there before stays.                        *)
FaultyBefore(path) ==
    IF command.snapshots[path] = None THEN files[path] ELSE command.snapshots[path]
Before(path) == command.snapshots[path]

RestoreFile(path) ==
    /\ pc = "restoring" /\ path \in todo
    /\ files' = [files EXCEPT ![path] = Before(path)]
    /\ todo' = todo \ {path}
    /\ UNCHANGED <<lock, backups, version, pc, command, raced, edits, faults, crashed>>

Restored ==
    /\ pc = "restoring" /\ todo = {}
    /\ Done
    /\ UNCHANGED <<project, version, edits, faults, crashed>>
----------------------------------------------------------------------------
(* uninstall removes the owned files that have not changed, then the lock. *)
Uninstall ==
    /\ pc = "idle" /\ lock # None
    /\ pc' = "uninstalling"
    /\ command' = [op |-> "uninstall"]
    /\ todo' = Owned(lock)
    /\ raced' = {}
    /\ UNCHANGED <<project, version, edits, faults, crashed>>

RemoveOwned(path) ==
    /\ pc = "uninstalling" /\ path \in todo
    /\ files' = IF Unchanged(lock, path) THEN [files EXCEPT ![path] = None] ELSE files
    /\ todo' = todo \ {path}
    /\ UNCHANGED <<lock, backups, version, pc, command, raced, edits, faults, crashed>>

RemoveLock ==
    /\ pc = "uninstalling" /\ todo = {}
    /\ lock' = None
    /\ Done
    /\ UNCHANGED <<files, backups, version, edits, faults, crashed>>
----------------------------------------------------------------------------
(* The user writes or deletes a file, owned or not, at any time.           *)
Edit(path) ==
    /\ edits < MaxEdits
    /\ edits' = edits + 1
    /\ \/ files' = [files EXCEPT ![path] =
              Content("user", edits + 1, IF @ = None THEN None ELSE @.profile)]
       \/ files[path] # None /\ files' = [files EXCEPT ![path] = None]
    /\ raced' = IF pc \in {"idle", "backedUp"} THEN raced ELSE raced \cup {path}
    /\ UNCHANGED <<lock, backups, version, pc, command, todo, faults, crashed>>

(* The distribution the command runs from is updated.                      *)
Release ==
    /\ version < MaxVersion
    /\ version' = version + 1
    /\ UNCHANGED <<project, pc, command, todo, raced, edits, faults, crashed>>

Crash ==
    /\ pc # "idle"
    /\ Fault
    /\ Done
    /\ crashed' = TRUE
    /\ UNCHANGED <<project, version, edits>>

Step ==
    \/ InstallUpgrade \/ Written \/ WriteLock \/ WriteFails \/ Restored \/ RemoveLock
    \/ \E path \in Paths :
          Write(path) \/ RemoveObsolete(path) \/ RestoreFile(path) \/ RemoveOwned(path)

Next ==
    \/ \E profile \in Profiles : Initialize(profile) \/ Upgrade(profile)
    \/ \E i \in DOMAIN backups : Rollback(backups[i])
    \/ Uninstall
    \/ Step
    \/ \E path \in Paths : Edit(path)
    \/ Release \/ Crash

Spec == Init /\ [][Next]_vars
----------------------------------------------------------------------------
(* What the lock says of the files is so, and says all, whenever no        *)
(* command is under way and none was cut short: an owned file differs from *)
(* what it records only by the user's doing, and whatever was installed is *)
(* owned (init, upgrade, rollback and uninstall, whether they succeed or   *)
(* raise).                                                                 *)
LockTruthful ==
    /\ \A path \in Paths : files[path] # None => files[path] \in Contents
    /\ pc = "idle" /\ ~crashed =>
        /\ \A path \in Owned(lock) :
              \/ Unchanged(lock, path)
              \/ edits > 0 /\ (files[path] = None \/ files[path].by = "user")
        /\ \A path \in Paths :
              files[path] # None /\ files[path].by = "distribution"
                  => path \in Owned(lock)

(* No command destroys what the user has written: it changes files it owns *)
(* and finds as they were installed, the profile line of project.toml, and *)
(* what it has itself written before it raised.  (The exceptions are edits *)
(* of a file that the running command has already looked at.)              *)
UserWorkKept ==
    [][\A path \in Paths \ raced :
          files'[path] # files[path] /\ edits' = edits =>
              \/ files[path] = None
              \/ Unchanged(lock, path)
              \/ /\ path = Config /\ files'[path] # None
                 /\ SameText(files[path], files'[path])
              \/ pc = "restoring" /\ files[path] = command.desired[path]]_vars

(* A command that is not cut short leaves everything as it found it, or    *)
(* exactly the files that it was to install, and a lock that says so       *)
(* (_apply, _restore).                                                     *)
AllOrNothing ==
    [][pc' = "idle" /\ pc \in {"removing", "restoring"} /\ ~crashed' =>
          LET done == pc = "removing"
              wanted == IF done THEN command.desired ELSE command.snapshots
          IN  /\ \A path \in (DOMAIN command.snapshots) \ raced :
                    files'[path] = IF path \in DOMAIN wanted THEN wanted[path] ELSE None
              /\ lock' = IF done THEN command.installed ELSE lock]_vars
=============================================================================
