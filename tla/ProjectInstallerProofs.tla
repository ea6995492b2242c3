----------------------- MODULE ProjectInstallerProofs -----------------------
(***************************************************************************)
(* Proofs about ProjectInstaller, for any profiles and files, any number   *)
(* of versions, edits, upgrades and failing writes.                        *)
(***************************************************************************)
EXTENDS ProjectInstaller, SequenceTheorems, TLAPS

(* A lock that validates owns project.toml; a backup is of what it owns.   *)
Backups == {backup \in [lock : Locks, files : FileSets] :
               /\ DOMAIN backup.files = Owned(backup.lock)
               /\ Config \in Owned(backup.lock)}

Transacting == pc \in {"writing", "removing", "restoring"}

Typed ==
    /\ files \in [Paths -> Contents \cup {None}]
    /\ lock \in Locks \cup {None}
    /\ lock # None => Config \in Owned(lock)
    /\ backups \in Seq(Backups)
    /\ version \in Nat /\ edits \in Nat /\ faults \in Nat
    /\ crashed \in BOOLEAN
    /\ pc \in {"idle", "backedUp", "writing", "removing", "restoring", "uninstalling"}
    /\ raced \subseteq Paths
    /\ pc = "backedUp" => command.profile \in Profiles
    /\ pc = "uninstalling" => todo \subseteq Owned(lock)

(* A transaction knows what there was of everything it may touch, and may  *)
(* write over it.                                                          *)
Overwritable(path) ==
    \/ command.snapshots[path] = None
    \/ path \in Owned(lock) /\ command.snapshots[path] = lock.owned[path]
    \/ /\ path = Config /\ command.desired[path] # None
       /\ SameText(command.snapshots[path], command.desired[path])

CommandKnown ==
    Transacting =>
        /\ command.desired \in FileSets /\ command.snapshots \in FileSets
        /\ command.installed \in Locks
        /\ Owned(command.installed) = DOMAIN command.desired
        /\ Config \in DOMAIN command.desired
        /\ DOMAIN command.snapshots = (DOMAIN command.desired) \cup Owned(lock)
        /\ \A path \in DOMAIN command.desired : Overwritable(path)

(* What a file holds unless the user has written it meanwhile.             *)
ByUser(content) == edits > 0 /\ (content = None \/ content.by = "user")
Holds(path, content) == files[path] = content \/ (path \in raced /\ ByUser(files[path]))

(* How far the transaction has come.                                       *)
Progress ==
    /\ pc = "writing" =>
        /\ todo \subseteq DOMAIN command.desired
        /\ \A path \in DOMAIN command.snapshots :
              Holds(path, IF path \in (DOMAIN command.desired) \ todo
                          THEN command.desired[path] ELSE command.snapshots[path])
    /\ pc = "removing" =>
        /\ todo \subseteq Obsolete
        /\ \A path \in DOMAIN command.snapshots :
              Holds(path, IF path \in DOMAIN command.desired THEN command.desired[path]
                          ELSE IF path \in todo THEN command.snapshots[path] ELSE None)
    /\ pc = "restoring" =>
        /\ todo \subseteq DOMAIN command.snapshots
        /\ \A path \in DOMAIN command.snapshots :
              \/ Holds(path, command.snapshots[path])
              \/ path \in todo /\ files[path] = None
              \/ /\ path \in todo \cap DOMAIN command.desired
                 /\ files[path] = command.desired[path]

CommandInv == Typed /\ CommandKnown /\ Progress

(* With this content the path is as the lock says, or the user's doing.    *)
Installed(content) == content # None /\ content.by = "distribution"
Accounted(path, content) ==
    /\ path \in Owned(lock) => content = lock.owned[path] \/ ByUser(content)
    /\ Installed(content) => path \in Owned(lock)

BackupsAccounted ==
    \A i \in DOMAIN backups : \A path \in DOMAIN backups[i].files :
       \/ backups[i].files[path] = backups[i].lock.owned[path]
       \/ ByUser(backups[i].files[path])

TransactionAccounted ==
    /\ \A path \in DOMAIN command.snapshots : Accounted(path, command.snapshots[path])
    /\ \A path \in Paths \ DOMAIN command.snapshots : ~Installed(files[path])
    /\ \A path \in DOMAIN command.desired :
          \/ command.desired[path] = command.installed.owned[path]
          \/ ByUser(command.desired[path])

Accounts ==
    /\ BackupsAccounted
    /\ pc \in {"idle", "backedUp"} => \A path \in Paths : Accounted(path, files[path])
    /\ Transacting => TransactionAccounted
    /\ pc = "uninstalling" =>
          \A path \in Paths :
              IF path \in todo THEN Accounted(path, files[path]) ELSE ~Installed(files[path])

TruthInv == CommandInv /\ (~crashed => Accounts)
----------------------------------------------------------------------------
LEMMA FileSetElements ==
  ASSUME NEW f \in FileSets
  PROVE  DOMAIN f \subseteq Paths /\ \A path \in DOMAIN f : f[path] \in Contents \cup {None}
  BY DEF FileSets

LEMMA SomeFiles ==
  ASSUME files \in [Paths -> Contents \cup {None}], NEW paths \in SUBSET Paths
  PROVE  /\ Restrict(files, paths) \in FileSets
         /\ DOMAIN Restrict(files, paths) = paths
         /\ \A path \in paths : Restrict(files, paths)[path] = files[path]
<1>1. Restrict(files, paths) \in [paths -> Contents \cup {None}]
  BY DEF Restrict
<1> QED
  BY <1>1 DEF FileSets, Restrict

LEMMA OwnedPaths ==
  ASSUME NEW l \in Locks \cup {None}
  PROVE  Owned(l) \subseteq Paths
  BY FileSetElements DEF Owned, Locks

(* What init and upgrade are going to write.                               *)
LEMMA DesiredKnown ==
  ASSUME Typed, NEW profile \in Profiles
  PROVE  LET desired == Desired(profile)
             installed == [profile |-> profile, owned |-> desired]
         IN  /\ desired \in FileSets /\ Config \in DOMAIN desired
             /\ installed \in Locks /\ Owned(installed) = DOMAIN desired
             /\ desired[Config] # None
             /\ files[Config] # None => SameText(files[Config], desired[Config])
             /\ \A path \in DOMAIN desired : desired[path] \in Contents
<1> DEFINE paths == SkillFiles[profile] \cup {Config}
           desired == Desired(profile)
           installed == [profile |-> profile, owned |-> desired]
<1>1. paths \in SUBSET Paths /\ Config \in paths
  BY DEF Paths
<1>2. ConfigFor(profile) \in Contents
  <2>1. CASE files[Config] = None
    BY <2>1 DEF ConfigFor, Content, Contents
  <2>2. CASE files[Config] # None
    <3>1. files[Config] \in Contents
      BY <1>1, <2>2 DEF Typed
    <3> QED
      BY <2>2, <3>1 DEF ConfigFor, Contents
  <2> QED
    BY <2>1, <2>2
<1>3. Content("distribution", version, None) \in Contents
  BY DEF Content, Contents, Typed
<1>4. /\ DOMAIN desired = paths /\ desired \in [paths -> Contents]
      /\ desired[Config] = ConfigFor(profile)
  BY <1>1, <1>2, <1>3 DEF Desired
<1>5. desired \in FileSets
  <2>1. desired \in [paths -> Contents \cup {None}]
    BY <1>4
  <2> QED
    BY <1>1, <2>1 DEF FileSets
<1>6. installed \in Locks
  BY <1>5 DEF Locks
<1>7. Owned(installed) = DOMAIN desired
  BY <1>6, NullAssumption DEF Owned
<1>8. desired[Config] # None
  BY <1>2, <1>4, NullAssumption
<1>9. files[Config] # None => SameText(files[Config], desired[Config])
  <2>1. ASSUME files[Config] # None PROVE SameText(files[Config], ConfigFor(profile))
    <3>1. files[Config] \in Contents
      BY <1>1, <2>1 DEF Typed
    <3> QED
      BY <2>1, <3>1 DEF ConfigFor, SameText, Contents
  <2> QED
    BY <1>4, <2>1
<1> QED
  BY <1>1, <1>4, <1>5, <1>6, <1>7, <1>8, <1>9

(* A transaction that passed the preflight begins with everything known.   *)
LEMMA ApplyKnown ==
  ASSUME Typed, NEW op, NEW desired \in FileSets, NEW installed \in Locks,
         Apply(op, desired, installed), UNCHANGED <<project, version, edits, faults, crashed>>,
         Owned(installed) = DOMAIN desired, Config \in DOMAIN desired,
         \A path \in DOMAIN desired :
            \/ files[path] = None
            \/ path \in Owned(lock) /\ files[path] = lock.owned[path]
            \/ path = Config /\ desired[path] # None /\ SameText(files[path], desired[path])
  PROVE  CommandInv'
<1> DEFINE paths == (DOMAIN desired) \cup Owned(lock)
<1>1. paths \in SUBSET Paths
  BY FileSetElements, OwnedPaths DEF Typed
<1>2. /\ Restrict(files, paths) \in FileSets
      /\ DOMAIN Restrict(files, paths) = paths
      /\ \A path \in paths : Restrict(files, paths)[path] = files[path]
  BY <1>1, SomeFiles DEF Typed
<1>3. /\ command' = [op |-> op, desired |-> desired, installed |-> installed,
                     snapshots |-> Restrict(files, paths)]
      /\ todo' = DOMAIN desired /\ raced' = {} /\ pc' = "writing"
      /\ UNCHANGED <<files, lock, backups, version, edits, faults, crashed>>
  BY DEF Apply, project
<1>4. /\ command'.desired = desired /\ command'.installed = installed
      /\ command'.snapshots \in FileSets
      /\ DOMAIN command'.snapshots = paths
      /\ \A path \in paths : command'.snapshots[path] = files[path]
  BY <1>2, <1>3
<1>5. Typed'
  BY <1>3 DEF Typed
<1>6. CommandKnown'
  BY <1>3, <1>4 DEF CommandKnown, Transacting, Overwritable
<1>7. Progress'
  BY <1>3, <1>4 DEF Progress, Holds
<1> QED
  BY <1>5, <1>6, <1>7 DEF CommandInv

(* init and upgrade: the preflight refuses, or the transaction begins.     *)
LEMMA InstallKnown ==
  ASSUME Typed, NEW op, NEW profile \in Profiles,
         IF Preflight(Desired(profile))
         THEN Apply(op, Desired(profile),
                    [profile |-> profile, owned |-> Desired(profile)])
         ELSE pc' = "idle" /\ command' = None /\ UNCHANGED <<todo, raced>>,
         UNCHANGED <<project, version, edits, faults, crashed>>
  PROVE  CommandInv'
<1> DEFINE desired == Desired(profile)
           installed == [profile |-> profile, owned |-> desired]
<1>1. CASE Preflight(desired)
  <2>1. Apply(op, desired, installed)
    BY <1>1
  <2>2. /\ desired \in FileSets /\ Config \in DOMAIN desired
        /\ installed \in Locks /\ Owned(installed) = DOMAIN desired
        /\ desired[Config] # None
        /\ files[Config] # None => SameText(files[Config], desired[Config])
    BY DesiredKnown
  <2> HIDE DEF desired, installed
  <2>3. ASSUME NEW path \in DOMAIN desired
        PROVE  \/ files[path] = None
               \/ path \in Owned(lock) /\ files[path] = lock.owned[path]
               \/ path = Config /\ desired[path] # None /\ SameText(files[path], desired[path])
    BY <1>1, <2>2 DEF Preflight, Unowned, Verified, Unchanged
  <2> QED
    BY <2>1, <2>2, <2>3, ApplyKnown
<1>2. CASE ~Preflight(desired)
  <2>1. pc' = "idle" /\ UNCHANGED <<files, lock, backups, version, raced, edits, faults, crashed>>
    BY <1>2 DEF project
  <2> QED
    BY <2>1 DEF CommandInv, Typed, CommandKnown, Progress, Transacting
<1> QED
  BY <1>1, <1>2
----------------------------------------------------------------------------
LEMMA CommandInit == Init => CommandInv
<1> SUFFICES ASSUME Init PROVE CommandInv
  OBVIOUS
<1>1. backups \in Seq(Backups)
  BY EmptySeq DEF Init
<1> QED
  BY <1>1 DEF Init, CommandInv, Typed, CommandKnown, Progress, Transacting

(* The command is over: nothing is said of it any more.                    *)
LEMMA CommandOver ==
  ASSUME Typed', pc' = "idle"
  PROVE  CommandInv'
  BY DEF CommandInv, CommandKnown, Progress, Transacting

(* What the invariant says of a transaction, for the steps that keep it.   *)
LEMMA TransactionGoesOn ==
  ASSUME CommandInv, Transacting', Transacting,
         UNCHANGED <<lock, backups, version, command, edits, crashed>>,
         faults' \in Nat, files' \in [Paths -> Contents \cup {None}], raced' \subseteq Paths
  PROVE  Typed' /\ CommandKnown'
  BY DEF CommandInv, Typed, CommandKnown, Transacting, Overwritable

LEMMA CommandStep ==
  ASSUME CommandInv, [Next]_vars
  PROVE  CommandInv'
<1>0. Typed /\ CommandKnown /\ Progress
  BY DEF CommandInv
<1>1. ASSUME NEW profile \in Profiles, Initialize(profile) PROVE CommandInv'
  BY <1>0, <1>1, InstallKnown DEF Initialize, Install
<1>2. ASSUME NEW profile \in Profiles, Upgrade(profile) PROVE CommandInv'
  <2> DEFINE backup == [lock |-> lock, files |-> Restrict(files, Owned(lock))]
  <2>1. lock \in Locks /\ Config \in Owned(lock)
    BY <1>0, <1>2 DEF Upgrade, Typed
  <2>2. Owned(lock) \in SUBSET Paths
    BY <2>1, OwnedPaths
  <2>3. backup \in Backups
    BY <1>0, <2>1, <2>2, SomeFiles DEF Backups, Typed
  <2>4. backups' \in Seq(Backups)
    BY <1>0, <1>2, <2>3 DEF Upgrade, Typed
  <2>5. Typed'
    BY <1>0, <1>2, <2>4 DEF Upgrade, Typed
  <2> QED
    BY <1>2, <2>5 DEF Upgrade, CommandInv, CommandKnown, Progress, Transacting
<1>3. ASSUME InstallUpgrade PROVE CommandInv'
  <2>1. command.profile \in Profiles
    BY <1>0, <1>3 DEF InstallUpgrade, Typed
  <2> QED
    BY <1>0, <1>3, <2>1, InstallKnown DEF InstallUpgrade, Install
<1>4. ASSUME NEW i \in DOMAIN backups, Rollback(backups[i]) PROVE CommandInv'
  <2> DEFINE backup == backups[i]
  <2>1. backup \in Backups
    BY <1>0 DEF Typed
  <2>2. lock # None /\ Undrifted /\ Preflight(backup.files)
        /\ Apply("rollback", backup.files, backup.lock)
        /\ UNCHANGED <<project, version, edits, faults, crashed>>
    BY <1>4 DEF Rollback
  <2>3. Config \in Owned(lock)
    BY <1>0, <2>2 DEF Typed
  <2> HIDE DEF backup
  <2>4. ASSUME NEW path \in DOMAIN backup.files
        PROVE  \/ files[path] = None
               \/ path \in Owned(lock) /\ files[path] = lock.owned[path]
    BY <2>2, <2>3 DEF Preflight, Unowned, Undrifted, Unchanged
  <2> QED
    BY <1>0, <2>1, <2>2, <2>4, ApplyKnown DEF Backups
<1>5. ASSUME NEW path \in Paths, Write(path) PROVE CommandInv'
  <2>1. Transacting /\ Transacting' /\ UNCHANGED <<pc, command, raced, edits>>
        /\ path \in todo /\ todo' = todo \ {path} /\ pc = "writing"
        /\ files' = [files EXCEPT ![path] = command.desired[path]]
    BY <1>5 DEF Write, Transacting
  <2>2. path \in DOMAIN command.desired /\ DOMAIN command.desired \subseteq DOMAIN command.snapshots
    BY <1>0, <2>1 DEF Progress, CommandKnown
  <2>3. command.desired[path] \in Contents \cup {None}
    BY <1>0, <2>1, <2>2, FileSetElements DEF CommandKnown
  <2>4. files' \in [Paths -> Contents \cup {None}]
    BY <1>0, <2>1, <2>3 DEF Typed
  <2>5. Typed' /\ CommandKnown'
    BY <1>0, <1>5, <2>1, <2>4, TransactionGoesOn DEF Write, Typed, CommandInv
  <2>6. DOMAIN command.snapshots \subseteq Paths
    BY <1>0, <2>1, FileSetElements DEF CommandKnown
  <2>7. Progress'
    BY <1>0, <2>1, <2>2, <2>6 DEF Progress, Holds, ByUser, Typed
  <2> QED
    BY <2>5, <2>7 DEF CommandInv
<1>6. ASSUME Written PROVE CommandInv'
  <2>1. /\ Transacting /\ Transacting' /\ pc = "writing" /\ pc' = "removing"
        /\ todo = {} /\ todo' = Obsolete
        /\ UNCHANGED <<files, lock, backups, version, command, raced, edits, faults, crashed>>
    BY <1>6 DEF Written, Transacting, project
  <2>2. Typed' /\ CommandKnown'
    BY <1>0, <2>1, TransactionGoesOn DEF Typed, CommandInv
  <2>3. Progress'
    BY <1>0, <2>1 DEF Progress, Holds, ByUser, CommandKnown, Obsolete
  <2> QED
    BY <2>2, <2>3 DEF CommandInv
<1>7. ASSUME NEW path \in Paths, RemoveObsolete(path) PROVE CommandInv'
  <2>1. /\ Transacting /\ Transacting' /\ pc = "removing" /\ path \in todo
        /\ UNCHANGED <<lock, backups, version, command, raced, edits, faults, crashed>>
    BY <1>7 DEF RemoveObsolete, Fails, Transacting
  <2>2. files' \in [Paths -> Contents \cup {None}]
    BY <1>0, <1>7 DEF RemoveObsolete, Typed
  <2>3. Typed' /\ CommandKnown'
    BY <1>0, <2>1, <2>2, TransactionGoesOn DEF Typed, CommandInv
  <2>4. CASE files[path] # None /\ ~Unchanged(lock, path)
    <3>1. pc' = "restoring" /\ todo' = DOMAIN command.snapshots /\ files' = files
      BY <1>7, <2>4 DEF RemoveObsolete, Fails
    <3>2. Progress'
      BY <1>0, <2>1, <3>1 DEF Progress, Holds, ByUser, Obsolete
    <3> QED
      BY <2>3, <3>2 DEF CommandInv
  <2>5. CASE ~(files[path] # None /\ ~Unchanged(lock, path))
    <3>1. pc' = "removing" /\ todo' = todo \ {path} /\ files' = [files EXCEPT ![path] = None]
      BY <1>7, <2>1, <2>5 DEF RemoveObsolete
    <3>2. DOMAIN command.snapshots \subseteq Paths
      BY <1>0, <2>1, FileSetElements DEF CommandKnown
    <3>3. Progress'
      BY <1>0, <2>1, <3>1, <3>2 DEF Progress, Holds, ByUser, Obsolete, Typed
    <3> QED
      BY <2>3, <3>3 DEF CommandInv
  <2> QED
    BY <2>4, <2>5
<1>8. ASSUME WriteLock PROVE CommandInv'
  <2>1. command.installed \in Locks /\ Config \in Owned(command.installed)
    BY <1>0, <1>8 DEF WriteLock, CommandKnown, Transacting
  <2>2. Typed'
    BY <1>0, <1>8, <2>1 DEF WriteLock, Done, Typed
  <2> QED
    BY <1>8, <2>2, CommandOver DEF WriteLock, Done
<1>9. ASSUME WriteFails PROVE CommandInv'
  <2>1. /\ Transacting /\ Transacting' /\ pc \in {"writing", "removing"}
        /\ pc' = "restoring" /\ todo' = DOMAIN command.snapshots
        /\ UNCHANGED <<files, lock, backups, version, command, raced, edits, crashed>>
        /\ faults' = faults + 1
    BY <1>9 DEF WriteFails, Fails, Fault, Transacting, project
  <2>2. Typed' /\ CommandKnown'
    BY <1>0, <2>1, TransactionGoesOn DEF Typed, CommandInv
  <2>3. Progress'
    BY <1>0, <2>1 DEF Progress, Holds, ByUser, CommandKnown
  <2> QED
    BY <2>2, <2>3 DEF CommandInv
<1>10. ASSUME NEW path \in Paths, RestoreFile(path) PROVE CommandInv'
  <2>1. /\ Transacting /\ Transacting' /\ pc = "restoring" /\ pc' = "restoring"
        /\ path \in todo /\ todo' = todo \ {path}
        /\ files' = [files EXCEPT ![path] = command.snapshots[path]]
        /\ UNCHANGED <<lock, backups, version, command, raced, edits, faults, crashed>>
    BY <1>10 DEF RestoreFile, Before, Transacting
  <2>2. path \in DOMAIN command.snapshots /\ DOMAIN command.snapshots \subseteq Paths
        /\ command.snapshots[path] \in Contents \cup {None}
    BY <1>0, <2>1, FileSetElements DEF Progress, CommandKnown
  <2>3. files' \in [Paths -> Contents \cup {None}]
    BY <1>0, <2>1, <2>2 DEF Typed
  <2>4. Typed' /\ CommandKnown'
    BY <1>0, <2>1, <2>3, TransactionGoesOn DEF Typed, CommandInv
  <2>5. Progress'
    BY <1>0, <2>1, <2>2 DEF Progress, Holds, ByUser, Typed
  <2> QED
    BY <2>4, <2>5 DEF CommandInv
<1>11. ASSUME Restored PROVE CommandInv'
  <2>1. Typed'
    BY <1>0, <1>11 DEF Restored, Done, project, Typed
  <2> QED
    BY <1>11, <2>1, CommandOver DEF Restored, Done
<1>12. ASSUME Uninstall PROVE CommandInv'
  <2>1. Typed'
    BY <1>0, <1>12 DEF Uninstall, project, Typed
  <2> QED
    BY <1>12, <2>1 DEF Uninstall, CommandInv, CommandKnown, Progress, Transacting
<1>13. ASSUME NEW path \in Paths, RemoveOwned(path) PROVE CommandInv'
  <2>1. Typed'
    BY <1>0, <1>13 DEF RemoveOwned, Typed
  <2> QED
    BY <1>13, <2>1 DEF RemoveOwned, CommandInv, CommandKnown, Progress, Transacting
<1>14. ASSUME RemoveLock PROVE CommandInv'
  <2>1. Typed'
    BY <1>0, <1>14 DEF RemoveLock, Done, Typed
  <2> QED
    BY <1>14, <2>1, CommandOver DEF RemoveLock, Done
<1>15. ASSUME NEW path \in Paths, Edit(path) PROVE CommandInv'
  <2>1. /\ edits \in Nat /\ edits' = edits + 1
        /\ UNCHANGED <<lock, backups, version, pc, command, todo, faults, crashed>>
        /\ raced' = IF pc \in {"idle", "backedUp"} THEN raced ELSE raced \cup {path}
    BY <1>0, <1>15 DEF Edit, Typed
  <2>2. PICK content \in Contents \cup {None} :
            /\ files' = [files EXCEPT ![path] = content]
            /\ content = None \/ content.by = "user"
    <3>1. files[path] # None => files[path] \in Contents
      BY <1>0 DEF Typed
    <3>2. Content("user", edits + 1, IF files[path] = None THEN None ELSE files[path].profile)
            \in Contents
      BY <2>1, <3>1 DEF Content, Contents
    <3>3. \/ files' = [files EXCEPT ![path] =
                 Content("user", edits + 1, IF files[path] = None THEN None ELSE files[path].profile)]
          \/ files' = [files EXCEPT ![path] = None]
      BY <1>0, <1>15 DEF Edit, Typed
    <3> QED
      BY <3>2, <3>3 DEF Content
  <2>3. files' \in [Paths -> Contents \cup {None}] /\ raced' \subseteq Paths
    BY <1>0, <2>1, <2>2 DEF Typed
  <2>4. Typed'
    BY <1>0, <2>1, <2>3 DEF Typed
  <2>5. CommandKnown'
    BY <1>0, <2>1 DEF CommandKnown, Transacting, Overwritable
  <2>6. CASE ~Transacting
    BY <2>1, <2>4, <2>5, <2>6 DEF CommandInv, Progress, Transacting
  <2>7. CASE Transacting
    <3>1. raced' = raced \cup {path} /\ files'[path] = content
          /\ \A other \in Paths \ {path} : files'[other] = files[other]
      BY <1>0, <2>1, <2>2, <2>7 DEF Transacting, Typed
    <3>2. ByUser(content)' /\ \A x : ByUser(x) => ByUser(x)'
      BY <2>1, <2>2 DEF ByUser
    <3>3. DOMAIN command.snapshots \subseteq Paths
      BY <1>0, <2>7, FileSetElements DEF CommandKnown
    <3>4. \A other \in Paths : \A x : Holds(other, x) \/ other = path => Holds(other, x)'
      BY <3>1, <3>2 DEF Holds
    <3>5. Progress'
      BY <1>0, <2>1, <3>1, <3>3, <3>4 DEF Progress, Obsolete
    <3> QED
      BY <2>4, <2>5, <3>5 DEF CommandInv
  <2> QED
    BY <2>6, <2>7
<1>16. ASSUME Release PROVE CommandInv'
  <2>1. version' \in Nat /\ UNCHANGED <<files, lock, backups, pc, command, todo, raced,
                                        edits, faults, crashed>>
    BY <1>0, <1>16 DEF Release, project, Typed
  <2> QED
    BY <1>0, <2>1 DEF CommandInv, Typed, CommandKnown, Progress, Transacting,
                     Overwritable, Holds, ByUser, Obsolete
<1>17. ASSUME Crash PROVE CommandInv'
  <2>1. Typed'
    BY <1>0, <1>17 DEF Crash, Done, Fault, project, Typed
  <2> QED
    BY <1>17, <2>1, CommandOver DEF Crash, Done
<1>18. ASSUME UNCHANGED vars PROVE CommandInv'
  BY <1>0, <1>18 DEF vars, project, CommandInv, Typed, CommandKnown, Progress,
                    Transacting, Overwritable, Holds, ByUser, Obsolete
<1> QED
  BY <1>1, <1>2, <1>3, <1>4, <1>5, <1>6, <1>7, <1>8, <1>9, <1>10, <1>11, <1>12,
     <1>13, <1>14, <1>15, <1>16, <1>17, <1>18 DEF Next, Step
----------------------------------------------------------------------------
LEMMA TruthInit == Init => TruthInv
<1> SUFFICES ASSUME Init PROVE TruthInv
  OBVIOUS
<1>1. CommandInv
  BY CommandInit
<1>2. Accounts
  BY DEF Init, Accounts, BackupsAccounted, Accounted, Installed, Owned, Transacting
<1> QED
  BY <1>1, <1>2 DEF TruthInv

(* What is accounted for stays so, as long as the lock does.               *)
LEMMA AccountedStays ==
  ASSUME edits \in Nat, edits' \in {edits, edits + 1}
  PROVE  /\ \A content : ByUser(content) => ByUser(content)'
         /\ lock' = lock =>
               \A path, content : Accounted(path, content) => Accounted(path, content)'
<1>1. edits > 0 => edits' > 0
  OBVIOUS
<1>2. \A content : ByUser(content) => ByUser(content)'
  BY <1>1 DEF ByUser
<1> QED
  BY <1>2 DEF Accounted, Installed, Owned

(* An edit of the user, or no file, is not what was installed.             *)
LEMMA NotInstalled ==
  \A content : content = None \/ ByUser(content) => ~Installed(content)
  BY DEF ByUser, Installed

(* A transaction begins with an account of everything.                     *)
LEMMA ApplyAccounts ==
  ASSUME Typed, Accounts, pc \in {"idle", "backedUp"}, NEW op,
         NEW desired \in FileSets, NEW installed,
         Apply(op, desired, installed), UNCHANGED <<project, version, edits, faults, crashed>>,
         \A path \in DOMAIN desired :
            desired[path] = installed.owned[path] \/ ByUser(desired[path])
  PROVE  Accounts'
<1> DEFINE paths == (DOMAIN desired) \cup Owned(lock)
<1>1. paths \in SUBSET Paths
  BY FileSetElements, OwnedPaths DEF Typed
<1>2. /\ DOMAIN Restrict(files, paths) = paths
      /\ \A path \in paths : Restrict(files, paths)[path] = files[path]
  BY <1>1, SomeFiles DEF Typed
<1>3. /\ command' = [op |-> op, desired |-> desired, installed |-> installed,
                     snapshots |-> Restrict(files, paths)]
      /\ pc' = "writing" /\ UNCHANGED <<files, lock, backups, edits>>
  BY DEF Apply, project
<1>4. /\ command'.desired = desired /\ command'.installed = installed
      /\ DOMAIN command'.snapshots = paths
      /\ \A path \in paths : command'.snapshots[path] = files[path]
  BY <1>2, <1>3
<1>5. \A path \in Paths : Accounted(path, files[path])
  BY DEF Accounts
<1>6. \A path \in paths : Accounted(path, command.snapshots[path])'
  BY <1>1, <1>3, <1>4, <1>5 DEF Accounted, Installed, ByUser, Owned
<1>7. \A path \in Paths \ paths : ~Installed(files[path])
  BY <1>5 DEF Accounted
<1>8. BackupsAccounted'
  BY <1>3 DEF Accounts, BackupsAccounted, ByUser
<1>9. (\A path \in DOMAIN command.desired :
           \/ command.desired[path] = command.installed.owned[path]
           \/ ByUser(command.desired[path]))'
  BY <1>3, <1>4 DEF ByUser
<1> QED
  BY <1>3, <1>4, <1>6, <1>7, <1>8, <1>9 DEF Accounts, TransactionAccounted, Installed

LEMMA InstallAccounts ==
  ASSUME Typed, Accounts, pc \in {"idle", "backedUp"}, NEW op, NEW profile \in Profiles,
         Install(op, profile), UNCHANGED <<project, version, edits, faults, crashed>>
  PROVE  Accounts'
<1> DEFINE desired == Desired(profile)
           installed == [profile |-> profile, owned |-> desired]
<1>1. CASE Preflight(desired)
  <2>1. Apply(op, desired, installed)
    BY <1>1 DEF Install
  <2>2. desired \in FileSets /\ \A path \in DOMAIN desired : desired[path] = installed.owned[path]
    BY DesiredKnown
  <2> HIDE DEF desired, installed
  <2> QED
    BY <2>1, <2>2, ApplyAccounts
<1>2. CASE ~Preflight(desired)
  <2>1. pc' = "idle" /\ UNCHANGED <<files, lock, backups, edits>>
    BY <1>2 DEF Install, project
  <2> QED
    BY <2>1 DEF Accounts, BackupsAccounted, Accounted, Installed, ByUser, Owned, Transacting
<1> QED
  BY <1>1, <1>2

(* The backups stay accounted for when no upgrade adds one.                *)
LEMMA BackupsStay ==
  ASSUME BackupsAccounted, backups' = backups, edits \in Nat, edits' \in {edits, edits + 1}
  PROVE  BackupsAccounted'
<1>1. edits > 0 => edits' > 0
  OBVIOUS
<1> QED
  BY <1>1 DEF BackupsAccounted, ByUser

(* A transaction writes only what there is a snapshot of, unless it is the *)
(* user who writes.                                                        *)
LEMMA TransactionStays ==
  ASSUME TransactionAccounted, UNCHANGED <<lock, command>>,
         edits \in Nat, edits' \in {edits, edits + 1},
         \A path \in Paths \ DOMAIN command.snapshots :
            files'[path] = files[path] \/ ~Installed(files'[path])
  PROVE  TransactionAccounted'
<1>1. edits > 0 => edits' > 0
  OBVIOUS
<1>2. (\A path \in DOMAIN command.snapshots : Accounted(path, command.snapshots[path]))'
  BY <1>1 DEF TransactionAccounted, Accounted, Installed, ByUser, Owned
<1>3. (\A path \in Paths \ DOMAIN command.snapshots : ~Installed(files[path]))'
  BY DEF TransactionAccounted, Installed
<1>4. (\A path \in DOMAIN command.desired :
          \/ command.desired[path] = command.installed.owned[path]
          \/ ByUser(command.desired[path]))'
  BY <1>1 DEF TransactionAccounted, ByUser
<1> QED
  BY <1>2, <1>3, <1>4 DEF TransactionAccounted

LEMMA TruthStep ==
  ASSUME TruthInv, [Next]_vars
  PROVE  TruthInv'
<1>0. CommandInv /\ Typed /\ CommandKnown /\ Progress
  BY DEF TruthInv, CommandInv
<1>1. CommandInv'
  BY CommandStep DEF TruthInv
<1> SUFFICES ASSUME ~crashed' PROVE Accounts'
  BY <1>1 DEF TruthInv
<1>2. edits \in Nat /\ \A x : ~Installed(x) <=> x = None \/ x.by # "distribution"
  BY <1>0 DEF Typed, Installed
<1>3. ASSUME ~crashed, NEW profile \in Profiles, Initialize(profile) PROVE Accounts'
  BY <1>0, <1>3, InstallAccounts DEF Initialize, TruthInv
<1>4. ASSUME ~crashed, NEW profile \in Profiles, Upgrade(profile) PROVE Accounts'
  <2>1. Accounts /\ backups \in Seq(Backups)
    BY <1>0, <1>4 DEF TruthInv, Typed
  <2>2. /\ pc = "idle" /\ pc' = "backedUp" /\ UNCHANGED <<files, lock, edits>>
        /\ backups' = Append(backups, [lock |-> lock, files |-> Restrict(files, Owned(lock))])
    BY <1>4 DEF Upgrade
  <2>3. \A path \in Paths : Accounted(path, files[path])
    BY <2>1, <2>2 DEF Accounts
  <2>4. Owned(lock) \in SUBSET Paths
    BY <1>0, OwnedPaths DEF Typed
  <2>5. /\ DOMAIN Restrict(files, Owned(lock)) = Owned(lock)
        /\ \A path \in Owned(lock) : Restrict(files, Owned(lock))[path] = files[path]
    BY <1>0, <2>4, SomeFiles DEF Typed
  <2>6. \A i \in DOMAIN backups' :
           \/ i \in DOMAIN backups /\ backups'[i] = backups[i]
           \/ backups'[i] = [lock |-> lock, files |-> Restrict(files, Owned(lock))]
    BY <2>1, <2>2
  <2>7. BackupsAccounted'
    BY <2>1, <2>2, <2>3, <2>4, <2>5, <2>6 DEF Accounts, BackupsAccounted, Accounted, ByUser
  <2> QED
    BY <2>2, <2>3, <2>7 DEF Accounts, Accounted, Installed, ByUser, Owned, Transacting
<1>5. ASSUME ~crashed, InstallUpgrade PROVE Accounts'
  <2>1. command.profile \in Profiles
    BY <1>0, <1>5 DEF InstallUpgrade, Typed
  <2> QED
    BY <1>0, <1>5, <2>1, InstallAccounts DEF InstallUpgrade, TruthInv
<1>6. ASSUME ~crashed, NEW i \in DOMAIN backups, Rollback(backups[i]) PROVE Accounts'
  <2> DEFINE backup == backups[i]
  <2>1. backup.files \in FileSets
    BY <1>0 DEF Typed, Backups
  <2>2. pc = "idle" /\ Apply("rollback", backup.files, backup.lock)
        /\ UNCHANGED <<project, version, edits, faults, crashed>>
    BY <1>6 DEF Rollback
  <2>3. \A path \in DOMAIN backup.files :
           backup.files[path] = backup.lock.owned[path] \/ ByUser(backup.files[path])
    BY <1>6 DEF TruthInv, Accounts, BackupsAccounted
  <2> HIDE DEF backup
  <2> QED
    BY <1>0, <1>6, <2>1, <2>2, <2>3, ApplyAccounts DEF TruthInv
<1>7. ASSUME ~crashed, Transacting, Transacting',
             UNCHANGED <<lock, backups, command>>, edits' \in {edits, edits + 1},
             \A path \in Paths \ DOMAIN command.snapshots :
                files'[path] = files[path] \/ ~Installed(files'[path])
      PROVE  Accounts'
  <2>1. BackupsAccounted /\ TransactionAccounted
    BY <1>7 DEF TruthInv, Accounts
  <2>2. BackupsAccounted' /\ TransactionAccounted'
    BY <1>2, <1>7, <2>1, BackupsStay, TransactionStays
  <2> QED
    BY <1>7, <2>2 DEF Accounts, Transacting
<1>8. ASSUME ~crashed, NEW path \in Paths, Write(path) PROVE Accounts'
  <2>1. path \in DOMAIN command.snapshots
    BY <1>0, <1>8 DEF Write, Progress, CommandKnown, Transacting
  <2> QED
    BY <1>0, <1>7, <1>8, <2>1 DEF Write, Typed, Transacting
<1>9. ASSUME ~crashed, Written PROVE Accounts'
  BY <1>7, <1>9 DEF Written, project, Transacting
<1>10. ASSUME ~crashed, NEW path \in Paths, RemoveObsolete(path) PROVE Accounts'
  <2>1. \A other \in Paths : files'[other] = files[other] \/ ~Installed(files'[other])
    BY <1>0, <1>10 DEF RemoveObsolete, Typed, Installed
  <2> QED
    BY <1>7, <1>10, <2>1 DEF RemoveObsolete, Fails, Transacting
<1>11. ASSUME ~crashed, WriteLock PROVE Accounts'
  <2>1. /\ pc = "removing" /\ todo = {} /\ pc' = "idle" /\ lock' = command.installed
        /\ UNCHANGED <<files, backups, edits>>
    BY <1>11 DEF WriteLock, Done
  <2>2. BackupsAccounted /\ TransactionAccounted
    BY <1>11, <2>1 DEF TruthInv, Accounts, Transacting
  <2>3. /\ lock' # None /\ Owned(lock)' = DOMAIN command.desired
        /\ DOMAIN command.desired \subseteq DOMAIN command.snapshots
    BY <1>0, <2>1, NullAssumption DEF CommandKnown, Transacting, Owned
  <2>4. \A path \in DOMAIN command.snapshots :
           Holds(path, IF path \in DOMAIN command.desired THEN command.desired[path] ELSE None)
    BY <1>0, <2>1 DEF Progress
  <2>5. ASSUME NEW path \in Paths PROVE Accounted(path, files[path])'
    <3>1. CASE path \in DOMAIN command.desired
      <4>1. files[path] = command.installed.owned[path] \/ ByUser(files[path])
        BY <2>2, <2>3, <2>4, <3>1 DEF Holds, TransactionAccounted
      <4> QED
        BY <2>1, <2>3, <3>1, <4>1 DEF Accounted, ByUser
    <3>2. CASE path \notin DOMAIN command.desired
      <4>1. ~Installed(files[path])
        BY <2>2, <2>4, <3>2, NotInstalled DEF Holds, TransactionAccounted
      <4> QED
        BY <2>1, <2>3, <3>2, <4>1 DEF Accounted, Installed
    <3> QED
      BY <3>1, <3>2
  <2>6. BackupsAccounted'
    BY <1>2, <2>1, <2>2, BackupsStay
  <2> QED
    BY <2>1, <2>5, <2>6 DEF Accounts, Transacting
<1>12. ASSUME ~crashed, WriteFails PROVE Accounts'
  BY <1>7, <1>12 DEF WriteFails, Fails, project, Transacting
<1>13. ASSUME ~crashed, NEW path \in Paths, RestoreFile(path) PROVE Accounts'
  <2>1. path \in DOMAIN command.snapshots
    BY <1>0, <1>13 DEF RestoreFile, Progress
  <2> QED
    BY <1>0, <1>7, <1>13, <2>1 DEF RestoreFile, Typed, Transacting
<1>14. ASSUME ~crashed, Restored PROVE Accounts'
  <2>1. /\ pc = "restoring" /\ todo = {} /\ pc' = "idle"
        /\ UNCHANGED <<files, lock, backups, edits>>
    BY <1>14 DEF Restored, Done, project
  <2>2. BackupsAccounted /\ TransactionAccounted
    BY <1>14, <2>1 DEF TruthInv, Accounts, Transacting
  <2>3. Owned(lock) \subseteq DOMAIN command.snapshots
    BY <1>0, <2>1 DEF CommandKnown, Transacting
  <2>4. \A path \in DOMAIN command.snapshots : Holds(path, command.snapshots[path])
    BY <1>0, <2>1 DEF Progress
  <2>5. ASSUME NEW path \in Paths PROVE Accounted(path, files[path])
    <3>1. CASE path \in DOMAIN command.snapshots
      <4>1. Accounted(path, command.snapshots[path]) /\ Holds(path, command.snapshots[path])
        BY <2>2, <2>4, <3>1 DEF TransactionAccounted
      <4> QED
        BY <4>1, NotInstalled DEF Holds, Accounted
    <3>2. CASE path \notin DOMAIN command.snapshots
      BY <2>2, <2>3, <3>2 DEF Accounted, TransactionAccounted
    <3> QED
      BY <3>1, <3>2
  <2>6. BackupsAccounted'
    BY <1>2, <2>1, <2>2, BackupsStay
  <2> QED
    BY <2>1, <2>5, <2>6 DEF Accounts, Transacting, Accounted, Installed, ByUser, Owned
<1>15. ASSUME ~crashed, Uninstall PROVE Accounts'
  <2>1. /\ pc = "idle" /\ pc' = "uninstalling" /\ todo' = Owned(lock)
        /\ UNCHANGED <<files, lock, backups, edits>>
    BY <1>15 DEF Uninstall, project
  <2>2. BackupsAccounted /\ \A path \in Paths : Accounted(path, files[path])
    BY <1>15, <2>1 DEF TruthInv, Accounts
  <2>3. BackupsAccounted'
    BY <1>2, <2>1, <2>2, BackupsStay
  <2> QED
    BY <2>1, <2>2, <2>3 DEF Accounts, Transacting, Accounted, Installed, ByUser, Owned
<1>16. ASSUME ~crashed, NEW path \in Paths, RemoveOwned(path) PROVE Accounts'
  <2>1. /\ pc = "uninstalling" /\ pc' = "uninstalling" /\ path \in todo /\ todo' = todo \ {path}
        /\ UNCHANGED <<lock, backups, edits>>
        /\ files' = IF Unchanged(lock, path) THEN [files EXCEPT ![path] = None] ELSE files
    BY <1>16 DEF RemoveOwned
  <2>2. /\ BackupsAccounted
        /\ \A other \in Paths : IF other \in todo THEN Accounted(other, files[other])
                                ELSE ~Installed(files[other])
    BY <1>16, <2>1 DEF TruthInv, Accounts
  <2>3. BackupsAccounted'
    BY <1>2, <2>1, <2>2, BackupsStay
  <2>4. ~Installed(files'[path])
    <3>1. CASE Unchanged(lock, path)
      BY <1>0, <2>1, <3>1 DEF Typed, Installed
    <3>2. CASE ~Unchanged(lock, path)
      BY <2>1, <2>2, <3>2, NotInstalled DEF Accounted, Unchanged
    <3> QED
      BY <3>1, <3>2
  <2>5. \A other \in Paths \ {path} : files'[other] = files[other]
    BY <1>0, <2>1 DEF Typed
  <2> QED
    BY <2>1, <2>2, <2>3, <2>4, <2>5
       DEF Accounts, Transacting, Accounted, Installed, ByUser, Owned
<1>17. ASSUME ~crashed, RemoveLock PROVE Accounts'
  <2>1. /\ pc = "uninstalling" /\ todo = {} /\ pc' = "idle" /\ lock' = None
        /\ UNCHANGED <<files, backups, edits>>
    BY <1>17 DEF RemoveLock, Done
  <2>2. BackupsAccounted /\ \A path \in Paths : ~Installed(files[path])
    BY <1>17, <2>1 DEF TruthInv, Accounts
  <2>3. BackupsAccounted'
    BY <1>2, <2>1, <2>2, BackupsStay
  <2> QED
    BY <2>1, <2>2, <2>3 DEF Accounts, Transacting, Accounted, Installed, Owned
<1>18. ASSUME ~crashed, NEW path \in Paths, Edit(path) PROVE Accounts'
  <2>1. edits' = edits + 1 /\ UNCHANGED <<lock, backups, pc, command, todo>>
    BY <1>18 DEF Edit
  <2>2. files'[path] = None \/ files'[path].by = "user"
    BY <1>0, <1>18 DEF Edit, Content, Typed
  <2>3. \A other \in Paths \ {path} : files'[other] = files[other]
    BY <1>0, <1>18 DEF Edit, Typed
  <2>4. ByUser(files[path])' /\ ~Installed(files'[path])
    BY <1>2, <2>1, <2>2 DEF ByUser, Installed
  <2>5. BackupsAccounted'
    BY <1>2, <1>18, <2>1, BackupsStay DEF TruthInv, Accounts
  <2>6. CASE Transacting
    BY <1>7, <1>18, <2>1, <2>3, <2>4, <2>6 DEF Transacting
  <2>7. CASE ~Transacting
    <3>1. \A other, x : Accounted(other, x) => Accounted(other, x)'
      BY <1>2, <2>1, AccountedStays
    <3>2. Accounted(path, files[path])'
      BY <2>4 DEF Accounted, Installed
    <3>3. \A other \in Paths \ {path} : Accounted(other, files[other]) => Accounted(other, files[other])'
      BY <1>2, <2>1, <2>3 DEF Accounted, Installed, ByUser, Owned
    <3> QED
      BY <1>18, <2>1, <2>3, <2>4, <2>5, <2>7, <3>2, <3>3
         DEF TruthInv, Accounts, Transacting, Installed
  <2> QED
    BY <2>6, <2>7
<1>19. ASSUME ~crashed, UNCHANGED <<project, pc, command, todo, raced, edits>> PROVE Accounts'
  BY <1>19 DEF TruthInv, project, Accounts, BackupsAccounted, TransactionAccounted,
               Transacting, Accounted, Installed, ByUser, Owned
<1>20. ~crashed /\ ~Crash
  BY DEF Crash, Next, Step, vars, project, Initialize, Upgrade, InstallUpgrade, Rollback,
     Write, Written, RemoveObsolete, WriteLock, WriteFails, RestoreFile, Restored,
     Uninstall, RemoveOwned, RemoveLock, Edit, Release
<1>21. CASE Next
  BY <1>3, <1>4, <1>5, <1>6, <1>8, <1>9, <1>10, <1>11, <1>12, <1>13, <1>14, <1>15,
     <1>16, <1>17, <1>18, <1>19, <1>20, <1>21 DEF Next, Step, Release
<1>22. CASE UNCHANGED vars
  BY <1>19, <1>20, <1>22 DEF vars
<1> QED
  BY <1>21, <1>22
----------------------------------------------------------------------------
(* What a step may do to what the user has written, and how a transaction  *)
(* ends: the bodies of UserWorkKept and AllOrNothing.                      *)
StepKeepsWork ==
    \A path \in Paths \ raced :
       files'[path] # files[path] /\ edits' = edits =>
          \/ files[path] = None
          \/ Unchanged(lock, path)
          \/ /\ path = Config /\ files'[path] # None
             /\ SameText(files[path], files'[path])
          \/ pc = "restoring" /\ files[path] = command.desired[path]

LEMMA WorkKeptByStep ==
  ASSUME CommandInv, Next
  PROVE  StepKeepsWork
<1>0. Typed /\ CommandKnown /\ Progress
  BY DEF CommandInv
<1> SUFFICES ASSUME NEW path \in Paths \ raced, files'[path] # files[path], edits' = edits
             PROVE  \/ files[path] = None
                    \/ Unchanged(lock, path)
                    \/ /\ path = Config /\ files'[path] # None
                       /\ SameText(files[path], files'[path])
                    \/ pc = "restoring" /\ files[path] = command.desired[path]
  BY DEF StepKeepsWork
<1>1. ASSUME NEW other \in Paths, Write(other) PROVE other = path => Overwritable(path)
                                                   /\ files[path] = command.snapshots[path]
                                                   /\ files'[path] = command.desired[path]
  BY <1>0, <1>1 DEF Write, Progress, CommandKnown, Transacting, Holds, Typed
<1>2. ASSUME NEW other \in Paths, Write(other)
      PROVE  \/ files[path] = None
             \/ Unchanged(lock, path)
             \/ /\ path = Config /\ files'[path] # None
                /\ SameText(files[path], files'[path])
  <2>1. other = path
    BY <1>0, <1>2 DEF Write, Typed
  <2> QED
    BY <1>1, <1>2, <2>1 DEF Overwritable, Unchanged
<1>3. ASSUME NEW other \in Paths, RemoveObsolete(other)
      PROVE  files[path] = None \/ Unchanged(lock, path)
  BY <1>0, <1>3 DEF RemoveObsolete, Typed
<1>4. ASSUME NEW other \in Paths, RestoreFile(other)
      PROVE  \/ files[path] = None
             \/ pc = "restoring" /\ files[path] = command.desired[path]
  <2>1. other = path /\ pc = "restoring" /\ files'[path] = command.snapshots[path]
    BY <1>0, <1>4 DEF RestoreFile, Before, Typed
  <2>2. path \in DOMAIN command.snapshots
    BY <1>0, <1>4, <2>1 DEF RestoreFile, Progress
  <2>3. ~Holds(path, command.snapshots[path])
    BY <2>1 DEF Holds
  <2> QED
    BY <1>0, <2>1, <2>2, <2>3 DEF Progress
<1>5. ASSUME NEW other \in Paths, RemoveOwned(other) PROVE Unchanged(lock, path)
  BY <1>0, <1>5 DEF RemoveOwned, Typed
<1>6. ASSUME NEW other \in Paths, Edit(other) PROVE FALSE
  BY <1>0, <1>6 DEF Edit, Typed
<1>7. \E other \in Paths : \/ Write(other) \/ RemoveObsolete(other) \/ RestoreFile(other)
                           \/ RemoveOwned(other) \/ Edit(other)
  BY DEF Next, Step, project, Initialize, Upgrade, InstallUpgrade, Rollback, Written,
     WriteLock, WriteFails, Restored, Uninstall, RemoveLock, Release, Crash
<1> QED
  BY <1>2, <1>3, <1>4, <1>5, <1>6, <1>7

StepEndsWhole ==
    pc' = "idle" /\ pc \in {"removing", "restoring"} /\ ~crashed' =>
       LET done == pc = "removing"
           wanted == IF done THEN command.desired ELSE command.snapshots
       IN  /\ \A path \in (DOMAIN command.snapshots) \ raced :
                 files'[path] = IF path \in DOMAIN wanted THEN wanted[path] ELSE None
           /\ lock' = IF done THEN command.installed ELSE lock

LEMMA WholeAtEnd ==
  ASSUME CommandInv, Next
  PROVE  StepEndsWhole
<1>0. Typed /\ CommandKnown /\ Progress
  BY DEF CommandInv
<1> SUFFICES ASSUME pc' = "idle", pc \in {"removing", "restoring"}, ~crashed'
             PROVE  StepEndsWhole
  BY DEF StepEndsWhole
<1>1. WriteLock \/ Restored
  BY DEF Next, Step, Initialize, Upgrade, InstallUpgrade, Rollback, Write, Written,
     RemoveObsolete, WriteFails, Fails, RestoreFile, Uninstall, RemoveOwned, RemoveLock,
     Edit, Release, Crash
<1>2. CASE WriteLock
  <2>1. pc = "removing" /\ todo = {} /\ files' = files /\ lock' = command.installed
    BY <1>2 DEF WriteLock
  <2>2. \A path \in (DOMAIN command.snapshots) \ raced :
           files[path] = IF path \in DOMAIN command.desired THEN command.desired[path] ELSE None
    BY <1>0, <2>1 DEF Progress, Holds
  <2> QED
    BY <2>1, <2>2 DEF StepEndsWhole
<1>3. CASE Restored
  <2>1. pc = "restoring" /\ todo = {} /\ files' = files /\ lock' = lock
    BY <1>3 DEF Restored, project
  <2>2. \A path \in (DOMAIN command.snapshots) \ raced :
           files[path] = command.snapshots[path]
    BY <1>0, <2>1 DEF Progress, Holds
  <2> QED
    BY <2>1, <2>2 DEF StepEndsWhole
<1> QED
  BY <1>1, <1>2, <1>3
----------------------------------------------------------------------------
(* Whenever no command is under way and none was cut short, an owned file  *)
(* differs from what project.lock records only by the user's doing, and    *)
(* what was installed is owned (init, upgrade, rollback, uninstall).       *)
THEOREM LockIsTruthful == Spec => []LockTruthful
<1>1. TruthInv => LockTruthful
  <2>1. ASSUME TruthInv, NEW path \in Paths, files[path] # None PROVE files[path] \in Contents
    BY <2>1 DEF TruthInv, CommandInv, Typed
  <2>2. ASSUME TruthInv, pc = "idle", ~crashed
        PROVE  /\ \A path \in Owned(lock) :
                     \/ Unchanged(lock, path)
                     \/ edits > 0 /\ (files[path] = None \/ files[path].by = "user")
               /\ \A path \in Paths :
                     files[path] # None /\ files[path].by = "distribution"
                        => path \in Owned(lock)
    <3>1. \A path \in Paths : Accounted(path, files[path])
      BY <2>2 DEF TruthInv, Accounts
    <3>2. Owned(lock) \subseteq Paths
      BY <2>2, OwnedPaths DEF TruthInv, CommandInv, Typed
    <3> QED
      BY <3>1, <3>2 DEF Accounted, Unchanged, ByUser, Installed
  <2> QED
    BY <2>1, <2>2 DEF LockTruthful
<1> QED
  BY <1>1, TruthInit, TruthStep, PTL DEF Spec

(* No command destroys what the user has written (the preflight, the       *)
(* checks before a removal, and _restore).                                 *)
THEOREM CommandsKeepUserWork == Spec => UserWorkKept
<1>1. CommandInv /\ [Next]_vars => [StepKeepsWork]_vars
  BY WorkKeptByStep
<1>2. CommandInv /\ [Next]_vars => CommandInv'
  BY CommandStep
<1>3. Spec => [][StepKeepsWork]_vars
  BY <1>1, <1>2, CommandInit, PTL DEF Spec
<1> QED
  BY <1>3 DEF UserWorkKept, StepKeepsWork

(* A transaction that is not cut short leaves exactly what it was to       *)
(* install, with a lock that says so, or everything as it found it         *)
(* (_apply, _restore), but for what the user edits meanwhile.              *)
THEOREM TransactionsAreWhole == Spec => AllOrNothing
<1>1. CommandInv /\ [Next]_vars => [StepEndsWhole]_vars
  BY WholeAtEnd
<1>2. CommandInv /\ [Next]_vars => CommandInv'
  BY CommandStep
<1>3. Spec => [][StepEndsWhole]_vars
  BY <1>1, <1>2, CommandInit, PTL DEF Spec
<1> QED
  BY <1>3 DEF AllOrNothing, StepEndsWhole
=============================================================================
