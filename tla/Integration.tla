---------------------------- MODULE Integration ----------------------------
(***************************************************************************)
(* One integration transaction on the user's checkout, and its recovery    *)
(* (integration/transaction.py, checkout.py, recovery.py, and the part of  *)
(* controller/execution.py that calls them).                               *)
(*                                                                         *)
(* A step is one git command, or several that only read.  Between any two  *)
(* the user edits, commits or switches branches, and the engine may die.   *)
(* A commit is the sequence of commits that leads to it, each with its     *)
(* author and its tree.  HEAD is on a branch.                              *)
(***************************************************************************)
EXTENDS Naturals, Sequences, SequencesExt

CONSTANTS
    Paths, Branches,
    BaseTree,  \* the tree everything starts from
    Touched,   \* the paths the candidate changes
    None,
    MaxMoves,  \* bound: what the user does
    MaxFaults  \* bound: crashes, interrupts, failed writes

VARIABLES
    refs,      \* the commit of each branch
    head,      \* the branch HEAD is on
    index,     \* for each path, what the index has
    files,     \* and what the working tree has
    saved      \* <<path, content>> moved to aiflow/recovery

VARIABLES
    pc,
    mode,      \* whose integration it is: see Modes
    before,    \* record: target_before
    prepared,  \* record: target_ref, once the transaction is prepared
    bound,     \* the target_ref of the transaction
    seen,      \* the commit to put the checkout back to
    verdict,   \* of the task: accepted, failed or blocked
    gates,     \* whether the candidate passes its gates
    disturbed, \* "torn" once a crash has cut read-tree short, "yes" once the
               \* user, Ctrl-C or a failed write has interfered, else "no"
    moves, faults

checkout == <<refs, head, index, files, saved>>
record == <<before, prepared>>
control == <<mode, bound, seen, verdict, gates>>
vars == <<checkout, pc, record, control, disturbed, moves, faults>>

(* Contents of a path.  Greater ones are edits, each different.            *)
Absent == 0
Base == 1
Merged == 2
IsEdit(content) == content > Merged

ASSUME TreeAssumption ==
    /\ BaseTree \in [Paths -> {Absent, Base}]
    /\ Touched \subseteq Paths /\ Touched # {}
    /\ None \notin Branches /\ None \notin {"accepted", "failed", "blocked"}
    /\ MaxMoves \in Nat /\ MaxFaults \in Nat
----------------------------------------------------------------------------
Tree(commit) == Last(commit).tree
HEAD == refs[head]
Authors(commit) == [i \in DOMAIN commit |-> commit[i].by]

(* git merge --no-commit --no-ff, and the commit-tree of what it wrote.    *)
Conflict == \E p \in Touched : Tree(before)[p] # BaseTree[p]
Tested == [p \in Paths |-> IF p \in Touched THEN Merged ELSE Tree(before)[p]]
Integrated == Append(before, [by |-> "aiflow", tree |-> Tested])

(* status --porcelain against HEAD, or _target_dirty_against.              *)
CleanAt(commit) == index = Tree(commit) /\ files = index
Clean == CleanAt(HEAD)

Untracked == {p \in Paths : index[p] = Absent /\ files[p] # Absent}

(* git read-tree -u -m from to: a two-way merge, refused as a whole when a *)
(* path that changes is neither there already nor clean, or is untracked.  *)
Changed(from, to) == {p \in Paths : Tree(from)[p] # Tree(to)[p]}
Updated(from, to) == {p \in Changed(from, to) : index[p] # Tree(to)[p]}

(* Faulty variant: overwrites what is not clean, as read-tree --reset.     *)
FaultyCanRead(from, to) == \A p \in Updated(from, to) : index[p] = Tree(from)[p]

CanRead(from, to) ==
    /\ Changed(from, to) \cap Untracked = {}
    /\ \A p \in Updated(from, to) :
         index[p] = Tree(from)[p] /\ files[p] \in {index[p], Absent}

Over(old, paths, to) == [p \in Paths |-> IF p \in paths THEN Tree(to)[p] ELSE old[p]]

ReadTree(from, to) ==
    IF CanRead(from, to)
    THEN /\ index' = Over(index, Updated(from, to), to)
         /\ files' = Over(files, Updated(from, to), to)
    ELSE UNCHANGED <<index, files>>

(* git update-ref bound before Integrated                                  *)
MoveBack ==
    refs' = IF refs[bound] = Integrated THEN [refs EXCEPT ![bound] = before] ELSE refs

Goto(step) == pc' = step
Fault == faults < MaxFaults /\ faults' = faults + 1
End(result) == verdict' = result /\ Goto("done")
----------------------------------------------------------------------------
(* fresh: the first try.  reapply: a later engine applies it again.        *)
(* recheck, resume: recover_pending_checkout, called for the first try     *)
(* when it has failed, or by a later engine.                               *)
Modes == {"fresh", "reapply", "recheck", "resume"}
Applying == mode \in {"fresh", "reapply"}

(* apply() does not return ok, or raises; recover_pending_checkout rolls   *)
(* back when its refresh fails.                                            *)
Fail == Goto(IF Applying THEN "failing" ELSE "preserve")

Init ==
    /\ refs = [b \in Branches |-> <<[by |-> "user", tree |-> BaseTree]>>]
    /\ head \in Branches
    /\ index = BaseTree /\ files = BaseTree
    /\ saved = {}
    /\ pc = "stage"
    /\ mode = "fresh"
    /\ before = None /\ prepared = None
    /\ bound = None /\ seen = None
    /\ verdict = None
    /\ gates \in BOOLEAN
    /\ disturbed = "no"
    /\ moves = 0 /\ faults = 0

(* stage_integration saves target_before.                                  *)
Stage ==
    /\ pc = "stage"
    /\ before' = HEAD
    /\ Goto("capture")
    /\ UNCHANGED <<checkout, prepared, control, disturbed, moves, faults>>

(* apply(): the branch and commit it is bound to, and expected_head.       *)
Capture ==
    /\ pc = "capture"
    /\ IF HEAD = before
       THEN bound' = head /\ Goto("test")
       ELSE UNCHANGED bound /\ Fail
    /\ UNCHANGED <<checkout, record, mode, seen, verdict, gates, disturbed, moves, faults>>

(* _test_candidate, in the temporary worktree.                             *)
Test ==
    /\ pc = "test"
    /\ IF Clean /\ ~Contains(Authors(before), "aiflow") /\ ~Conflict /\ gates
       THEN Goto("check")
       ELSE Fail
    /\ UNCHANGED <<checkout, record, control, disturbed, moves, faults>>

Undrifted(commit) == head = bound /\ HEAD = commit

(* The target is as it was captured: before _record_prepared and after it. *)
Check(step, next) ==
    /\ pc = step
    /\ IF Undrifted(before) /\ Clean THEN Goto(next) ELSE Fail
    /\ UNCHANGED <<checkout, record, control, disturbed, moves, faults>>

(* on_prepared, which saves the record or raises.                          *)
RecordPrepared ==
    /\ pc = "record"
    /\ \/ prepared' = bound /\ Goto("recorded") /\ UNCHANGED <<disturbed, faults>>
       \/ UNCHANGED prepared /\ Fail /\ Fault /\ disturbed' = "yes"
    /\ UNCHANGED <<checkout, before, control, moves>>

(* Faulty variant: update-ref without the old value.                       *)
FaultySwap ==
    /\ pc = "swap"
    /\ refs' = [refs EXCEPT ![bound] = Integrated] /\ Goto("bound")
    /\ UNCHANGED <<head, index, files, saved, record, control, disturbed, moves, faults>>

(* git update-ref bound Integrated before                                  *)
Swap ==
    /\ pc = "swap"
    /\ IF refs[bound] = before
       THEN refs' = [refs EXCEPT ![bound] = Integrated] /\ Goto("bound")
       ELSE UNCHANGED refs /\ Fail
    /\ UNCHANGED <<head, index, files, saved, record, control, disturbed, moves, faults>>

(* HEAD is still on the branch.                                            *)
CheckBranch ==
    /\ pc = "bound"
    /\ Goto(IF head = bound THEN "unedited" ELSE "withdraw")
    /\ UNCHANGED <<checkout, record, control, disturbed, moves, faults>>

(* Faulty variant: reports the dirty target and leaves the branch moved.   *)
FaultyCheckFiles ==
    /\ pc = "unedited"
    /\ IF CleanAt(before) THEN Goto("refresh") ELSE Fail
    /\ UNCHANGED <<checkout, record, control, disturbed, moves, faults>>

(* The files are those the branch had before.                              *)
CheckFiles ==
    /\ pc = "unedited"
    /\ Goto(IF CleanAt(before) THEN "refresh" ELSE "withdraw")
    /\ UNCHANGED <<checkout, record, control, disturbed, moves, faults>>

Withdraw ==
    /\ pc = "withdraw"
    /\ MoveBack
    /\ Fail
    /\ UNCHANGED <<head, index, files, saved, record, control, disturbed, moves, faults>>
----------------------------------------------------------------------------
(* refresh_bound_target.                                                   *)

Refresh ==
    /\ pc = "refresh"
    /\ ReadTree(before, Integrated)
    /\ Goto(IF CanRead(before, Integrated) THEN "refreshed" ELSE "withdraw")
    /\ UNCHANGED <<refs, head, saved, record, control, disturbed, moves, faults>>

CheckHead ==
    /\ pc = "refreshed"
    /\ seen' = HEAD
    /\ Goto(IF Undrifted(Integrated) THEN "applied" ELSE "unbind")
    /\ UNCHANGED <<checkout, record, mode, bound, verdict, gates, disturbed, moves, faults>>

Unbind ==
    /\ pc = "unbind"
    /\ MoveBack
    /\ Goto("follow")
    /\ UNCHANGED <<head, index, files, saved, record, control, disturbed, moves, faults>>

(* The files follow the commit that HEAD was seen at.                      *)
Follow ==
    /\ pc = "follow"
    /\ ReadTree(Integrated, seen)
    /\ Fail
    /\ UNCHANGED <<refs, head, saved, record, control, disturbed, moves, faults>>

(* The last look of _finalize, and of recover_pending_checkout.            *)
CheckApplied ==
    /\ pc = "applied"
    /\ Goto(IF Undrifted(Integrated) /\ Clean THEN "accept" ELSE "preserve")
    /\ UNCHANGED <<checkout, record, control, disturbed, moves, faults>>

Accept ==
    /\ pc = "accept"
    /\ End("accepted")
    /\ UNCHANGED <<checkout, record, mode, bound, seen, gates, disturbed, moves, faults>>
----------------------------------------------------------------------------
(* rollback_bound_target.                                                  *)

(* _preserve_untracked                                                     *)
Preserve ==
    /\ pc = "preserve"
    /\ saved' = saved \cup {<<p, files[p]>> : p \in Untracked}
    /\ files' = [p \in Paths |-> IF p \in Untracked THEN Absent ELSE files[p]]
    /\ Goto("look")
    /\ UNCHANGED <<refs, head, index, record, control, disturbed, moves, faults>>

Look ==
    /\ pc = "look"
    /\ seen' = IF head = bound THEN before ELSE HEAD
    /\ Goto("back")
    /\ UNCHANGED <<checkout, record, mode, bound, verdict, gates, disturbed, moves, faults>>

Back ==
    /\ pc = "back"
    /\ MoveBack
    /\ Goto("reset")
    /\ UNCHANGED <<head, index, files, saved, record, control, disturbed, moves, faults>>

(* It returns or raises; either way the integration has failed.            *)
Reset ==
    /\ pc = "reset"
    /\ ReadTree(Integrated, seen)
    /\ IF Applying
       THEN Goto("failing") /\ UNCHANGED verdict
       ELSE End(IF mode = "recheck" THEN "failed" ELSE "blocked")
    /\ UNCHANGED <<refs, head, saved, record, mode, bound, seen, gates, disturbed, moves,
                   faults>>

(* Ctrl-C while the transaction is in _apply_target.                       *)
Interrupt ==
    /\ Applying
    /\ pc \in {"record", "recorded", "swap", "bound", "unedited", "withdraw", "refresh",
               "refreshed", "unbind", "follow"}
    /\ Fault
    /\ Goto(IF refs[bound] = Integrated THEN "preserve" ELSE "failing")
    /\ disturbed' = "yes"
    /\ UNCHANGED <<checkout, record, control, moves>>
----------------------------------------------------------------------------
(* What the engine makes of it.                                            *)

(* pending_integration_matches                                             *)
InPlace == prepared # None /\ head = prepared /\ HEAD = Integrated /\ Clean

(* The window between update-ref and read-tree.                            *)
Unrefreshed ==
    /\ prepared # None /\ head = prepared /\ HEAD = Integrated
    /\ CleanAt(before)

(* Faulty variant: only a finished integration is recovered.               *)
FaultyRecover(caller, otherwise) ==
    /\ mode' = caller
    /\ IF InPlace
       THEN Goto(IF caller = "recheck" THEN "resume" ELSE "accept") /\ UNCHANGED verdict
       ELSE End(otherwise)
    /\ UNCHANGED bound

(* recover_pending_checkout: it is in place, or can be brought there, or   *)
(* is left as it is.                                                       *)
Recover(caller, otherwise) ==
    /\ mode' = caller
    /\ \/ /\ InPlace
          /\ Goto(IF caller = "recheck" THEN "resume" ELSE "accept")
          /\ UNCHANGED <<bound, verdict>>
       \/ /\ ~InPlace /\ Unrefreshed
          /\ bound' = prepared
          /\ Goto("refresh")
          /\ UNCHANGED verdict
       \/ /\ ~InPlace /\ ~Unrefreshed
          /\ End(otherwise)
          /\ UNCHANGED bound

(* The except branches of _step and of _recover_pending_integration.       *)
Failing ==
    /\ pc = "failing"
    /\ IF mode = "fresh"
       THEN Recover("recheck", "failed")
       ELSE End("blocked") /\ UNCHANGED <<mode, bound>>
    /\ UNCHANGED <<checkout, record, seen, gates, disturbed, moves, faults>>

(* _recover_pending_integration, by the same engine or a later one.        *)
Resume ==
    /\ pc \in {"resume", "down"}
    /\ IF HEAD = before
       THEN mode' = "reapply" /\ Goto("capture") /\ UNCHANGED <<bound, verdict>>
       ELSE Recover("resume", "blocked")
    /\ UNCHANGED <<checkout, record, seen, gates, disturbed, moves, faults>>

Running == pc \notin {"stage", "down", "done"}

Crash ==
    /\ Running
    /\ Fault
    /\ Goto("down")
    /\ UNCHANGED <<checkout, record, control, disturbed, moves>>

(* read-tree is killed: some files are updated, the index is not.          *)
TornRefresh ==
    /\ pc = "refresh" /\ CanRead(before, Integrated)
    /\ Fault
    /\ \E some \in (SUBSET Updated(before, Integrated)) \ {{}} :
         files' = Over(files, some, Integrated)
    /\ disturbed' = IF disturbed = "no" THEN "torn" ELSE disturbed
    /\ Goto("down")
    /\ UNCHANGED <<refs, head, index, saved, record, control, moves>>
----------------------------------------------------------------------------
(* The user.                                                               *)

Moving ==
    /\ Running \/ pc = "down"
    /\ moves < MaxMoves
    /\ moves' = moves + 1
    /\ disturbed' = "yes"
    /\ UNCHANGED <<saved, pc, record, control, faults>>

Edit(p) ==
    /\ Moving
    /\ files' = [files EXCEPT ![p] = Merged + moves + 1]
    /\ UNCHANGED <<refs, head, index>>

(* git commit -a                                                           *)
CommitAll ==
    LET tree == [p \in Paths |-> IF index[p] = Absent THEN Absent ELSE files[p]] IN
    /\ Moving
    /\ tree # Tree(HEAD)
    /\ refs' = [refs EXCEPT ![head] = Append(@, [by |-> "user", tree |-> tree])]
    /\ index' = tree
    /\ UNCHANGED <<head, files>>

(* git switch, which merges two ways like read-tree.                       *)
Switch(b) ==
    /\ Moving
    /\ b # head /\ CanRead(HEAD, refs[b])
    /\ head' = b
    /\ ReadTree(HEAD, refs[b])
    /\ UNCHANGED refs
----------------------------------------------------------------------------
Transaction ==
    \/ Stage \/ Capture \/ Test \/ Check("check", "record") \/ RecordPrepared
    \/ Check("recorded", "swap") \/ Swap \/ CheckBranch \/ CheckFiles \/ Withdraw
    \/ Refresh \/ CheckHead \/ Unbind \/ Follow \/ CheckApplied \/ Accept
    \/ Preserve \/ Look \/ Back \/ Reset \/ Interrupt
    \/ Failing \/ Resume \/ Crash \/ TornRefresh

User == CommitAll \/ \E p \in Paths : Edit(p) \/ \E b \in Branches : Switch(b)

Next == Transaction \/ User

Spec == Init /\ [][Next]_vars
----------------------------------------------------------------------------
Trees == [Paths -> 0..(Merged + MaxMoves)]

(* Types.  A transaction that may touch a branch knows which, and the      *)
(* record names it from the swap on.                                       *)
TypeOK ==
    /\ head \in Branches /\ index \in Trees /\ files \in Trees
    /\ \A b \in Branches : \A i \in DOMAIN refs[b] :
         refs[b][i].by \in {"user", "aiflow"} /\ refs[b][i].tree \in Trees
    /\ mode \in Modes /\ gates \in BOOLEAN /\ disturbed \in {"no", "torn", "yes"}
    /\ prepared \in Branches \cup {None} /\ bound \in Branches \cup {None}
    /\ pc \in {"swap", "bound", "unedited", "withdraw", "refresh", "refreshed", "unbind",
               "follow", "applied", "preserve", "look", "back", "reset"}
         => bound # None /\ prepared = bound
    /\ pc = "done" <=> verdict # None
    /\ moves \in 0..MaxMoves /\ faults \in 0..MaxFaults

(* README: pre-apply failure leaves the target untouched; and a failed     *)
(* attempt, which is made again, leaves no branch at its candidate.        *)
FailedLeavesNothing ==
    verdict = "failed" => \A b \in Branches : Last(refs[b]).by = "user"

(* docs/OPERATIONS.md: recovery resumes the transaction after a crash,     *)
(* even between update-ref and refresh.  A candidate that passes its gates *)
(* and that nobody interferes with is integrated after any crashes but one *)
(* inside read-tree, which recover_pending_checkout takes for edits of the *)
(* user: that one may block the task, with the candidate in its branch.    *)
CrashesKeepCandidate ==
    gates /\ disturbed # "yes" =>
        \/ verdict \in {None, "accepted"}
        \/ verdict = "blocked" /\ disturbed = "torn" /\ HEAD = Integrated

(* docs/ARCHITECTURE.md: what the user has edited and not committed        *)
(* survives every step of the transaction and of its recovery: in the      *)
(* file, in a commit, or among the saved files.                            *)
UserWorkKept ==
    [][pc' # pc =>
         \A p \in Paths : IsEdit(files[p]) =>
           \/ files'[p] = files[p]
           \/ <<p, files[p]>> \in saved'
           \/ \E b \in Branches : \E i \in DOMAIN refs'[b] :
                refs'[b][i].tree[p] = files[p]]_vars

IsUser(author) == author = "user"
Target == INSTANCE TargetBranch WITH
    ByUser <- IsUser,
    refs <- [b \in Branches |-> Authors(refs[b])],
    accepted <- IF verdict = "accepted" THEN {"aiflow"} ELSE {}

(* The branches grow by the user's commits and by one whole candidate,     *)
(* which is taken back only while it is the last commit.                   *)
ImplementsTarget == Target!Spec
=============================================================================
