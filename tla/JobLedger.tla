----------------------------- MODULE JobLedger -----------------------------
(***************************************************************************)
(* The ledger of worker jobs that the scripts keep under .ai/jobs, one     *)
(* directory with a status.json per job: creating a job behind the         *)
(* progress gate (create_job.py, check_job_progress_gate.py), moving it    *)
(* from state to state and recording results (transition_job.py,           *)
(* update_job_status.py), having it reviewed (ReviewPanel), integrating it *)
(* (integrate_job.py), and a person's milestone review, which prunes what  *)
(* was accepted (human_milestone_review.py, prune_accepted_job_refs.py).   *)
(*                                                                         *)
(* Every script run is a program of its own and none takes a lock.         *)
(* Editors are the agents and people who look at a status and then change  *)
(* it by a script that reads status.json once more and then replaces it;   *)
(* the scripts of two editors may overlap.  The flags for repair by hand   *)
(* (--force, --allow-state) are left out.                                  *)
(***************************************************************************)
EXTENDS Naturals, FiniteSets, ReviewPanel, ProgressGate

CONSTANTS
    Creators, Editors,
    Proposals,          \* the tasks proposed
    MaxJobs,            \* bound: directories made
    MaxScripts,         \* bound: scripts that editors run
    AllowConcurrent,    \* --allow-concurrent
    MaxParallel,        \* AI_WORKFLOW_MAX_PARALLEL_JOBS, 0 for no limit
    None

ASSUME JobLedgerAssumption ==
    /\ Proposals \subseteq Task
    /\ MaxJobs \in Nat /\ MaxScripts \in Nat /\ MaxParallel \in Nat
    /\ AllowConcurrent \in BOOLEAN

VARIABLES
    jobs,               \* status.json of every job directory that has one
    dirs,               \* the job directories
    creator,            \* runs of create_job.py
    editor,             \* what every editor last read, and is about to write
    integrated,         \* jobs whose commit is in the target
    pruned,             \* jobs whose branch and worktree are gone
    approved,           \* a milestone is approved, its jobs not yet pruned
    scripts,            \* how many scripts of editors have run
    overwritten         \* history: jobs whose state was replaced by a script
                        \* that had read another one

counts == <<scripts, overwritten>>
vars == <<jobs, dirs, creator, editor, integrated, pruned, approved, counts>>

Ids == 1..MaxJobs

(* ALLOWED_TRANSITIONS                                                     *)
Aborted == {"cancelled", "superseded"}

States == {"queued", "rejected", "running", "implemented", "reviewing",
           "ready_for_review", "review_failed", "review_timeout", "blocked",
           "accepted"} \cup Aborted

(* Faulty variant: an accepted job may be reopened.                        *)
FaultyAllowed(state) == IF state \in Aborted THEN {} ELSE States
Allowed(state) ==
    CASE state \in {"queued", "rejected"} -> {"running"} \cup Aborted
      [] state = "running" -> {"implemented", "reviewing", "ready_for_review",
                               "blocked", "queued"} \cup Aborted
      [] state = "implemented" -> {"reviewing", "ready_for_review", "blocked"}
                                  \cup Aborted
      [] state = "reviewing" -> {"ready_for_review", "review_failed",
                                 "review_timeout", "blocked"} \cup Aborted
      [] state = "ready_for_review" -> {"accepted", "rejected", "reviewing"}
                                       \cup Aborted
      [] state = "review_failed" -> {"reviewing", "ready_for_review", "rejected",
                                     "blocked"} \cup Aborted
      [] state = "review_timeout" -> {"reviewing", "rejected", "blocked"}
                                     \cup Aborted
      [] state = "blocked" -> {"queued", "rejected", "reviewing"} \cup Aborted
      [] OTHER -> {}

ActiveStates == {"queued", "running", "needs_review", "reviewing", "blocked"}
HistoryStates == {"accepted", "ready_for_review", "implemented"}

Created == {id \in Ids : jobs[id] # None}
Active == {id \in Created : jobs[id].state \in ActiveStates}

(* history_progress: the jobs the progress gate counts.                    *)
Counted == {id \in Created : jobs[id].state \in HistoryStates}
History == [id \in Counted |-> [task |-> jobs[id].task, closed |-> jobs[id].closed]]

Idle == [at |-> "idle", task |-> None, id |-> 0]

Init ==
    /\ jobs = [id \in Ids |-> None]
    /\ dirs = {}
    /\ creator = [c \in Creators |-> Idle]
    /\ editor = [e \in Editors |-> None]
    /\ integrated = {}
    /\ pruned = {}
    /\ approved = FALSE
    /\ scripts = 0
    /\ overwritten = {}
----------------------------------------------------------------------------
(* create_job.py: refuse for active jobs, then run the gate.               *)
MayCreate ==
    IF AllowConcurrent
    THEN MaxParallel = 0 \/ Cardinality(Active) < MaxParallel
    ELSE Active = {}

Check(c, task) ==
    /\ creator[c].at = "idle"
    /\ MayCreate /\ GatePasses(History, task)
    /\ creator' = [creator EXCEPT ![c] = [at |-> "checked", task |-> task, id |-> 0]]
    /\ UNCHANGED <<jobs, dirs, editor, integrated, pruned, approved, counts>>

(* next_job_id: the least number that has no directory.                    *)
NextId(c) ==
    \E id \in Ids \ dirs :
        /\ creator[c].at = "checked"
        /\ \A other \in Ids \ dirs : id <= other
        /\ creator' = [creator EXCEPT ![c] =
                        [at |-> "numbered", task |-> creator[c].task, id |-> id]]
        /\ UNCHANGED <<jobs, dirs, editor, integrated, pruned, approved, counts>>

(* job_dir.mkdir() fails if another creator has made it meanwhile.         *)
(* Faulty variant: mkdir(exist_ok=True).                                   *)
FaultyMakes(id) == TRUE
Makes(id) == id \notin dirs

MakeDirectory(c) ==
    LET id == creator[c].id
    IN  /\ creator[c].at = "numbered"
        /\ creator' = [creator EXCEPT ![c] =
                        IF Makes(id) THEN [@ EXCEPT !.at = "made"] ELSE Idle]
        /\ dirs' = dirs \cup {id}
        /\ UNCHANGED <<jobs, editor, integrated, pruned, approved, counts>>

WriteStatus(c) ==
    /\ creator[c].at = "made"
    /\ jobs' = [jobs EXCEPT ![creator[c].id] =
         [state |-> "queued", revision |-> 0, task |-> creator[c].task,
          passed |-> FALSE, blocked |-> FALSE, closed |-> FALSE]]
    /\ creator' = [creator EXCEPT ![c] = Idle]
    /\ UNCHANGED <<dirs, editor, integrated, pruned, approved, counts>>

(* Killed before it wrote the status: the directory stays.                 *)
CreatorDies(c) ==
    /\ creator[c].at # "idle"
    /\ creator' = [creator EXCEPT ![c] = Idle]
    /\ UNCHANGED <<jobs, dirs, editor, integrated, pruned, approved, counts>>
----------------------------------------------------------------------------
(* What a script writes, from the status it has read.                      *)
(* transition_job.py: another attempt forgets the reviews of the last one; *)
(* the revision stays.  (Further fields named on its command line are left *)
(* to update_job_status.py here.)                                          *)
Moved(status, state) ==
    IF state = "running"
    THEN [status EXCEPT !.state = state, !.blocked = FALSE]
    ELSE [status EXCEPT !.state = state]

Transitions(status) ==
    {Moved(status, state) : state \in Allowed(status.state) \cup {status.state}}

(* update_job_status.py, for a caller who expects this revision: the       *)
(* worker's commit and test result, the panel's decision as reviewer_a and *)
(* reviewer_b fields, the acceptance IDs that were closed.                 *)
Recorded(status) ==
    {[status EXCEPT !.passed = result] : result \in BOOLEAN}
    \cup {[status EXCEPT !.blocked = decision.blocking # {}] : decision \in Decisions}
    \cup {[status EXCEPT !.closed = TRUE]}

Updates(status) ==
    {[update EXCEPT !.revision = @ + 1] : update \in Recorded(status)}

(* An editor of results looks at a status first: what it sees is what it   *)
(* will expect.                                                            *)
Look(e, id) ==
    /\ editor[e] = None
    /\ id \in Created
    /\ editor' = [editor EXCEPT ![e] =
                    [id |-> id, revision |-> jobs[id].revision, stale |-> FALSE,
                     write |-> None]]
    /\ UNCHANGED <<jobs, dirs, creator, integrated, pruned, approved, counts>>

(* The script reads the status and decides what to write ...               *)
Writing(e) == editor[e] # None /\ editor[e].write # None

Prepares(e, id, new) ==
    /\ scripts < MaxScripts /\ scripts' = scripts + 1
    /\ editor' = [editor EXCEPT ![e] =
                    [id |-> id, revision |-> jobs[id].revision,
                     stale |-> FALSE, write |-> new]]
    /\ UNCHANGED <<jobs, dirs, creator, integrated, pruned, approved, overwritten>>

Transition(e, id) ==
    /\ editor[e] = None /\ id \in Created
    /\ \E new \in Transitions(jobs[id]) : Prepares(e, id, new)

Update(e, id) ==
    /\ editor[e] # None /\ ~Writing(e) /\ id = editor[e].id
    /\ editor[e].revision = jobs[id].revision
    /\ \E new \in Updates(jobs[id]) : Prepares(e, id, new)

(* ... and replaces the file, whatever it holds by then.  Whoever else has *)
(* a write in hand for a state that this changes has read a stale one.     *)
Replace(e) ==
    LET id == editor[e].id
        outruns(f) == /\ Writing(f) /\ editor[f].id = id
                      /\ editor[e].write.state # jobs[id].state
    IN  /\ Writing(e)
        /\ jobs' = [jobs EXCEPT ![id] = editor[e].write]
        /\ editor' = [f \in Editors |->
                        IF f = e THEN None
                        ELSE IF outruns(f) THEN [editor[f] EXCEPT !.stale = TRUE]
                        ELSE editor[f]]
        /\ overwritten' = IF editor[e].stale THEN overwritten \cup {id}
                          ELSE overwritten
        /\ UNCHANGED <<dirs, creator, integrated, pruned, approved, scripts>>

(* Refused (a stale revision), or never run.                               *)
GiveUp(e) ==
    /\ editor[e] # None
    /\ editor' = [editor EXCEPT ![e] = None]
    /\ UNCHANGED <<jobs, dirs, creator, integrated, pruned, approved, counts>>
----------------------------------------------------------------------------
(* integrate_job.py: verify, then the transaction (see Integration), which *)
(* may fail.                                                               *)
Verified(status) ==
    /\ status.state \in {"ready_for_review", "accepted"}
    /\ status.passed /\ ~status.blocked

Integrate(id) ==
    /\ id \in Created \ (integrated \cup pruned)
    /\ Verified(jobs[id])
    /\ integrated' = integrated \cup {id}
    /\ UNCHANGED <<jobs, dirs, creator, editor, pruned, approved, counts>>
----------------------------------------------------------------------------
(* human_milestone_review.py, on an open gate: an approval is recorded and *)
(* the gate archived, and only then are the accepted jobs it names pruned; *)
(* any other answer leaves the ledger alone.                               *)
Approve ==
    /\ ~approved
    /\ approved' = TRUE
    /\ UNCHANGED <<jobs, dirs, creator, editor, integrated, pruned, counts>>

(* prune_job removes the worktree and deletes the branch (branch -D) of a  *)
(* job the review names, if it is accepted; whether it is integrated is    *)
(* not asked.                                                              *)
Prunable(id) == jobs[id].state = "accepted"

Prune(named) ==
    /\ approved
    /\ pruned' = pruned \cup {id \in named : Prunable(id)}
    /\ approved' = FALSE
    /\ UNCHANGED <<jobs, dirs, creator, editor, integrated, counts>>

ReviewDies ==
    /\ approved
    /\ approved' = FALSE
    /\ UNCHANGED <<jobs, dirs, creator, editor, integrated, pruned, counts>>
----------------------------------------------------------------------------
Next ==
    \/ \E c \in Creators :
        \/ \E task \in Proposals : Check(c, task)
        \/ NextId(c) \/ MakeDirectory(c) \/ WriteStatus(c) \/ CreatorDies(c)
    \/ \E e \in Editors :
        \/ \E id \in Ids : Look(e, id) \/ Transition(e, id) \/ Update(e, id)
        \/ Replace(e) \/ GiveUp(e)
    \/ \E id \in Ids : Integrate(id)
    \/ Approve \/ ReviewDies
    \/ \E named \in SUBSET Created : Prune(named)

Spec == Init /\ [][Next]_vars
----------------------------------------------------------------------------
Status ==
    [state : States, revision : Nat, task : Task,
     passed : BOOLEAN, blocked : BOOLEAN, closed : BOOLEAN]

TypeOK ==
    /\ jobs \in [Ids -> Status \cup {None}]
    /\ dirs \subseteq Ids
    /\ creator \in [Creators -> [at : {"idle", "checked", "numbered", "made"},
                                task : Task \cup {None}, id : 0..MaxJobs]]
    /\ editor \in [Editors -> [id : Ids, revision : Nat, stale : BOOLEAN,
                               write : Status \cup {None}] \cup {None}]
    /\ integrated \subseteq Ids /\ pruned \subseteq Ids /\ overwritten \subseteq Ids
    /\ approved \in BOOLEAN /\ scripts \in Nat

(* Two runs of create_job.py never fill the same directory: whatever they  *)
(* saw when they chose the number, one of them makes it.                   *)
OwnDirectory ==
    \A c, d \in Creators :
        creator[c].at = "made" /\ creator[d].at = "made" /\ c # d =>
            creator[c].id # creator[d].id

(* A job whose branch and worktree were pruned is accepted and stays so,   *)
(* unless a script has replaced a state of it that it had never read:      *)
(* nothing that is still to be worked on, reviewed or rejected loses its   *)
(* work otherwise.  prune_job looks once and takes no lock, so this rests  *)
(* on the transitions, of any number of scripts at a time.                 *)
PrunedStaysAccepted ==
    \A id \in pruned \ overwritten :
        jobs[id] # None /\ jobs[id].state = "accepted"

(* What a reader of .ai/README.md:412 would expect, and the code does not  *)
(* promise: accepted work that is not integrated yet keeps its branch.     *)
AcceptedWorkKept == \A id \in pruned : id \in integrated

(* Two algorithms of the ledger decide whatever is in it: they are         *)
(* compared with what they promise once, while there is no job yet.        *)
Untouched == dirs = {} /\ creator = [c \in Creators |-> Idle] /\ ~approved

(* A panel lets work through only as the policy has it (PolicyDecides),    *)
(* for all votes of the last round and every round that may be it          *)
(* (consensus_core.py).                                                    *)
PanelFollowsPolicy == Untouched => PolicyDecides

(* Dispatch waits for the debt of the last two jobs (DebtIsOfTheLastTwo),  *)
(* for every history of three jobs (check_job_progress_gate.py).           *)
DebtOfTheLastTwo == Untouched => DebtIsOfTheLastTwo(1..3)
=============================================================================
