-------------------------- MODULE ArchitectIntake --------------------------
(***************************************************************************)
(* From an interview to a project that a supervisor may work on alone, in  *)
(* scripts/: an agent interviews the user and fills a spec                 *)
(* (architect.py, architect_core.py), a panel reviews it                   *)
(* (check_spec_completeness.py), architect_compile.py writes the planning  *)
(* files, and check_autonomy_boundary.py tells which milestones a person   *)
(* must review before they start.  aiflow.py runs the gate and the         *)
(* compiler in a row, as two processes that each load the session.         *)
(*                                                                         *)
(* A spec is what the gates look at: whether the project and its test      *)
(* command are described, the requirements with the criteria they declare, *)
(* the acceptance criteria with the requirement each names, the milestones *)
(* in their order, and whether a question is open.  Agents and panels take *)
(* minutes and nothing locks the session, so that commands overlap.        *)
(***************************************************************************)
EXTENDS Naturals, Sequences

CONSTANTS
    Users,          \* the terminals and the dashboard commands come from
    Requirements,
    Criteria,
    Milestones,
    Updates,        \* the architect_update blocks agents answer with
    Delegate,       \* --delegate-milestones
    MaxTurns,       \* bound: answers of the interview
    MaxFaults,      \* bound: commands killed
    None

Functions(S, T) == UNION {[D -> T] : D \in SUBSET S}

Milestone == [id : Milestones, covers : SUBSET Requirements, done : SUBSET Criteria]

(* An update may leave out every field, of itself and of its entries (None)*)
Entry ==
    [id : Milestones, covers : {None} \cup SUBSET Requirements,
     done : {None} \cup SUBSET Criteria]
Update ==
    [described : {None} \cup BOOLEAN,
     requirements : Functions(Requirements, {None} \cup SUBSET Criteria),
     acceptance : Functions(Criteria, {None} \cup Requirements), milestones : Seq(Entry),
     open : {None} \cup BOOLEAN]

ASSUME IntakeAssumption ==
    /\ Updates \subseteq Update
    /\ Delegate \in Nat /\ MaxTurns \in Nat /\ MaxFaults \in Nat
    /\ None \notin Milestones \cup BOOLEAN \cup Requirements
    /\ \A S \in (SUBSET Requirements) \cup SUBSET Criteria : S # None

VARIABLES
    session,        \* spec_session.json: spec and which interview it is
                    \* (created_at), or None when cut short
    job,            \* the command every user runs
    roadmap,        \* roadmap.md, the Order of the milestones of a spec, and
    delegation,     \* autonomy_delegation.json, its Delegation: each the spec
                    \* it was rendered from, of which interview, or None
    overtaken,      \* history: the interviews in which a command has saved what
                    \* it had loaded after another had saved something else
    interviews, turns, faults   \* counters

vars == <<session, job, roadmap, delegation, overtaken, interviews, turns, faults>>
bounds == <<interviews, turns, faults>>

NoneYet == [x \in {} |-> None]

NewSpec ==
    [described |-> FALSE, requirements |-> NoneYet, acceptance |-> NoneYet,
     milestones |-> <<>>, open |-> FALSE]

(* _upsert_by_id: the fields an entry gives replace those of the item it   *)
(* names; an item whose id is not known follows the others.                *)
Given(old, new) == IF new = None THEN old ELSE new
Merge(old, new, absent) ==
    [x \in DOMAIN old \cup DOMAIN new |->
        Given(IF x \in DOMAIN old THEN old[x] ELSE absent,
              IF x \in DOMAIN new THEN new[x] ELSE None)]

Ids(milestones) == {milestones[i].id : i \in DOMAIN milestones}
Named(milestones, id) == CHOOSE i \in DOMAIN milestones : milestones[i].id = id

Filled(covers, done, entry) ==
    [id |-> entry.id, covers |-> Given(covers, entry.covers),
     done |-> Given(done, entry.done)]

(* Faulty variant: a milestone that is changed is moved to the end.        *)
FaultyMerged(items, entry) ==
    LET others == SelectSeq(items, LAMBDA m : m.id # entry.id)
    IN  Append(others, Filled({}, {}, entry))
Merged(items, entry) ==
    IF entry.id \in Ids(items)
    THEN [items EXCEPT ![Named(items, entry.id)] = Filled(@.covers, @.done, entry)]
    ELSE Append(items, Filled({}, {}, entry))

(* Entry by entry.                                                         *)
Upserted(old, new) ==
    LET merged[k \in 0..Len(new)] ==
            IF k = 0 THEN old ELSE Merged(merged[k - 1], new[k])
    IN  merged[Len(new)]

(* apply_update                                                            *)
(* Faulty variant: the requirements sent replace those that were known.    *)
FaultyApplied(spec, update) ==
    [described |-> Given(spec.described, update.described),
     requirements |-> Merge(NoneYet, update.requirements, {}),
     acceptance |-> Merge(spec.acceptance, update.acceptance, None),
     milestones |-> Upserted(spec.milestones, update.milestones),
     open |-> Given(spec.open, update.open)]
Applied(spec, update) ==
    [described |-> Given(spec.described, update.described),
     requirements |-> Merge(spec.requirements, update.requirements, {}),
     acceptance |-> Merge(spec.acceptance, update.acceptance, None),
     milestones |-> Upserted(spec.milestones, update.milestones),
     open |-> Given(spec.open, update.open)]

(* spec_completeness: nothing is missing.                                  *)
Required(spec) == DOMAIN spec.requirements
Agreed(spec) == DOMAIN spec.acceptance
HasCriterion(spec, r) ==
    \/ \E c \in Agreed(spec) : spec.acceptance[c] = r
    \/ spec.requirements[r] \cap Agreed(spec) # {}
Covered(spec) == UNION {spec.milestones[i].covers : i \in DOMAIN spec.milestones}

Complete(spec) ==
    /\ spec.described /\ ~spec.open
    /\ Required(spec) # {}
    /\ \A r \in Required(spec) : HasCriterion(spec, r)
    /\ spec.milestones # <<>> /\ Required(spec) \subseteq Covered(spec)
    /\ \A i \in DOMAIN spec.milestones :
         /\ spec.milestones[i].done # {}
         /\ spec.milestones[i].done \subseteq Agreed(spec)

(* build_autonomy_delegation: the first milestones are delegated, the one  *)
(* that follows them is a boundary.                                        *)
Order(spec) == [i \in DOMAIN spec.milestones |-> spec.milestones[i].id]
Delegation(spec) ==
    [delegated |-> {Order(spec)[i] : i \in DOMAIN spec.milestones \cap 1..Delegate},
     before |-> {Order(spec)[i] : i \in DOMAIN spec.milestones \cap {Delegate + 1}}]

(* check_transition, for an active delegation and no exception trigger.    *)
NeedsReview(tranche, next) ==
    next \in tranche.before \/ next \notin tranche.delegated
----------------------------------------------------------------------------
Idle ==
    [at |-> "idle", spec |-> NewSpec, interview |-> 0, stale |-> FALSE,
     overwrite |-> FALSE, forced |-> FALSE]

Init ==
    /\ session = [spec |-> NewSpec, interview |-> 1]
    /\ job = [u \in Users |-> Idle]
    /\ roadmap = None /\ delegation = None
    /\ overtaken = {}
    /\ interviews = 1 /\ turns = 0 /\ faults = 0

(* load_session: what cannot be read is as if there were no session.       *)
Loaded ==
    IF session # None THEN [spec |-> session.spec, interview |-> session.interview]
    ELSE [spec |-> NewSpec, interview |-> interviews + 1]

Start(u, at, overwrite, forced) ==
    /\ job' = [job EXCEPT ![u] =
                 [at |-> at, spec |-> Loaded.spec, interview |-> Loaded.interview,
                  stale |-> FALSE, overwrite |-> overwrite, forced |-> forced]]
    /\ interviews' = IF Loaded.interview > interviews THEN Loaded.interview
                     ELSE interviews

(* save_session: whatever is there is replaced.  (The status it holds is   *)
(* for the user, and is left out.)  Who has loaded something else of this  *)
(* interview holds a stale copy from now on.                               *)
Save(u, spec) ==
    LET interview == job[u].interview
    IN  /\ session' = [spec |-> spec, interview |-> interview]
        /\ job' = [v \in Users |->
                     IF v = u THEN Idle
                     ELSE [job[v] EXCEPT !.stale =
                             @ \/ (job[v].interview = interview /\ job[v].spec # spec)]]
        /\ overtaken' = IF job[u].stale THEN overtaken \cup {interview} ELSE overtaken

Ends(u) == job' = [job EXCEPT ![u] = Idle]

(* interview_turn loads the session and asks the agent ...                 *)
Ask(u) ==
    /\ job[u].at = "idle" /\ turns < MaxTurns
    /\ Start(u, "asking", FALSE, FALSE)
    /\ turns' = turns + 1
    /\ UNCHANGED <<session, roadmap, delegation, overtaken, faults>>

(* ... and merges the answer into what it loaded.  An agent that fails or  *)
(* times out sends no update.                                              *)
Answer(u, update) ==
    /\ job[u].at = "asking"
    /\ Save(u, Applied(job[u].spec, update))
    /\ UNCHANGED <<roadmap, delegation, bounds>>

(* check_spec_completeness.py, the first stage of init: refuse, or have the*)
(* panel review the spec it has loaded.  (By itself it changes nothing.)   *)
Gate(u) ==
    /\ job[u].at = "idle" /\ Complete(Loaded.spec)
    /\ Start(u, "gate", FALSE, FALSE)
    /\ UNCHANGED <<session, roadmap, delegation, overtaken, turns, faults>>

PanelReady(u) ==
    /\ job[u].at = "gate"
    /\ job' = [job EXCEPT ![u] = [Idle EXCEPT !.at = "passed"]]
    /\ UNCHANGED <<session, roadmap, delegation, overtaken, bounds>>

PanelObjects(u) ==
    /\ job[u].at = "gate"
    /\ Ends(u)
    /\ UNCHANGED <<session, roadmap, delegation, overtaken, bounds>>

(* architect_compile.py, by itself or as the last stage of init: refuse an *)
(* incomplete spec, unless by itself with --allow-incomplete; write the    *)
(* planning files that are not there yet (all with --overwrite) one by     *)
(* one, then save the session it has loaded as compiled.  Of the six files *)
(* these are the two properties tell apart.                                *)
(* Faulty variant: whatever was loaded is compiled.                        *)
FaultyMayCompile(spec, forced) == spec.milestones # <<>>
MayCompile(spec, forced) == Complete(spec) \/ forced

Compile(u, overwrite, forced) ==
    /\ \/ job[u].at = "idle"
       \/ job[u].at = "passed" /\ ~overwrite /\ ~forced
    /\ MayCompile(Loaded.spec, forced)
    /\ Start(u, "roadmap", overwrite, forced)
    /\ UNCHANGED <<session, roadmap, delegation, overtaken, turns, faults>>

CompileRefused(u) ==
    /\ job[u].at = "passed" /\ ~MayCompile(Loaded.spec, FALSE)
    /\ Ends(u)
    /\ UNCHANGED <<session, roadmap, delegation, overtaken, bounds>>

(* _write                                                                  *)
Written(u, file) ==
    IF file # None /\ ~job[u].overwrite THEN file
    ELSE [spec |-> job[u].spec, interview |-> job[u].interview, forced |-> job[u].forced]

WriteRoadmap(u) ==
    /\ job[u].at = "roadmap"
    /\ roadmap' = Written(u, roadmap)
    /\ job' = [job EXCEPT ![u].at = "delegation"]
    /\ UNCHANGED <<session, delegation, overtaken, bounds>>

WriteDelegation(u) ==
    /\ job[u].at = "delegation"
    /\ delegation' = Written(u, delegation)
    /\ job' = [job EXCEPT ![u].at = "compiled"]
    /\ UNCHANGED <<session, roadmap, overtaken, bounds>>

SaveCompiled(u) ==
    /\ job[u].at = "compiled"
    /\ Save(u, job[u].spec)
    /\ UNCHANGED <<roadmap, delegation, bounds>>

(* Killed, perhaps while it saves: the session is written in place.        *)
Dies(u) ==
    /\ job[u].at # "idle" /\ faults < MaxFaults
    /\ faults' = faults + 1
    /\ Ends(u)
    /\ \/ session' = session
       \/ job[u].at \in {"asking", "compiled"} /\ session' = None
    /\ UNCHANGED <<roadmap, delegation, overtaken, interviews, turns>>

Next ==
    \E u \in Users :
        \/ Ask(u)
        \/ \E update \in Updates : Answer(u, update)
        \/ Gate(u) \/ PanelReady(u) \/ PanelObjects(u)
        \/ \E overwrite, forced \in BOOLEAN : Compile(u, overwrite, forced)
        \/ CompileRefused(u)
        \/ WriteRoadmap(u) \/ WriteDelegation(u) \/ SaveCompiled(u)
        \/ Dies(u)

Spec == Init /\ [][Next]_vars
----------------------------------------------------------------------------
(* Nothing the user has told is forgotten between two sessions of one      *)
(* interview that can be read: every save, of whatever command, keeps the  *)
(* requirements, the criteria and the order of the milestones of the save  *)
(* before, unless some command has saved over what another told after it   *)
(* had loaded the session (architect.py, architect_compile.py).            *)
Extends(spec, old) ==
    /\ Required(old) \subseteq Required(spec)
    /\ Agreed(old) \subseteq Agreed(spec)
    /\ Len(old.milestones) <= Len(spec.milestones)
    /\ \A i \in DOMAIN old.milestones : spec.milestones[i].id = old.milestones[i].id

NothingForgotten ==
    [][ /\ session # None /\ session' # None
        /\ session.interview = session'.interview
        /\ session.interview \notin overtaken'
        => Extends(session'.spec, session.spec) ]_session

(* The planning files are those of specs in which nothing was missing,     *)
(* whatever became of the session meanwhile (check_spec_completeness.py:   *)
(* every requirement has a criterion and a milestone, no question is open),*)
(* but for the files --allow-incomplete was given for.                     *)
PlanWasComplete ==
    \A file \in {roadmap, delegation} \ {None} : ~file.forced =>
        LET spec == file.spec IN
        /\ ~spec.open
        /\ \A r \in Required(spec) :
             /\ HasCriterion(spec, r)
             /\ \E i \in DOMAIN spec.milestones : r \in spec.milestones[i].covers

(* No milestone the roadmap lists after the first Delegate may start       *)
(* without a person (autonomy_delegation.json, check_autonomy_boundary.py):*)
(* also when the two files come from different compilations of one         *)
(* interview, as after a crash between them, an interview that went on, or *)
(* commands that overlap, as long as none has saved a stale copy in it.    *)
BoundaryMatchesRoadmap ==
    /\ roadmap # None /\ delegation # None
    /\ roadmap.interview = delegation.interview
    /\ roadmap.interview \notin overtaken
    => \A i \in DOMAIN Order(roadmap.spec) :
         i > Delegate => NeedsReview(Delegation(delegation.spec),
                                     Order(roadmap.spec)[i])
=============================================================================
