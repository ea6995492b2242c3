--------------------------- MODULE ProgressPolicy ---------------------------
(***************************************************************************)
(* The acceptance-first task policy of domain/progress.py: which task is   *)
(* dispatched next, what accepting one records, and how the policy is      *)
(* rebuilt from what a run has saved.                                      *)
(*                                                                         *)
(* A plan maps a task to its contract; tasks are numbered in the order of  *)
(* their ids.  A policy is a record, and its operations are operators from *)
(* policy to policy, so that one engine can hold it in memory while a part *)
(* of it lies on disk.                                                     *)
(***************************************************************************)
EXTENDS Naturals, FiniteSets

CONSTANT None    \* no task

(* The value classes with their rank in next_task: the lowest goes first.  *)
Rank == [delivery |-> 0, validation |-> 1, enabler |-> 2, housekeeping |-> 3,
         research |-> 4]
Closing == {"delivery", "validation"}    \* classes that close acceptance IDs
HousekeepingBudget == 1

(* What Task.__post_init__ and _validate_graph accept.                     *)
WellFormed(plan) ==
    \A t \in DOMAIN plan :
        /\ plan[t].class \in DOMAIN Rank
        /\ plan[t].class \in Closing <=> plan[t].closes # {}
        /\ plan[t].needs \subseteq DOMAIN plan
        /\ plan[t].unblocks \in DOMAIN plan \cup {None}
        /\ plan[t].class = "enabler" <=> plan[t].unblocks # None

OfClass(plan, tasks, class) == {t \in tasks : plan[t].class = class}
Ids(plan, tasks) == UNION {plan[t].closes : t \in tasks}
(* Every task accepted has closed what was open of its contract, so the    *)
(* closed IDs are those of the accepted tasks.                             *)
OpenIds(plan, accepted) == Ids(plan, DOMAIN plan) \ Ids(plan, accepted)
(* The tasks that accepted enablers owe.                                   *)
Owed(plan, accepted) ==
    {plan[e].unblocks : e \in OfClass(plan, accepted, "enabler")} \ accepted
----------------------------------------------------------------------------
(* `state` is what durable_state() returned; a run starts without one.     *)
NoState == [debt |-> None, delta |-> {}, noDelta |-> 0, replan |-> FALSE, used |-> 0]

DurableState(p) ==
    [debt |-> p.debt, delta |-> p.delta, noDelta |-> p.noDelta,
     replan |-> p.replan, used |-> p.used]

(* The debt __post_init__ arrives at: the saved one, else the derived one. *)
DebtOf(plan, accepted, state) ==
    IF state.debt # None THEN {state.debt} ELSE Owed(plan, accepted)

(* __post_init__ does not raise.                                           *)
Restorable(plan, accepted, state) ==
    LET owed == Owed(plan, accepted)
        debt == DebtOf(plan, accepted, state) IN
    /\ \A d, e \in owed : d = e
    /\ debt \subseteq DOMAIN plan \ accepted
    /\ owed \subseteq debt
    /\ state.delta \subseteq Ids(plan, accepted)
    /\ state.replan => state.noDelta >= 2
    /\ state.used >= Cardinality(OfClass(plan, accepted, "housekeeping"))

(* Faulty variant: the debt is forgotten.                                  *)
FaultyRestored(plan, accepted, ready, state) ==
    [accepted |-> accepted, ready |-> ready, debt |-> None, delta |-> state.delta,
     noDelta |-> state.noDelta, replan |-> state.replan, used |-> state.used]

Restored(plan, accepted, ready, state) ==
    LET debt == DebtOf(plan, accepted, state) IN
    [accepted |-> accepted,
     ready    |-> ready,
     debt     |-> IF debt = {} THEN None ELSE CHOOSE d \in debt : TRUE,
     delta    |-> state.delta,
     noDelta  |-> state.noDelta,
     replan   |-> state.replan,
     used     |-> state.used]
----------------------------------------------------------------------------
Ready(plan, p, t) == t \in p.ready /\ plan[t].needs \subseteq p.accepted

ReadyTasks(plan, p) == {t \in DOMAIN plan : Ready(plan, p, t)}

(* A debt leaves only its target; housekeeping has a budget.               *)
Eligible(plan, p) ==
    IF p.debt # None
    THEN ReadyTasks(plan, p) \cap {p.debt}
    ELSE {t \in ReadyTasks(plan, p) :
            plan[t].class = "housekeeping" => p.used < HousekeepingBudget}

Before(plan, t, u) ==
    LET rank(x) == Rank[plan[x].class] IN
    rank(t) < rank(u) \/ (rank(t) = rank(u) /\ t <= u)

(* The task next_task returns; none when it raises ProgressBlocked.        *)
NextTask(plan, p) ==
    IF p.replan THEN {}
    ELSE {t \in Eligible(plan, p) : \A u \in Eligible(plan, p) : Before(plan, t, u)}

(* _validate_acceptance lets the complete open contract of t pass.         *)
Claimable(plan, p, t) ==
    /\ Ready(plan, p, t)
    /\ plan[t].class \in Closing =>
         plan[t].closes \cap OpenIds(plan, p.accepted) # {}

(* _record_acceptance raises, with half of it done.                        *)
SecondEnabler(plan, p, t) == plan[t].class = "enabler" /\ p.debt # None

(* The debt an enabler leaves is paid already.                             *)
Late(plan, p, t) ==
    plan[t].class = "enabler" /\ plan[t].unblocks \in p.accepted

(* Faulty variant: the debt is not cleared when its target is accepted.    *)
FaultyRecorded(plan, p, t) ==
    LET claimed == plan[t].closes \cap OpenIds(plan, p.accepted)
        noDelta == IF claimed = {} THEN p.noDelta + 1 ELSE 0
        raises  == SecondEnabler(plan, p, t)
    IN [accepted |-> p.accepted \cup {t},
        ready    |-> p.ready \ {t},
        debt     |-> IF plan[t].class = "enabler" /\ ~raises
                     THEN plan[t].unblocks ELSE p.debt,
        delta    |-> claimed,
        noDelta  |-> noDelta,
        replan   |-> p.replan \/ (~raises /\ noDelta >= 2),
        used     |-> IF plan[t].class = "housekeeping" THEN p.used + 1 ELSE p.used]

(* The policy after _record_acceptance, and the breaker accept() may trip. *)
Recorded(plan, p, t) ==
    LET claimed == plan[t].closes \cap OpenIds(plan, p.accepted)
        noDelta == IF claimed = {} THEN p.noDelta + 1 ELSE 0
        raises  == SecondEnabler(plan, p, t)
        debt    == IF plan[t].class = "enabler" /\ ~raises
                   THEN plan[t].unblocks ELSE p.debt
    IN [accepted |-> p.accepted \cup {t},
        ready    |-> p.ready \ {t},
        debt     |-> IF debt = t /\ ~raises THEN None ELSE debt,
        delta    |-> claimed,
        noDelta  |-> noDelta,
        replan   |-> p.replan \/ (~raises /\ noDelta >= 2),
        used     |-> IF plan[t].class = "housekeeping" THEN p.used + 1 ELSE p.used]

(* complete_replan finds a ready task that closes acceptance IDs.          *)
CanReplan(plan, p) ==
    p.replan /\ \E t \in ReadyTasks(plan, p) : plan[t].class \in Closing
Replanned(p) == [p EXCEPT !.replan = FALSE, !.noDelta = 0]
=============================================================================
