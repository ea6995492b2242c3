-------------------------- MODULE MCTaskExecution --------------------------
(* The runs TLC explores.  Tasks are numbered in the order of their ids.   *)
EXTENDS TaskExecution

CONSTANTS a, b    \* acceptance IDs

Delivery(ids, needs) ==
    [class |-> "delivery", closes |-> ids, needs |-> needs, unblocks |-> None]
Enabler(unblocks, needs) ==
    [class |-> "enabler", closes |-> {}, needs |-> needs, unblocks |-> unblocks]
Housekeeping ==
    [class |-> "housekeeping", closes |-> {}, needs |-> {}, unblocks |-> None]
Orchestrate(plan, n) == [mode |-> "orchestrated", plan |-> plan, faults |-> n]

(* One task, alone.                                                        *)
Solo == [mode |-> "solo", plan |-> <<Delivery({a}, {})>>, faults |-> 2]
(* The second task needs the first.                                        *)
Chained == Orchestrate(<<Delivery({a}, {}), Delivery({b}, {1})>>, 2)
(* Accepting 2 makes 1 and 3 ready, and puts 3 first.                      *)
Owing == Orchestrate(<<Delivery({a}, {2}), Enabler(3, {}), Delivery({b}, {2})>>, 1)
(* Two acceptances without a delta, so that a replan comes before 3.       *)
Replanning == Orchestrate(<<Housekeeping, Enabler(3, {1}), Delivery({a}, {2})>>, 1)
(* The enabler of an enabler.                                              *)
EnablerChain == Orchestrate(<<Enabler(2, {}), Enabler(3, {1}), Delivery({a}, {2})>>, 1)
(* The target of the enabler does not depend on it.                        *)
LateEnabler == Orchestrate(<<Delivery({a}, {}), Enabler(1, {})>>, 1)

AllRuns == {Solo, Chained, Owing, Replanning, EnablerChain, LateEnabler}

Ample == [tasks |-> 3, attempts |-> 2]
Scarce == [tasks |-> 1, attempts |-> 1]
BothBudgets == {Ample, Scarce}
AmpleBudget == {Ample}
=============================================================================
