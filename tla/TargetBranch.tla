--------------------------- MODULE TargetBranch ---------------------------
(***************************************************************************)
(* What the integration of candidates promises to the branches of the      *)
(* user: they grow by the user's commits and by whole candidates, each at  *)
(* most once; only a candidate that is the last commit, and not reported   *)
(* as integrated, may be taken back.                                       *)
(***************************************************************************)
EXTENDS Naturals, Sequences, SequencesExt

CONSTANT ByUser(_)   \* whether a commit is the user's

VARIABLES
    refs,       \* the commits of each branch
    accepted    \* the candidates reported as integrated

target == <<refs, accepted>>
----------------------------------------------------------------------------
Init ==
    /\ \A b \in DOMAIN refs : \A i \in DOMAIN refs[b] : ByUser(refs[b][i])
    /\ accepted = {}

Grows(b) ==
    /\ Len(refs'[b]) = Len(refs[b]) + 1
    /\ refs' = [refs EXCEPT ![b] = Append(@, Last(refs'[b]))]

Commit(b) == Grows(b) /\ ByUser(Last(refs'[b])) /\ UNCHANGED accepted

Integrate(b) ==
    /\ Grows(b)
    /\ LET c == Last(refs'[b]) IN ~ByUser(c) /\ ~Contains(refs[b], c)
    /\ UNCHANGED accepted

Withdraw(b) ==
    /\ refs[b] # <<>>
    /\ ~ByUser(Last(refs[b])) /\ Last(refs[b]) \notin accepted
    /\ refs' = [refs EXCEPT ![b] = Front(@)]
    /\ UNCHANGED accepted

Report(b) ==
    /\ \E i \in DOMAIN refs[b] :
         ~ByUser(refs[b][i]) /\ accepted' = accepted \cup {refs[b][i]}
    /\ UNCHANGED refs

Next == \E b \in DOMAIN refs : Commit(b) \/ Integrate(b) \/ Withdraw(b) \/ Report(b)

Spec == Init /\ [][Next]_target
=============================================================================
