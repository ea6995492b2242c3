---------------------------- MODULE ReviewPanel ----------------------------
(***************************************************************************)
(* How a panel of reviewing models reaches a decision: the rounds of       *)
(* scripts/orchestrator.py and the decision rules of                       *)
(* scripts/consensus_core.py, for the reviewer schema.  Panelists answer   *)
(* freely, so that only the round that ends a consultation matters for     *)
(* what it decides.                                                        *)
(***************************************************************************)
EXTENDS Naturals, FiniteSets

CONSTANTS
    PanelSize, MaxRounds,
    Quorum              \* "unanimous" or "majority"

ASSUME ReviewPanelAssumption ==
    /\ PanelSize \in Nat \ {0} /\ MaxRounds \in Nat \ {0}
    /\ Quorum \in {"unanimous", "majority"}

Panel == 1..PanelSize

(* parse_vote: what an answer comes to.  A verdict other than accept       *)
(* blocks, and so may review_decision or progress_review of one that       *)
(* accepts; a missing block, an unknown verdict or a failed agent is an    *)
(* error; late is the exit code of a timeout, whose text counts all the    *)
(* same.                                                                   *)
Vote ==
    {vote \in [verdict : {"accept", "revise", "judgment", "unknown"},
               agrees : BOOLEAN, blocks : BOOLEAN, malformed : BOOLEAN,
               late : BOOLEAN] :
        /\ vote.verdict # "accept" => vote.blocks
        /\ vote.verdict = "unknown" => vote.malformed}

(* One run of every panelist: whatever came before the time ran out.        *)
Votes == [Panel -> Vote]

(* evaluate_round                                                          *)
For(votes, verdict) == {p \in Panel : votes[p].verdict = verdict}
Known == {"accept", "revise", "judgment"}
Unanimous(votes) == \E verdict \in Known : For(votes, verdict) = Panel
(* Faulty variant: the most frequent verdict, whatever its share.          *)
FaultyMajority(votes) ==
    {verdict \in Known :
        \A other \in Known :
            Cardinality(For(votes, other)) <= Cardinality(For(votes, verdict))}
Majority(votes) ==
    {verdict \in Known : 2 * Cardinality(For(votes, verdict)) > PanelSize}

Converged(votes, round) ==
    Unanimous(votes) /\ (round = 0 \/ \A p \in Panel : votes[p].agrees)

(* round_converged and the loop of run_consensus: when a round is the last.*)
MajoritySuffices(votes, round) ==
    Quorum = "majority" /\ round > 0 /\ Majority(votes) # {}

TimedOut(votes) == \E p \in Panel : votes[p].late

Ends(votes, round) ==
    \/ TimedOut(votes)
    \/ Converged(votes, round) \/ MajoritySuffices(votes, round)
    \/ round = MaxRounds - 1

(* synthesize                                                              *)
AgreedOn(votes, round, verdict) ==
    \/ Converged(votes, round) /\ For(votes, verdict) = Panel
    \/ MajoritySuffices(votes, round) /\ verdict \in Majority(votes)

Malformed(votes) == \E p \in Panel : votes[p].malformed

BlocksAcceptance(votes, round) ==
    ~AgreedOn(votes, round, "accept") \/ Malformed(votes)

(* consensus_exit_code                                                     *)
ExitCode(votes, round) ==
    IF TimedOut(votes) THEN 124
    ELSE IF Converged(votes, round) /\ ~BlocksAcceptance(votes, round)
         THEN 0 ELSE 1

(* consensus_to_reviewer_decisions: the fields the ledger keeps are those  *)
(* of the first two panelists, whatever the size of the panel.             *)
Decision(votes, round) ==
    [exit |-> ExitCode(votes, round),
     complete |-> Converged(votes, round) /\ ~Malformed(votes),
     blocking |-> {i \in 1..2 : IF i \in Panel THEN votes[i].blocks
                                ELSE BlocksAcceptance(votes, round)}]

LastRounds == {vr \in Votes \X (0..MaxRounds - 1) : Ends(vr[1], vr[2])}
Decisions == {Decision(vr[1], vr[2]) : vr \in LastRounds}
----------------------------------------------------------------------------
(* At most one verdict is agreed on, and acceptance is not blocked only    *)
(* when every answer could be read and more than half of the panel         *)
(* accepts, all of it where the quorum is unanimous; a panel that accepts  *)
(* in full agreement blocks nothing (consensus_policy.md:25-40).           *)
PolicyDecides ==
    \A vr \in LastRounds :
        LET votes == vr[1]
            round == vr[2]
            accepting == For(votes, "accept")
        IN  /\ \A verdict, other \in Known :
                  AgreedOn(votes, round, verdict) /\ AgreedOn(votes, round, other)
                      => verdict = other
            /\ ~BlocksAcceptance(votes, round) =>
                   /\ ~Malformed(votes)
                   /\ 2 * Cardinality(accepting) > PanelSize
                   /\ Quorum = "unanimous" => accepting = Panel
            /\ (/\ accepting = Panel /\ ~Malformed(votes)
                /\ \A p \in Panel : votes[p].agrees)
                   => ~BlocksAcceptance(votes, round)
=============================================================================
