---------------------------- MODULE MCJobLedger ----------------------------
(***************************************************************************)
(* Two creators and two editors over a short ledger, and a panel of three. *)
(***************************************************************************)
EXTENDS JobLedger, TLC

CONSTANTS c1, c2, e1, e2, core, docs

Tasks == {[subsystem |-> core, metadata |-> FALSE, valid |-> TRUE, traced |-> FALSE]}
Symmetric == Permutations({c1, c2}) \cup Permutations({e1, e2})
=============================================================================
