----------------------------- MODULE MCRunStore -----------------------------
(***************************************************************************)
(* Small instances of RunStore: two controllers in processes of their own, *)
(* on one machine, or (TwoMachines) on two that share the checkout.        *)
(***************************************************************************)
EXTENDS RunStore, TLC

CONSTANTS c1, c2, p1, p2, m1, m2

OwnProcess == c1 :> p1 @@ c2 :> p2
OneMachine == p1 :> m1 @@ p2 :> m1
TwoMachines == p1 :> m1 @@ p2 :> m2
=============================================================================
