-------------------------- MODULE MCRunMaintenance --------------------------
(***************************************************************************)
(* Two controllers in two processes of one machine, with the operator's    *)
(* commands, on a run whose snapshots an older version wrote.              *)
(***************************************************************************)
EXTENDS RunMaintenance, TLC

CONSTANTS c1, c2, p1, p2, m1

ProcessOfTwo == c1 :> p1 @@ c2 :> p2
MachineOfTwo == p1 :> m1 @@ p2 :> m1
=============================================================================
