--------------------------- MODULE MCRunLifecycle ---------------------------
(***************************************************************************)
(* Two calls at once, in one process or in two (the web server, or two     *)
(* shells), on two runs of one checkout with one acceptance ID.            *)
(***************************************************************************)
EXTENDS RunLifecycle, TLC

CONSTANTS r1, r2, c1, c2, p1, p2, a

MostOnFirst == r1 :> {"resume", "stop", "handoff"} @@ r2 :> {"resume", "stop"}
Bounds == r1 :> 2 @@ r2 :> 1
Interchangeable == Permutations({c1, c2}) \cup Permutations({p1, p2})
=============================================================================
