--------------------------- MODULE MCEventStream ---------------------------
(***************************************************************************)
(* One run, one page, and a buffer that keeps one event.                   *)
(***************************************************************************)
EXTENDS EventStream, TLC

CONSTANTS r1, p1
=============================================================================
