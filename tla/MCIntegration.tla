--------------------------- MODULE MCIntegration ---------------------------
(* The candidate adds one file and changes another, and leaves a third.    *)
EXTENDS Integration

CONSTANTS added, changed, own

ThreePaths == {added, changed, own}
Tree0 == [p \in ThreePaths |-> IF p = added THEN Absent ELSE Base]
TwoPaths == {added, changed}
=============================================================================
