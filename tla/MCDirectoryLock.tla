--------------------------- MODULE MCDirectoryLock ---------------------------
(***************************************************************************)
(* Three processes on one machine and one on another.                      *)
(***************************************************************************)
EXTENDS DirectoryLock, TLC

CONSTANTS p1, p2, p3, p4, m1, m2

MachineOfFour == p1 :> m1 @@ p2 :> m1 @@ p3 :> m1 @@ p4 :> m2

Interchangeable == Permutations({p1, p2, p3})
=============================================================================
