----------------------------- MODULE RunHistory -----------------------------
(***************************************************************************)
(* What a run's store promises to the controllers that share it: one       *)
(* append-only history of committed transitions, extended only by a        *)
(* controller that has read the history's current end (the revision        *)
(* compare-and-swap), and never shortened or rewritten by a crash.         *)
(*                                                                         *)
(* The history's length is the state revision.  RunStore implements this   *)
(* specification with three files, a write-ahead intent and a recovery     *)
(* procedure.                                                              *)
(***************************************************************************)
EXTENDS Naturals, Sequences

CONSTANTS
    Controllers,   \* who may commit
    Changes        \* what a transition may change

VARIABLES
    history,   \* the committed transitions, oldest first
    seen       \* seen[c]: the revision controller c last read

vars == <<history, seen>>

Init ==
    /\ history = << >>
    /\ seen = [c \in Controllers |-> 0]

(* A controller reads the current revision. *)
Observe(c) ==
    /\ seen' = [seen EXCEPT ![c] = Len(history)]
    /\ UNCHANGED history

(* A transition by c takes effect; c had read the revision it replaces. *)
Commit(c) ==
    /\ seen[c] = Len(history)
    /\ \E change \in Changes :
           history' = Append(history, [by |-> c, change |-> change])
    /\ UNCHANGED seen

Next == \E c \in Controllers : Observe(c) \/ Commit(c)

Spec == Init /\ [][Next]_vars
=============================================================================
