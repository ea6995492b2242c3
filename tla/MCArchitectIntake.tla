------------------------- MODULE MCArchitectIntake -------------------------
(***************************************************************************)
(* An interview about two requirements and two milestones, in any order;   *)
(* an answer may name a milestone twice, leave out fields and move a       *)
(* criterion to another requirement.                                       *)
(***************************************************************************)
EXTENDS ArchitectIntake, TLC

CONSTANTS u1, u2, r1, r2, a1, a2, m1, m2

Nothing ==
    [described |-> None, requirements |-> NoneYet, acceptance |-> NoneYet,
     milestones |-> <<>>, open |-> None]
Plan(id, covers, done) == [id |-> id, covers |-> covers, done |-> done]

Blocks ==
    {Nothing,
     [Nothing EXCEPT !.described = TRUE, !.requirements = r1 :> None,
                     !.acceptance = a1 :> r1,
                     !.milestones = <<Plan(m1, {r1}, {a1})>>, !.open = FALSE],
     [Nothing EXCEPT !.requirements = r2 :> {a2}, !.open = TRUE,
                     !.milestones = <<Plan(m2, {r1}, None), Plan(m2, {r2}, {a1})>>],
     [Nothing EXCEPT !.acceptance = (a2 :> None @@ a1 :> r2), !.open = FALSE],
     [Nothing EXCEPT !.milestones = <<Plan(m1, {r1, r2}, None)>>, !.acceptance = a1 :> r1]}

Symmetric == Permutations({u1, u2})
=============================================================================
