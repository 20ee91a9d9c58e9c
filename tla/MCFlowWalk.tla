------------------------------ MODULE MCFlowWalk ------------------------------
EXTENDS FlowWalk

PlanOf(stop, top, body, scoped, rescue) ==
  [stop |-> stop, conclude |-> [top |-> top, body |-> body, arm |-> {}], scoped |-> scoped,
   policy |-> scoped, rescue |-> rescue, deadline |-> FALSE, orelse |-> ~scoped]

(* Three steps around an iterate of three: until stops it before max_iters or
   not; the steps that conclude; a scope of its own, a rescue, a deadline. *)
SomePlans ==
  {PlanOf(1, {}, {}, TRUE, FALSE), PlanOf(2, {3}, {2}, TRUE, TRUE),
   PlanOf(3, {2, 3}, {}, FALSE, TRUE), PlanOf(3, {}, {2}, FALSE, FALSE),
   [PlanOf(3, {3}, {}, TRUE, FALSE) EXCEPT !.deadline = TRUE]}
=============================================================================
