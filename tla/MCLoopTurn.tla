------------------------------ MODULE MCLoopTurn ------------------------------
EXTENDS LoopTurn

ModeOf(calls, gathers, region, own_halt, cap) ==
  [calls |-> calls, gathers |-> gathers, factory |-> TRUE, own |-> own_halt,
   region |-> region, cap |-> cap]

(* One call with a cap or without, two in a row or at once in a region, one
   with a halt of its own, and one whose turn cannot be captured. *)
SomeModes ==
  {ModeOf(1, FALSE, FALSE, FALSE, 2), ModeOf(1, FALSE, TRUE, FALSE, 0),
   ModeOf(2, FALSE, TRUE, FALSE, 1), ModeOf(2, TRUE, TRUE, FALSE, 1),
   ModeOf(1, FALSE, TRUE, TRUE, 2),
   [ModeOf(2, FALSE, FALSE, FALSE, 1) EXCEPT !.factory = FALSE]}
=============================================================================
