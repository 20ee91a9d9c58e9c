-------------------------------- MODULE MCSwarm --------------------------------
EXTENDS Swarm, TLC

CONSTANTS a1, a2, e1

(* a1's handler may relay to a2, and nobody else's to anybody. *)
Downwards == [a \in Agents |-> IF a = a1 THEN Agents \ {a1} ELSE {}]
=============================================================================
