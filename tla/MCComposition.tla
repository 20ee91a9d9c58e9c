---------------------------- MODULE MCComposition ----------------------------
(* Flows that can be swapped, all anonymous.  A composition combines builder
   calls of one part: resources, the signals and stores of a run, or maps. *)
EXTENDS Composition, TLC

Anonymous == [f \in Flows |-> "<anonymous>"]
OneName == [k \in Keys |-> "cost"]
Swaps == Permutations(Flows)

Descends(chains, kinds) ==
  \A f \in Flows : \A i \in DOMAIN chains[f] :
    chains[f][i].kids # <<>> => chains[f][i].kind \in kinds
Unhooked(chains) == \A f \in Flows : \A i \in DOMAIN chains[f] : chains[f][i].hooks = {}
OnePart(chains, attached, calls) ==
  LET used == {part \in DOMAIN Bare : \E f \in Flows : attached[f][part] # Bare[part]} IN
    \/ /\ Descends(chains, {"branch"}) /\ Unhooked(chains)
       /\ calls <= 2 /\ used \subseteq {"decl", "ask"}
       /\ \A f \in Flows : Len(chains[f]) <= 1
    \/ /\ Descends(chains, {"call"}) /\ Unhooked(chains)
       /\ \/ used \subseteq {"signals", "shortcut"}
          \/ calls <= 2 /\ used \subseteq {"halt", "store", "saver"}
    \/ /\ Descends(chains, {"iterate", "map"})
       /\ calls <= 1 /\ used = {}
       /\ \A f \in Flows : Len(chains[f]) <= 1
       /\ \E f \in Flows : chains[f] = <<>>
=============================================================================
