-------------------------------- MODULE Records --------------------------------
(* What a flow keeps of the calls it makes: what an event costs, the spend of  *)
(* the trackers over sessions, and the values its checkpoints hold.  An event  *)
(* is priced before a tracker hears of it and a value is encoded by itself:    *)
(* the parts share no state, and a behaviour is one of one part, the others    *)
(* resting in their initial states.                                            *)
EXTENDS Costs, Pricing, Codec

CostsRest == Init /\ UNCHANGED vars
PricingRests == PricingInit /\ UNCHANGED event
CodecRests == CodecInit /\ UNCHANGED codecVars

RecordsInit == Init /\ PricingInit /\ CodecInit

RecordsNext ==
  \/ PricingRests /\ CodecRests /\ Next
  \/ CostsRest /\ CodecRests /\ PricingNext
  \/ CostsRest /\ PricingRests /\ CodecNext

RecordsSpec == RecordsInit /\ [][RecordsNext]_<<vars, event, codecVars>>
===============================================================================
