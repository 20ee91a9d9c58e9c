-------------------------------- MODULE MCMapRun --------------------------------
EXTENDS MapRun

(* Every callback may suspend but the merge, bodies and hooks may take a
   checkpoint: a map whose callbacks do less has fewer behaviours. *)
Mode(strict, policy, scoped, cap) ==
  [strict |-> strict, policy |-> policy, scoped |-> scoped, cap |-> cap,
   suspends |-> Hooks \ {"merging"}, checkpoints |-> TRUE]

PlainModes ==
  {Mode(FALSE, TRUE, TRUE, 2), Mode(TRUE, TRUE, TRUE, 2), Mode(TRUE, FALSE, TRUE, 2),
   Mode(FALSE, FALSE, TRUE, 1), Mode(FALSE, TRUE, FALSE, 2), Mode(TRUE, FALSE, FALSE, 1)}

(* A merge that suspends, in a run that only the policy saves. *)
AsyncMergeModes ==
  {[Mode(s, TRUE, TRUE, 2) EXCEPT !.suspends = {"merging"}, !.checkpoints = FALSE] :
     s \in BOOLEAN}

SoundModes == PlainModes \cup AsyncMergeModes

LenientMode == {Mode(FALSE, TRUE, TRUE, 2)}

(* Only the merge suspends, while a sibling may take a checkpoint. *)
AsyncMergeMode == {[m EXCEPT !.suspends = {"merging"}] : m \in LenientMode}
=============================================================================
