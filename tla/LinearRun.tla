------------------------------ MODULE LinearRun ------------------------------
(***************************************************************************)
(* What a checkpointed flow promises of the steps it runs.  The state of a *)
(* run is the trail of the steps whose work it holds.  A step is admitted  *)
(* only when it is the next one of the program after the trail; it runs    *)
(* to its end or starts over; and the run falls back, if ever, exactly to  *)
(* its newest checkpoint.  Halts, crashes, resumes and the cursors that    *)
(* carry them do not appear here.                                          *)
(*                                                                         *)
(* The program: a chain of TopLen steps, of which IterAt is an iterate     *)
(* over a chain of BodyLen steps, of which BranchAt (0: none) is a branch  *)
(* between two chains of ArmLen steps.  A step is <<k, 0, 0, 0>> at the    *)
(* top, <<IterAt, p, m, 0>> in pass p of the iterate, and there            *)
(* <<IterAt, p, BranchAt, n>> in the branch, n > ArmLen in its else arm.   *)
(***************************************************************************)
EXTENDS Naturals, Sequences

CONSTANTS
  TopLen, IterAt, BodyLen, BranchAt, ArmLen,
  MaxIters,     \* the bound of the iterate
  None

VARIABLES
  plan,     \* how the program is declared: see Plan
  cut,      \* the signal of the region the flow is
  trail,    \* the steps done, in order
  admitted, \* the step under way, or None
  saved,    \* the newest checkpoint: [trail, admitted, cut]
  over      \* the run returned its result

vars == <<plan, cut, trail, admitted, saved, over>>

(* until holds after so many passes; the conclude steps of the chains;
   whether the iterate has a scope of its own (state= and merge=), saves
   after each pass, is rescued, has a deadline, and the branch an else arm. *)
Plan ==
  [stop : Nat \ {0},
   conclude : [top : SUBSET (1..TopLen), body : SUBSET (1..BodyLen), arm : {{}}],
   scoped : BOOLEAN, policy : BOOLEAN, rescue : BOOLEAN, deadline : BOOLEAN, orelse : BOOLEAN]

End == <<TopLen + 1, 0, 0, 0>>
Rescue == <<IterAt, MaxIters, 0, 0>>       \* the work of the iterate's rescue
Steps ==
  {<<k, 0, 0, 0>> : k \in (1..TopLen) \ {IterAt}} \cup {Rescue}
  \cup {<<IterAt, p, m, 0>> : p \in 0..(MaxIters - 1), m \in (1..BodyLen) \ {BranchAt}}
  \cup {<<IterAt, p, BranchAt, n>> : p \in 0..(MaxIters - 1), n \in 1..(2 * ArmLen)}

Last(t) == IF t = <<>> THEN <<0, 0, 0, 0>> ELSE t[Len(t)]
Earliest(S) == CHOOSE j \in S : \A i \in S : j <= i

(* The step of the top chain after its step k: any one, or the first conclude
   one when the flow fast-forwards; and the work that comes first from there,
   for an iterate that fast-forwards starts no pass. *)
TopStep(k, fast) ==
  Earliest({j \in (k + 1)..TopLen : fast => j \in plan.conclude.top} \cup {TopLen + 1})

TopAfter(k, fast) ==
  LET j == TopStep(k, fast) IN
  IF j # IterAt THEN <<j, 0, 0, 0>>
  ELSE IF fast THEN <<TopStep(IterAt, fast), 0, 0, 0>> ELSE <<IterAt, 0, 1, 0>>

(* After pass p: the next one, unless a bound or until is reached, the flow
   fast-forwards or the deadline is over. *)
PassAfter(p, fast) ==
  LET ends == fast \/ p + 1 >= MaxIters \/ p + 1 >= plan.stop IN
  (IF ends THEN {} ELSE {<<IterAt, p + 1, 1, 0>>})
  \cup (IF ends \/ plan.deadline THEN {TopAfter(IterAt, fast)} ELSE {})

(* After step m of the body and past the branch; and with it: an arm, or on,
   if the one chosen is not there. *)
Onward(p, m, fast) ==
  LET rest == {j \in (m + 1)..BodyLen : j # BranchAt /\ (fast => j \in plan.conclude.body)}
  IN IF rest = {} THEN PassAfter(p, fast) ELSE {<<IterAt, p, Earliest(rest), 0>>}

BodyAfter(p, m, fast) ==
  IF fast \/ m + 1 # BranchAt THEN Onward(p, m, fast)
  ELSE {<<IterAt, p, BranchAt, 1>>}
       \cup (IF plan.orelse THEN {<<IterAt, p, BranchAt, ArmLen + 1>>} ELSE Onward(p, m, fast))

(* What may come after the trail t. *)
Successors(t, fast) ==
  LET k == Last(t)[1]
      p == Last(t)[2]
      m == Last(t)[3]
      n == Last(t)[4]
  IN IF m = 0 THEN {TopAfter(k, fast)}
     ELSE IF ~fast /\ n \notin {0, ArmLen, 2 * ArmLen} THEN {<<k, p, m, n + 1>>}
     ELSE BodyAfter(p, m, fast)

Init ==
  /\ plan \in Plan /\ cut = FALSE /\ over = FALSE
  /\ trail = <<>> /\ admitted = None
  /\ saved = [trail |-> <<>>, admitted |-> None, cut |-> FALSE]

Admit ==
  /\ ~over /\ admitted = None
  /\ \E s \in Successors(trail, cut) \ {End} : admitted' = s
  /\ UNCHANGED <<plan, cut, trail, saved, over>>

Do ==
  /\ admitted # None
  /\ trail' = Append(trail, admitted) /\ admitted' = None
  /\ UNCHANGED <<plan, cut, saved, over>>

InIterate ==
  \/ admitted # None /\ admitted[1] = IterAt
  \/ Last(trail)[3] > 0
  \/ admitted = None /\ \E fast \in {FALSE, cut} : TopStep(Last(trail)[1], fast) = IterAt

(* The iterate fails and is rescued: the work in its own scope is gone. *)
GiveUp ==
  /\ plan.rescue /\ InIterate
  /\ \E n \in 0..Len(trail) :
       /\ IF plan.scoped
            THEN \A i \in 1..Len(trail) : trail[i][1] < IterAt <=> i <= n
            ELSE n = Len(trail)
       /\ trail' = Append(SubSeq(trail, 1, n), Rescue)
  /\ admitted' = None
  /\ UNCHANGED <<plan, cut, saved, over>>

Save ==
  /\ saved' = [trail |-> trail, admitted |-> admitted, cut |-> cut]
  /\ UNCHANGED <<plan, cut, trail, admitted, over>>

(* Falls back to the newest checkpoint. *)
Lose ==
  /\ ~over
  /\ trail' = saved.trail /\ admitted' = saved.admitted /\ cut' = saved.cut
  /\ UNCHANGED <<plan, saved, over>>

Signal == ~cut /\ cut' = TRUE /\ UNCHANGED <<plan, trail, admitted, saved, over>>

(* Nothing is left to do. *)
Return ==
  /\ admitted = None /\ End \in Successors(trail, cut)
  /\ over' = TRUE
  /\ UNCHANGED <<plan, cut, trail, admitted, saved>>

Next == Admit \/ Do \/ GiveUp \/ Save \/ Lose \/ Signal \/ Return

Spec == Init /\ [][Next]_vars
=============================================================================
