----------------------------- MODULE LoopTurnProofs -----------------------------
(***************************************************************************)
(* Proofs about LoopTurn, for any chain, declarations and sessions.        *)
(***************************************************************************)
EXTENDS LoopTurn, Integers, TLAPS

(* Before a step of the chain starts nothing is held; and if a checkout saved
   the step as running, what it saved is what the newest checkpoint holds. *)
Between ==
  /\ pc = "between" => live = NoTurns
  /\ status # "running" => pc = "between"
  /\ pc = "between" /\ ~pos.pending /\ status # "finished" =>
       saved = disk.turns /\ disk.pos = pos
  /\ pc = "step" => ~pos.pending

(* The step that runs is one of the chain. *)
Stepped == pc = "step" => pos.step \in Steps

(* A call holds nothing before it starts, and then what it continues, which
   the checkout has handed out. *)
CallsHold == \A k \in Calls : InStep =>
  /\ call[k].pc = "todo" => live[pos.step][k] = NoTurn
  /\ call[k].pc \in {"saia", "cost"} =>
       live[pos.step][k] = call[k].from /\ saved[pos.step][k] = NoTurn

(* The newest checkpoint is of no later position. *)
Behind ==
  /\ disk.pos.step <= pos.step
  /\ disk.pos.step = pos.step /\ pos.pending => disk.pos.pending

(* TurnsContinue, of what a checkpoint would hold at a path. *)
Now(s, k) == IF live[s][k] # NoTurn THEN live[s][k] ELSE saved[s][k]
Continues == \A k \in Calls :
  InStep /\ disk.pos = pos /\ disk.turns[pos.step][k].kind = "turn" =>
    /\ call[k].pc \in {"todo", "saia", "cost"} => Now(pos.step, k) = disk.turns[pos.step][k]
    /\ call[k].pc \in {"saia", "cost"} => call[k].from = disk.turns[pos.step][k]

(* Counted and within the cap, with one iteration over for each of n resumes. *)
Within(turn, cap, n) ==
  turn.kind = "turn" => turn.used = turn.work /\ (cap > 0 => turn.work <= cap + n)

(* What a session continues was held in an earlier one. *)
Stored == \A s \in Steps, k \in Calls :
  /\ Within(live[s][k], mode.cap, sessions - 1)
  /\ Within(disk.turns[s][k], mode.cap, sessions - 1)
  /\ Within(saved[s][k], mode.cap, IF status = "running" THEN sessions - 2 ELSE sessions - 1)

Counted == \A k \in Calls :
  /\ call[k].pc = "todo" => call[k].ran = 0
  /\ InStep /\ call[k].pc \in {"saia", "cost"} =>
       /\ Within(call[k].from, mode.cap, sessions - 2)
       /\ mode.cap > 0 => call[k].ran <= Lowered(mode.cap, call[k].from.used)

(* Why a call's turn was paused: its event stays set, and what the run's halt
   paused is held. *)
Pauses == InStep => \A k \in Calls : call[k].outcome = "paused" =>
  /\ call[k].pc = "cost" => Aborted
  /\ call[k].pc \in {"hook", "over"} =>
       FastForward \/ own \/ (halt /\ live[pos.step][k] # NoTurn)

IInv ==
  /\ TypeOK /\ HeldUnderTheStep /\ Between /\ Stepped /\ CallsHold /\ Behind
  /\ Continues /\ Stored /\ Counted /\ Pauses

-----------------------------------------------------------------------------
(* What is held, and a turn that was paused. *)
LEMMA HeldTypes ==
  /\ Continued \subseteq Held /\ NoTurn \in Continued /\ NoTurns \in Turns /\ ToMake \in Call
  /\ [k \in Calls |-> ToMake] \in [Calls -> Call]
  /\ AtStart \in Position
  /\ \A s \in Steps, k \in Calls : NoTurns[s][k] = NoTurn
BY LoopAssumption DEF Held, Continued, NoTurn, NoTurns, Turns, ToMake, Call, AtStart,
     Position, Steps

(* When the chain passes a step, nothing stays registered. *)
LEMMA ClosedIsNone ==
  ASSUME TypeOK, HeldUnderTheStep, pos.step \in Steps PROVE Closed(live) = NoTurns
<1>1. \A s \in Steps : s # pos.step => live[s] = [k \in Calls |-> NoTurn]
  BY DEF TypeOK, Turns, HeldUnderTheStep
<1>2. live = [s \in Steps |-> live[s]]
  BY DEF TypeOK, Turns
<1>3. NoTurns[pos.step] = [k \in Calls |-> NoTurn]
  BY DEF NoTurns
<1>4. QED
  BY <1>1, <1>2, <1>3 DEF Closed, NoTurns

LEMMA CaptureType ==
  TypeOK => Capture \in Turns /\ Snapshot \in [pos : Position, turns : Turns, cut : BOOLEAN]
<1> SUFFICES ASSUME TypeOK
             PROVE Capture \in Turns /\ Snapshot \in [pos : Position, turns : Turns, cut : BOOLEAN]
  OBVIOUS
<1>1. \A s \in Steps, k \in Calls : live[s][k] \in Held /\ saved[s][k] \in Held
  BY DEF TypeOK, Turns
<1>2. Capture \in Turns
  BY <1>1 DEF Capture, Turns
<1>3. QED
  BY <1>2 DEF Snapshot, TypeOK


LEMMA PausedType == ASSUME TypeOK, NEW k \in Calls PROVE Paused(k) \in Held
<1>1. call[k].from \in Continued /\ call[k].ran \in Nat
  BY DEF TypeOK, Call
<1>2. call[k].from.work \in Nat /\ call[k].from.used \in Nat
  BY <1>1 DEF Continued, NoTurn
<1>3. QED
  BY <1>1, <1>2 DEF Paused, Captured, Held, Continued

LEMMA CaptureAt == \A s \in Steps, k \in Calls : Capture[s][k] = Now(s, k)
BY DEF Capture, Now

(* Caps. *)
LEMMA ModeType == TypeOK => mode \in Mode
BY LoopAssumption DEF TypeOK

LEMMA LoweredPositive ==
  ASSUME NEW cap \in Nat \ {0}, NEW used \in Nat PROVE Lowered(cap, used) \in Nat \ {0}
BY DEF Lowered

LEMMA WithinNone == \A cap, n : Within(NoTurn, cap, n)
BY DEF Within, NoTurn

LEMMA WithinMore ==
  ASSUME NEW turn \in Held, NEW cap \in Nat, NEW n \in Int, NEW m \in Int, n <= m,
         Within(turn, cap, n)
  PROVE  Within(turn, cap, m)
<1>1. turn.kind = "turn" => turn.work \in Nat
  BY DEF Held, Continued, NoTurn, EmptyTurn
<1>2. QED
  BY <1>1 DEF Within

(* A turn paused now has at most one iteration over more than it had. *)
LEMMA PausedWithin ==
  ASSUME TypeOK, Counted, NEW k \in Calls, At(k, "cost")
  PROVE  Within(Paused(k), mode.cap, sessions - 1)
<1> DEFINE from == call[k].from
           ran == call[k].ran
<1>1. mode.cap \in Nat /\ sessions \in Nat \ {0}
  BY ModeType, LoopAssumption DEF Mode, TypeOK
<1>2. from \in Continued /\ ran \in Nat
  BY DEF TypeOK, Call
<1>3. from.work \in Nat /\ from.used \in Nat
  BY <1>2 DEF Continued, NoTurn
<1>4. /\ Within(from, mode.cap, sessions - 2)
      /\ mode.cap > 0 => ran <= Lowered(mode.cap, from.used)
  BY DEF Counted, At
<1>5. CASE from = NoTurn
  <2>1. from.work = 0 /\ from.used = 0
    BY <1>5 DEF NoTurn
  <2>2. mode.cap > 0 => ran <= mode.cap
    BY <1>1, <1>4, <2>1 DEF Lowered
  <2>3. QED
    BY <1>1, <1>2, <2>1, <2>2 DEF Within, Paused, Captured, EmptyTurn, NoTurn
<1>6. CASE from.kind = "turn"
  <2>1. from.used = from.work /\ (mode.cap > 0 => from.work <= mode.cap + (sessions - 2))
    BY <1>4, <1>6 DEF Within
  <2>2. mode.cap > 0 => from.work + ran <= mode.cap + (sessions - 1)
    BY <1>1, <1>2, <1>3, <1>4, <2>1 DEF Lowered
  <2>3. QED
    BY <2>1, <2>2 DEF Within, Paused, Captured, EmptyTurn, NoTurn
<1>7. QED
  BY <1>2, <1>5, <1>6 DEF Continued

LEMMA CaptureWithin ==
  ASSUME TypeOK, Stored, status = "running"
  PROVE  \A s \in Steps, k \in Calls : Within(Capture[s][k], mode.cap, sessions - 1)
<1> SUFFICES ASSUME NEW s \in Steps, NEW k \in Calls
             PROVE  Within(Capture[s][k], mode.cap, sessions - 1)
  OBVIOUS
<1>1. mode.cap \in Nat /\ sessions \in Nat
  BY ModeType, LoopAssumption DEF Mode, TypeOK
<1>2. saved[s][k] \in Held
  BY DEF TypeOK, Turns
<1>3. Within(live[s][k], mode.cap, sessions - 1) /\ Within(saved[s][k], mode.cap, sessions - 2)
  BY DEF Stored
<1>4. sessions - 2 \in Int /\ sessions - 1 \in Int /\ sessions - 2 <= sessions - 1
  BY <1>1
<1>5. Within(saved[s][k], mode.cap, sessions - 1)
  BY <1>1, <1>2, <1>3, <1>4, WithinMore
<1>6. QED
  BY <1>3, <1>5, CaptureAt DEF Now

(* Types. *)
LEMMA TypeStep == TypeOK /\ Stepped /\ [Next]_vars => TypeOK'
<1> SUFFICES ASSUME TypeOK, Stepped, [Next]_vars PROVE TypeOK'
  OBVIOUS
<1> USE LoopAssumption, HeldTypes DEF TypeOK, At, vars, events
<1>1. ASSUME NEW k \in Calls, EnterCall(k) PROVE TypeOK'
  <2>1. pos.step \in Steps
    BY <1>1 DEF EnterCall, Stepped, InStep
  <2>2. saved[pos.step][k] \in Held
    BY <2>1 DEF Turns
  <2>3. Taken(saved[pos.step][k]) \in Continued
    BY <2>2 DEF Taken, Held, EmptyTurn, NoTurn
  <2>4. saved' \in Turns
    BY <1>1, <2>1 DEF EnterCall, Turns
  <2>5. live' = live \/ live' = [live EXCEPT ![pos.step][k] = Taken(saved[pos.step][k])]
    BY <1>1 DEF EnterCall
  <2>6. live' \in Turns
    <3>1. Taken(saved[pos.step][k]) \in Held
      BY <2>3
    <3>2. [live EXCEPT ![pos.step][k] = Taken(saved[pos.step][k])] \in Turns
      BY <2>1, <3>1 DEF Turns
    <3>3. QED
      BY <2>5, <3>2
  <2>7. call[k] \in Call
    OBVIOUS
  <2>8. call' \in [Calls -> Call]
    BY <1>1, <2>3, <2>7 DEF EnterCall, Call
  <2>9. QED
    BY <1>1, <2>4, <2>6, <2>8 DEF EnterCall
<1>2. ASSUME NEW k \in Calls, SaiaPauses(k) PROVE TypeOK'
  <2>1. call[k] \in Call
    OBVIOUS
  <2>2. call' \in [Calls -> Call]
    BY <1>2, <2>1 DEF SaiaPauses, Returns, Call
  <2>3. QED
    BY <1>2, <2>2 DEF SaiaPauses
<1>3. ASSUME NEW k \in Calls, CostPaid(k) PROVE TypeOK'
  <2>1. call[k] \in Call /\ Paused(k) \in Held
    BY PausedType
  <2>2. call' \in [Calls -> Call]
    BY <1>3, <2>1 DEF CostPaid, Goes, Call
  <2>3. pos.step \in Steps
    BY <1>3 DEF CostPaid, Stepped, InStep
  <2>4. live' \in Turns
    BY <1>3, <2>1, <2>3 DEF CostPaid, Turns
  <2>5. QED
    BY <1>3, <2>2, <2>4 DEF CostPaid
<1>4. ASSUME NEW k \in Calls, HookReturns(k) PROVE TypeOK'
  <2>1. call[k] \in Call
    OBVIOUS
  <2>2. call' \in [Calls -> Call]
    BY <1>4, <2>1 DEF HookReturns, Goes, Call
  <2>3. QED
    BY <1>4, <2>2 DEF HookReturns
<1>5. ASSUME NEW k \in Calls, Iterate(k) PROVE TypeOK'
  <2>1. call[k] \in Call
    OBVIOUS
  <2>2. call' \in [Calls -> Call]
    BY <1>5, <2>1 DEF Iterate, Call
  <2>3. QED
    BY <1>5, <2>2 DEF Iterate
<1>6. ASSUME NEW k \in Calls, SaiaEnds(k) PROVE TypeOK'
  <2>1. call[k] \in Call
    OBVIOUS
  <2>2. call' \in [Calls -> Call]
    BY <1>6, <2>1 DEF SaiaEnds, Returns, Call
  <2>3. QED
    BY <1>6, <2>2 DEF SaiaEnds
<1>7. ASSUME NEW k \in Calls, CallRaises(k) PROVE TypeOK'
  <2>1. call[k] \in Call
    OBVIOUS
  <2>2. call' \in [Calls -> Call]
    BY <1>7, <2>1 DEF CallRaises, Call
  <2>3. QED
    BY <1>7, <2>2 DEF CallRaises
<1>8. CASE StartStep
  BY <1>8 DEF StartStep, Position
<1>9. CASE Finish
  BY <1>9 DEF Finish
<1>10. CASE EndStep
  <2>1. pos.step \in Steps /\ Past(pos) \in Position
    BY <1>10 DEF EndStep, VerbOver, Stepped, InStep, Past, Position, Steps
  <2>2. Closed(live) \in Turns
    BY <2>1 DEF Closed, Turns
  <2>3. QED
    BY <1>10, <2>1, <2>2 DEF EndStep
<1>11. CASE HaltCommits
  BY <1>11, CaptureType DEF HaltCommits, Stop, Snapshot
<1>12. CASE RunRaises
  BY <1>12 DEF RunRaises, Stop
<1>13. CASE HaltCommitFails
  BY <1>13 DEF HaltCommitFails, Stop
<1>14. CASE Crash
  BY <1>14 DEF Crash, Stop
<1>15. CASE Resume
  BY <1>15 DEF Resume
<1>16. CASE Checkpoint
  BY <1>16, CaptureType DEF Checkpoint
<1>17. CASE SetHalt
  BY <1>17 DEF SetHalt
<1>18. CASE SetOwn
  BY <1>18 DEF SetOwn
<1>19. CASE SetSignal
  BY <1>19 DEF SetSignal
<1>20. CASE UNCHANGED vars
  BY <1>20
<1>21. QED
  BY <1>1, <1>2, <1>3, <1>4, <1>5, <1>6, <1>7, <1>8, <1>9, <1>10, <1>11, <1>12, <1>13,
     <1>14, <1>15, <1>16, <1>17, <1>18, <1>19, <1>20 DEF Next, Advances, Chain

(* Around the steps. *)
LEMMA BetweenStep == IInv /\ TypeOK' /\ [Next]_vars => Between'
<1> SUFFICES ASSUME IInv, TypeOK', [Next]_vars PROVE Between'
  OBVIOUS
<1> USE LoopAssumption, HeldTypes DEF IInv, TypeOK, Between, HeldUnderTheStep, Stepped, At,
     InStep, vars, events
<1>1. ASSUME NEW k \in Calls, EnterCall(k) PROVE Between'
  BY <1>1 DEF EnterCall, Taken
<1>2. ASSUME NEW k \in Calls, SaiaPauses(k) PROVE Between'
  BY <1>2 DEF SaiaPauses, Returns
<1>3. ASSUME NEW k \in Calls, CostPaid(k) PROVE Between'
  BY <1>3 DEF CostPaid, Goes
<1>4. ASSUME NEW k \in Calls, HookReturns(k) PROVE Between'
  BY <1>4 DEF HookReturns, Goes
<1>5. ASSUME NEW k \in Calls, Iterate(k) PROVE Between'
  BY <1>5 DEF Iterate
<1>6. ASSUME NEW k \in Calls, SaiaEnds(k) PROVE Between'
  BY <1>6 DEF SaiaEnds, Returns
<1>7. ASSUME NEW k \in Calls, CallRaises(k) PROVE Between'
  BY <1>7 DEF CallRaises
<1>8. CASE StartStep
  BY <1>8 DEF StartStep
<1>9. CASE Finish
  BY <1>9 DEF Finish
<1>10. CASE EndStep
  BY <1>10, ClosedIsNone DEF EndStep, Past, VerbOver
<1>11. CASE HaltCommits
  BY <1>11 DEF HaltCommits, Stop, Snapshot
<1>12. CASE RunRaises
  BY <1>12 DEF RunRaises, Stop, VerbOver
<1>13. CASE HaltCommitFails
  BY <1>13 DEF HaltCommitFails, Stop
<1>14. CASE Crash
  BY <1>14 DEF Crash, Stop
<1>15. CASE Resume
  BY <1>15 DEF Resume
<1>16. CASE Checkpoint
  BY <1>16 DEF Checkpoint, Snapshot
<1>17. CASE SetHalt
  BY <1>17 DEF SetHalt
<1>18. CASE SetOwn
  BY <1>18 DEF SetOwn
<1>19. CASE SetSignal
  BY <1>19 DEF SetSignal
<1>20. CASE UNCHANGED vars
  BY <1>20
<1>21. QED
  BY <1>1, <1>2, <1>3, <1>4, <1>5, <1>6, <1>7, <1>8, <1>9, <1>10, <1>11, <1>12, <1>13,
       <1>14, <1>15, <1>16, <1>17, <1>18, <1>19, <1>20 DEF Next, Advances, Chain

(* The chain's bounds. *)
LEMMA SteppedStep == IInv /\ TypeOK' /\ [Next]_vars => Stepped'
<1> SUFFICES ASSUME IInv, TypeOK', [Next]_vars PROVE Stepped'
  OBVIOUS
<1> USE LoopAssumption, HeldTypes DEF IInv, TypeOK, Stepped, Between, StartsStep, Position,
     Steps, At, InStep, vars, events
<1>1. ASSUME NEW k \in Calls, EnterCall(k) PROVE Stepped'
  BY <1>1 DEF EnterCall, Taken
<1>2. ASSUME NEW k \in Calls, SaiaPauses(k) PROVE Stepped'
  BY <1>2 DEF SaiaPauses, Returns
<1>3. ASSUME NEW k \in Calls, CostPaid(k) PROVE Stepped'
  BY <1>3 DEF CostPaid, Goes
<1>4. ASSUME NEW k \in Calls, HookReturns(k) PROVE Stepped'
  BY <1>4 DEF HookReturns, Goes
<1>5. ASSUME NEW k \in Calls, Iterate(k) PROVE Stepped'
  BY <1>5 DEF Iterate
<1>6. ASSUME NEW k \in Calls, SaiaEnds(k) PROVE Stepped'
  BY <1>6 DEF SaiaEnds, Returns
<1>7. ASSUME NEW k \in Calls, CallRaises(k) PROVE Stepped'
  BY <1>7 DEF CallRaises
<1>8. CASE StartStep
  BY <1>8 DEF StartStep
<1>9. CASE Finish
  BY <1>9 DEF Finish
<1>10. CASE EndStep
  BY <1>10 DEF EndStep, Past, VerbOver
<1>11. CASE HaltCommits
  BY <1>11 DEF HaltCommits, Stop, Snapshot
<1>12. CASE RunRaises
  BY <1>12 DEF RunRaises, Stop, VerbOver
<1>13. CASE HaltCommitFails
  BY <1>13 DEF HaltCommitFails, Stop
<1>14. CASE Crash
  BY <1>14 DEF Crash, Stop
<1>15. CASE Resume
  BY <1>15 DEF Resume
<1>16. CASE Checkpoint
  BY <1>16 DEF Checkpoint, Snapshot
<1>17. CASE SetHalt
  BY <1>17 DEF SetHalt
<1>18. CASE SetOwn
  BY <1>18 DEF SetOwn
<1>19. CASE SetSignal
  BY <1>19 DEF SetSignal
<1>20. CASE UNCHANGED vars
  BY <1>20
<1>21. QED
  BY <1>1, <1>2, <1>3, <1>4, <1>5, <1>6, <1>7, <1>8, <1>9, <1>10, <1>11, <1>12, <1>13,
       <1>14, <1>15, <1>16, <1>17, <1>18, <1>19, <1>20 DEF Next, Advances, Chain

(* The checkpoint and the cursor. *)
LEMMA BehindStep == IInv /\ TypeOK' /\ [Next]_vars => Behind'
<1> SUFFICES ASSUME IInv, TypeOK', [Next]_vars PROVE Behind'
  OBVIOUS
<1> USE LoopAssumption, HeldTypes DEF IInv, TypeOK, Behind, Between, Position, At, InStep,
     vars, events
<1>1. ASSUME NEW k \in Calls, EnterCall(k) PROVE Behind'
  BY <1>1 DEF EnterCall, Taken
<1>2. ASSUME NEW k \in Calls, SaiaPauses(k) PROVE Behind'
  BY <1>2 DEF SaiaPauses, Returns
<1>3. ASSUME NEW k \in Calls, CostPaid(k) PROVE Behind'
  BY <1>3 DEF CostPaid, Goes
<1>4. ASSUME NEW k \in Calls, HookReturns(k) PROVE Behind'
  BY <1>4 DEF HookReturns, Goes
<1>5. ASSUME NEW k \in Calls, Iterate(k) PROVE Behind'
  BY <1>5 DEF Iterate
<1>6. ASSUME NEW k \in Calls, SaiaEnds(k) PROVE Behind'
  BY <1>6 DEF SaiaEnds, Returns
<1>7. ASSUME NEW k \in Calls, CallRaises(k) PROVE Behind'
  BY <1>7 DEF CallRaises
<1>8. CASE StartStep
  BY <1>8 DEF StartStep
<1>9. CASE Finish
  BY <1>9 DEF Finish
<1>10. CASE EndStep
  BY <1>10 DEF EndStep, Past, VerbOver
<1>11. CASE HaltCommits
  BY <1>11 DEF HaltCommits, Stop, Snapshot
<1>12. CASE RunRaises
  BY <1>12 DEF RunRaises, Stop, VerbOver
<1>13. CASE HaltCommitFails
  BY <1>13 DEF HaltCommitFails, Stop
<1>14. CASE Crash
  BY <1>14 DEF Crash, Stop
<1>15. CASE Resume
  BY <1>15 DEF Resume
<1>16. CASE Checkpoint
  BY <1>16 DEF Checkpoint, Snapshot
<1>17. CASE SetHalt
  BY <1>17 DEF SetHalt
<1>18. CASE SetOwn
  BY <1>18 DEF SetOwn
<1>19. CASE SetSignal
  BY <1>19 DEF SetSignal
<1>20. CASE UNCHANGED vars
  BY <1>20
<1>21. QED
  BY <1>1, <1>2, <1>3, <1>4, <1>5, <1>6, <1>7, <1>8, <1>9, <1>10, <1>11, <1>12, <1>13,
       <1>14, <1>15, <1>16, <1>17, <1>18, <1>19, <1>20 DEF Next, Advances, Chain

(* Turns and the step they are of. *)
LEMMA HeldStep == IInv /\ TypeOK' /\ [Next]_vars => HeldUnderTheStep'
<1> SUFFICES ASSUME IInv, TypeOK', [Next]_vars PROVE HeldUnderTheStep'
  OBVIOUS
<1> USE LoopAssumption, HeldTypes DEF IInv, TypeOK, HeldUnderTheStep, Between, Stepped,
     Turns, At, InStep, vars, events
<1>1. ASSUME NEW k \in Calls, EnterCall(k) PROVE HeldUnderTheStep'
  BY <1>1 DEF EnterCall, Taken
<1>2. ASSUME NEW k \in Calls, SaiaPauses(k) PROVE HeldUnderTheStep'
  BY <1>2 DEF SaiaPauses, Returns
<1>3. ASSUME NEW k \in Calls, CostPaid(k) PROVE HeldUnderTheStep'
  BY <1>3 DEF CostPaid, Goes
<1>4. ASSUME NEW k \in Calls, HookReturns(k) PROVE HeldUnderTheStep'
  BY <1>4 DEF HookReturns, Goes
<1>5. ASSUME NEW k \in Calls, Iterate(k) PROVE HeldUnderTheStep'
  BY <1>5 DEF Iterate
<1>6. ASSUME NEW k \in Calls, SaiaEnds(k) PROVE HeldUnderTheStep'
  BY <1>6 DEF SaiaEnds, Returns
<1>7. ASSUME NEW k \in Calls, CallRaises(k) PROVE HeldUnderTheStep'
  BY <1>7 DEF CallRaises
<1>8. CASE StartStep
  BY <1>8 DEF StartStep
<1>9. CASE Finish
  BY <1>9 DEF Finish
<1>10. CASE EndStep
  <2>1. ASSUME halt, Interrupted PROVE HeldUnderTheStep'
    BY <1>10, <2>1 DEF EndStep
  <2>2. ASSUME ~Interrupted, live' = live PROVE HeldUnderTheStep'
    BY <1>10, <2>2 DEF EndStep, Interrupted, VerbOver
  <2>3. ASSUME live' = NoTurns PROVE HeldUnderTheStep'
    BY <2>3
  <2>4. (halt /\ Interrupted) \/ (~Interrupted /\ live' = live) \/ live' = NoTurns
    BY <1>10, ClosedIsNone DEF EndStep, VerbOver
  <2>5. QED
    BY <2>1, <2>2, <2>3, <2>4
<1>11. CASE HaltCommits
  BY <1>11 DEF HaltCommits, Stop, Snapshot
<1>12. CASE RunRaises
  BY <1>12 DEF RunRaises, Stop, VerbOver
<1>13. CASE HaltCommitFails
  BY <1>13 DEF HaltCommitFails, Stop
<1>14. CASE Crash
  BY <1>14 DEF Crash, Stop
<1>15. CASE Resume
  BY <1>15 DEF Resume
<1>16. CASE Checkpoint
  BY <1>16 DEF Checkpoint, Snapshot
<1>17. CASE SetHalt
  BY <1>17 DEF SetHalt
<1>18. CASE SetOwn
  BY <1>18 DEF SetOwn
<1>19. CASE SetSignal
  BY <1>19 DEF SetSignal
<1>20. CASE UNCHANGED vars
  BY <1>20
<1>21. QED
  BY <1>1, <1>2, <1>3, <1>4, <1>5, <1>6, <1>7, <1>8, <1>9, <1>10, <1>11, <1>12, <1>13,
       <1>14, <1>15, <1>16, <1>17, <1>18, <1>19, <1>20 DEF Next, Advances, Chain

(* What a call holds. *)
LEMMA CallsHoldStep == IInv /\ TypeOK' /\ [Next]_vars => CallsHold'
<1> SUFFICES ASSUME IInv, TypeOK', [Next]_vars PROVE CallsHold'
  OBVIOUS
<1> USE LoopAssumption, HeldTypes DEF IInv, TypeOK, CallsHold, HeldUnderTheStep, Between,
     Stepped, Turns, Call, At, InStep, vars, events
<1>1. ASSUME NEW k \in Calls, EnterCall(k) PROVE CallsHold'
  BY <1>1 DEF EnterCall, Taken
<1>2. ASSUME NEW k \in Calls, SaiaPauses(k) PROVE CallsHold'
  BY <1>2 DEF SaiaPauses, Returns
<1>3. ASSUME NEW k \in Calls, CostPaid(k) PROVE CallsHold'
  BY <1>3 DEF CostPaid, Goes
<1>4. ASSUME NEW k \in Calls, HookReturns(k) PROVE CallsHold'
  BY <1>4 DEF HookReturns, Goes
<1>5. ASSUME NEW k \in Calls, Iterate(k) PROVE CallsHold'
  BY <1>5 DEF Iterate
<1>6. ASSUME NEW k \in Calls, SaiaEnds(k) PROVE CallsHold'
  BY <1>6 DEF SaiaEnds, Returns
<1>7. ASSUME NEW k \in Calls, CallRaises(k) PROVE CallsHold'
  BY <1>7 DEF CallRaises
<1>8. CASE StartStep
  BY <1>8 DEF StartStep, ToMake, StartsStep, Position, Steps
<1>9. CASE Finish
  BY <1>9 DEF Finish
<1>10. CASE EndStep
  BY <1>10 DEF EndStep, Past, VerbOver
<1>11. CASE HaltCommits
  BY <1>11 DEF HaltCommits, Stop, Snapshot
<1>12. CASE RunRaises
  BY <1>12 DEF RunRaises, Stop, VerbOver
<1>13. CASE HaltCommitFails
  BY <1>13 DEF HaltCommitFails, Stop
<1>14. CASE Crash
  BY <1>14 DEF Crash, Stop
<1>15. CASE Resume
  BY <1>15 DEF Resume
<1>16. CASE Checkpoint
  BY <1>16 DEF Checkpoint, Snapshot
<1>17. CASE SetHalt
  BY <1>17 DEF SetHalt
<1>18. CASE SetOwn
  BY <1>18 DEF SetOwn
<1>19. CASE SetSignal
  BY <1>19 DEF SetSignal
<1>20. CASE UNCHANGED vars
  BY <1>20
<1>21. QED
  BY <1>1, <1>2, <1>3, <1>4, <1>5, <1>6, <1>7, <1>8, <1>9, <1>10, <1>11, <1>12, <1>13,
       <1>14, <1>15, <1>16, <1>17, <1>18, <1>19, <1>20 DEF Next, Advances, Chain

(* Why a turn is paused. *)
LEMMA PausesStep == IInv /\ TypeOK' /\ [Next]_vars => Pauses'
<1> SUFFICES ASSUME IInv, TypeOK', [Next]_vars PROVE Pauses'
  OBVIOUS
<1> USE LoopAssumption, HeldTypes DEF IInv, TypeOK, Pauses, Stepped, Between, Turns, Call,
     Aborted, FastForward, CutShort, At, InStep, vars, events
<1>1. ASSUME NEW k \in Calls, EnterCall(k) PROVE Pauses'
  <2>1. pos.step \in Steps /\ live[pos.step] \in [Calls -> Held]
    BY <1>1 DEF EnterCall
  <2>2. \A j \in Calls : j # k => call'[j] = call[j] /\ live'[pos.step][j] = live[pos.step][j]
    BY <1>1, <2>1 DEF EnterCall
  <2>3. call'[k].outcome = "paused" /\ call'[k].pc \in {"hook", "over"} => FastForward
    BY <1>1 DEF EnterCall
  <2>4. call'[k].pc # "cost"
    BY <1>1 DEF EnterCall
  <2>5. (FastForward' <=> FastForward) /\ (Aborted' <=> Aborted) /\ own' = own /\ halt' = halt /\ pos' = pos
    BY <1>1 DEF EnterCall
  <2>6. ASSUME NEW j \in Calls, InStep', call'[j].outcome = "paused"
        PROVE  /\ call'[j].pc = "cost" => Aborted'
               /\ call'[j].pc \in {"hook", "over"} =>
                    FastForward' \/ own' \/ (halt' /\ live'[pos'.step][j] # NoTurn)
    <3>1. CASE j = k
      BY <2>3, <2>4, <2>5, <2>6, <3>1
    <3>2. CASE j # k
      <4>1. InStep /\ call[j].outcome = "paused"
        BY <1>1, <2>2, <2>6, <3>2 DEF EnterCall
      <4>2. QED
        BY <2>2, <2>5, <3>2, <4>1
    <3>3. QED
      BY <3>1, <3>2
  <2>7. QED
    BY <2>6
<1>2. ASSUME NEW k \in Calls, SaiaPauses(k) PROVE Pauses'
  BY <1>2 DEF SaiaPauses, Returns
<1>3. ASSUME NEW k \in Calls, CostPaid(k) PROVE Pauses'
  BY <1>3 DEF CostPaid, Goes, Paused, Captured, EmptyTurn, NoTurn
<1>4. ASSUME NEW k \in Calls, HookReturns(k) PROVE Pauses'
  BY <1>4 DEF HookReturns, Goes
<1>5. ASSUME NEW k \in Calls, Iterate(k) PROVE Pauses'
  BY <1>5 DEF Iterate
<1>6. ASSUME NEW k \in Calls, SaiaEnds(k) PROVE Pauses'
  BY <1>6 DEF SaiaEnds, Returns
<1>7. ASSUME NEW k \in Calls, CallRaises(k) PROVE Pauses'
  BY <1>7 DEF CallRaises
<1>8. CASE StartStep
  BY <1>8 DEF StartStep, ToMake
<1>9. CASE Finish
  BY <1>9 DEF Finish
<1>10. CASE EndStep
  BY <1>10 DEF EndStep, Past, VerbOver
<1>11. CASE HaltCommits
  BY <1>11 DEF HaltCommits, Stop, Snapshot
<1>12. CASE RunRaises
  BY <1>12 DEF RunRaises, Stop, VerbOver
<1>13. CASE HaltCommitFails
  BY <1>13 DEF HaltCommitFails, Stop
<1>14. CASE Crash
  BY <1>14 DEF Crash, Stop
<1>15. CASE Resume
  BY <1>15 DEF Resume
<1>16. CASE Checkpoint
  BY <1>16 DEF Checkpoint, Snapshot
<1>17. CASE SetHalt
  BY <1>17 DEF SetHalt
<1>18. CASE SetOwn
  BY <1>18 DEF SetOwn
<1>19. CASE SetSignal
  BY <1>19 DEF SetSignal
<1>20. CASE UNCHANGED vars
  BY <1>20
<1>21. QED
  BY <1>1, <1>2, <1>3, <1>4, <1>5, <1>6, <1>7, <1>8, <1>9, <1>10, <1>11, <1>12, <1>13,
       <1>14, <1>15, <1>16, <1>17, <1>18, <1>19, <1>20 DEF Next, Advances, Chain

(* Turns that checkpoints captured. *)
LEMMA ContinuesStep == IInv /\ TypeOK' /\ [Next]_vars => Continues'
<1> SUFFICES ASSUME IInv, TypeOK', [Next]_vars PROVE Continues'
  OBVIOUS
<1> USE LoopAssumption, HeldTypes DEF IInv, TypeOK, Continues, Now, CallsHold, Stepped,
     Between, Turns, Call, At, InStep, vars, events
<1>1. ASSUME NEW k \in Calls, EnterCall(k) PROVE Continues'
  BY <1>1 DEF EnterCall, Taken
<1>2. ASSUME NEW k \in Calls, SaiaPauses(k) PROVE Continues'
  BY <1>2 DEF SaiaPauses, Returns
<1>3. ASSUME NEW k \in Calls, CostPaid(k) PROVE Continues'
  BY <1>3 DEF CostPaid, Goes
<1>4. ASSUME NEW k \in Calls, HookReturns(k) PROVE Continues'
  BY <1>4 DEF HookReturns, Goes
<1>5. ASSUME NEW k \in Calls, Iterate(k) PROVE Continues'
  BY <1>5 DEF Iterate
<1>6. ASSUME NEW k \in Calls, SaiaEnds(k) PROVE Continues'
  BY <1>6 DEF SaiaEnds, Returns
<1>7. ASSUME NEW k \in Calls, CallRaises(k) PROVE Continues'
  <2>1. \A j \in Calls : j # k => call'[j] = call[j]
    BY <1>7 DEF CallRaises
  <2>2. call'[k].pc = "over"
    BY <1>7 DEF CallRaises
  <2>3. UNCHANGED <<status, pc, pos, live, saved, disk>>
    BY <1>7 DEF CallRaises
  <2>4. ASSUME NEW j \in Calls, InStep', disk.pos = pos, disk.turns[pos.step][j].kind = "turn"
        PROVE  /\ call'[j].pc \in {"todo", "saia", "cost"} =>
                    Now(pos.step, j) = disk.turns[pos.step][j]
               /\ call'[j].pc \in {"saia", "cost"} => call'[j].from = disk.turns[pos.step][j]
    BY <2>1, <2>2, <2>3, <2>4
  <2>5. QED
    BY <2>3, <2>4
<1>8. CASE StartStep
  BY <1>8 DEF StartStep, ToMake, Behind, Position, StartsStep, Steps
<1>9. CASE Finish
  BY <1>9 DEF Finish
<1>10. CASE EndStep
  BY <1>10 DEF EndStep, Past, VerbOver
<1>11. CASE HaltCommits
  BY <1>11 DEF HaltCommits, Stop, Snapshot
<1>12. CASE RunRaises
  BY <1>12 DEF RunRaises, Stop, VerbOver
<1>13. CASE HaltCommitFails
  BY <1>13 DEF HaltCommitFails, Stop
<1>14. CASE Crash
  BY <1>14 DEF Crash, Stop
<1>15. CASE Resume
  BY <1>15 DEF Resume
<1>16. CASE Checkpoint
  BY <1>16, CaptureAt DEF Checkpoint, Snapshot
<1>17. CASE SetHalt
  BY <1>17 DEF SetHalt
<1>18. CASE SetOwn
  BY <1>18 DEF SetOwn
<1>19. CASE SetSignal
  BY <1>19 DEF SetSignal
<1>20. CASE UNCHANGED vars
  BY <1>20
<1>21. QED
  BY <1>1, <1>2, <1>3, <1>4, <1>5, <1>6, <1>7, <1>8, <1>9, <1>10, <1>11, <1>12, <1>13,
       <1>14, <1>15, <1>16, <1>17, <1>18, <1>19, <1>20 DEF Next, Advances, Chain

(* What turns have used. *)
LEMMA StoredStep == IInv /\ TypeOK' /\ [Next]_vars => Stored'
<1> SUFFICES ASSUME IInv, TypeOK', [Next]_vars PROVE Stored'
  OBVIOUS
<1> USE LoopAssumption, HeldTypes, WithinNone DEF IInv, Stored
<1>1. mode.cap \in Nat /\ sessions \in Nat
  BY ModeType DEF Mode, TypeOK
<1>2. CASE UNCHANGED <<mode, status, sessions, live, saved, disk>>
  BY <1>2
<1>3. ASSUME NEW k \in Calls, EnterCall(k) PROVE Stored'
  <2> DEFINE found == saved[pos.step][k]
  <2>1. pos.step \in Steps /\ status = "running"
    BY <1>3 DEF EnterCall, At, InStep, Stepped
  <2>2. found \in Held /\ Within(found, mode.cap, sessions - 2)
    BY <2>1 DEF TypeOK, Turns
  <2>3. sessions - 2 \in Int /\ sessions - 1 \in Int /\ sessions - 2 <= sessions - 1
    BY <1>1
  <2>4. Within(found, mode.cap, sessions - 1)
    BY <1>1, <2>2, <2>3, WithinMore
  <2>5. Within(Taken(found), mode.cap, sessions - 1)
    BY <2>4 DEF Taken
  <2>6. UNCHANGED <<mode, status, sessions, disk>>
    BY <1>3 DEF EnterCall
  <2>7. saved' = [saved EXCEPT ![pos.step][k] = NoTurn]
    BY <1>3 DEF EnterCall
  <2>8. live' = live \/ live' = [live EXCEPT ![pos.step][k] = Taken(found)]
    BY <1>3 DEF EnterCall
  <2>9. \A s \in Steps, j \in Calls : live'[s][j] \in {live[s][j], Taken(found)}
    <3>1. CASE live' = live
      BY <3>1
    <3>2. CASE live' = [live EXCEPT ![pos.step][k] = Taken(found)]
      <4> HIDE DEF found
      <4>1. QED
        BY <3>2 DEF TypeOK, Turns
    <3>3. QED
      BY <2>8, <3>1, <3>2
  <2>10. \A s \in Steps, j \in Calls : saved'[s][j] \in {saved[s][j], NoTurn}
    BY <2>7 DEF TypeOK, Turns
  <2>11. QED
    BY <2>1, <2>5, <2>6, <2>9, <2>10
<1>4. ASSUME NEW k \in Calls, CostPaid(k) PROVE Stored'
  <2>1. Within(Paused(k), mode.cap, sessions - 1)
    BY <1>4, PausedWithin DEF CostPaid
  <2>2. UNCHANGED <<mode, status, sessions, saved, disk>>
    BY <1>4 DEF CostPaid
  <2>3. \A s \in Steps, j \in Calls : live'[s][j] \in {live[s][j], NoTurn, Paused(k)}
    BY <1>4 DEF CostPaid, TypeOK, Turns
  <2>4. QED
    BY <2>1, <2>2, <2>3
<1>5. CASE Finish
  BY <1>5 DEF Finish
<1>6. CASE EndStep
  <2>1. UNCHANGED <<mode, status, sessions, saved, disk>> /\ (live' = live \/ live' = NoTurns)
    BY <1>6, ClosedIsNone DEF EndStep, VerbOver, InStep, Stepped
  <2>2. QED
    BY <2>1
<1>7. CASE RunRaises \/ HaltCommitFails \/ Crash
  <2>1. Stop(disk)
    BY <1>7 DEF RunRaises, HaltCommitFails, Crash
  <2>2. QED
    BY <2>1 DEF Stop
<1>8. CASE HaltCommits
  BY <1>8, CaptureWithin DEF HaltCommits, Stop, Snapshot
<1>9. CASE Resume
  <2>1. /\ UNCHANGED <<mode, live, saved, disk>>
        /\ status # "running" /\ status' = "running" /\ sessions' = sessions + 1
    BY <1>9 DEF Resume
  <2>2. /\ sessions' - 2 = sessions - 1 /\ sessions' - 1 = sessions
        /\ sessions - 1 \in Int /\ sessions \in Int /\ sessions - 1 <= sessions
    BY <1>1, <2>1
  <2>3. ASSUME NEW s \in Steps, NEW k \in Calls
        PROVE  /\ Within(live[s][k], mode.cap, sessions) /\ Within(disk.turns[s][k], mode.cap, sessions)
               /\ Within(saved[s][k], mode.cap, sessions - 1)
    <3>1. live[s][k] \in Held /\ disk.turns[s][k] \in Held
      BY DEF TypeOK, Turns
    <3>2. QED
      BY <1>1, <2>1, <2>2, <3>1, WithinMore
  <2>4. QED
    BY <2>1, <2>2, <2>3
<1>10. CASE Checkpoint
  BY <1>10, CaptureWithin DEF Checkpoint, Snapshot, InStep
<1>11. QED
  <2>1. ASSUME NEW k \in Calls, Advances(k) \/ Iterate(k) \/ SaiaEnds(k) \/ CallRaises(k)
        PROVE  Stored'
    BY <1>2, <1>3, <1>4, <2>1 DEF Advances, SaiaPauses, HookReturns, Iterate, SaiaEnds,
         CallRaises
  <2>2. ASSUME StartStep \/ SetHalt \/ SetOwn \/ SetSignal \/ UNCHANGED vars PROVE Stored'
    BY <1>2, <2>2 DEF StartStep, SetHalt, SetOwn, SetSignal, vars
  <2>3. QED
    BY <1>5, <1>6, <1>7, <1>8, <1>9, <1>10, <2>1, <2>2 DEF Next, Chain

LEMMA CountedStep == IInv /\ TypeOK' /\ [Next]_vars => Counted'
<1> SUFFICES ASSUME IInv, TypeOK', [Next]_vars PROVE Counted'
  OBVIOUS
<1> USE LoopAssumption, HeldTypes, WithinNone DEF IInv, Counted
<1>1. mode.cap \in Nat /\ sessions \in Nat
  BY ModeType DEF Mode, TypeOK
<1>2. ASSUME NEW k \in Calls, UNCHANGED <<mode, status, sessions, pc>>,
             \A j \in Calls : j # k => call'[j] = call[j],
             \/ call'[k].pc \in {"hook", "over"}
             \/ call'[k].pc = "cost" /\ call[k].pc = "saia" /\ InStep
                 /\ call'[k].from = call[k].from /\ call'[k].ran = call[k].ran
      PROVE  Counted'
  BY <1>2 DEF InStep
<1>3. ASSUME NEW k \in Calls, EnterCall(k) PROVE Counted'
  <2> DEFINE found == saved[pos.step][k]
  <2>1. pos.step \in Steps /\ status = "running" /\ call[k] \in Call
    BY <1>3 DEF EnterCall, At, InStep, Stepped, TypeOK
  <2>2. found \in Held /\ Within(found, mode.cap, sessions - 2)
    BY <2>1 DEF TypeOK, Turns, Stored
  <2>3. Taken(found) \in Continued /\ Within(Taken(found), mode.cap, sessions - 2)
    BY <2>2 DEF Taken, Held, EmptyTurn, NoTurn
  <2>4. Taken(found).used \in Nat
    BY <2>3 DEF Continued, NoTurn
  <2>5. mode.cap > 0 => 0 <= Lowered(mode.cap, Taken(found).used)
    BY <1>1, <2>4 DEF Lowered
  <2>6. \A j \in Calls : j # k => call'[j] = call[j]
    BY <1>3 DEF EnterCall, TypeOK
  <2>7. \/ call'[k].pc = "over"
        \/ call'[k].pc = "saia" /\ call'[k].from = Taken(found) /\ call'[k].ran = 0
    BY <1>3, <2>1 DEF EnterCall, Call, At, TypeOK
  <2>8. UNCHANGED <<mode, status, sessions, pc>>
    BY <1>3 DEF EnterCall
  <2>9. QED
    BY <2>3, <2>5, <2>6, <2>7, <2>8 DEF InStep
<1>4. ASSUME NEW k \in Calls, SaiaPauses(k) \/ SaiaEnds(k) PROVE Counted'
  <2>1. /\ call[k].pc = "saia" /\ InStep /\ UNCHANGED <<mode, status, sessions, pc>>
        /\ \E outcome \in {"paused", "done"} : Returns(k, outcome)
    BY <1>4 DEF SaiaPauses, SaiaEnds, At
  <2>2. /\ \A j \in Calls : j # k => call'[j] = call[j]
        /\ call'[k].pc = "cost" /\ call'[k].from = call[k].from /\ call'[k].ran = call[k].ran
    BY <2>1 DEF Returns, TypeOK, Call
  <2>3. QED
    BY <1>2, <2>1, <2>2
<1>5. ASSUME NEW k \in Calls, CostPaid(k) \/ HookReturns(k) \/ CallRaises(k) PROVE Counted'
  <2>1. /\ UNCHANGED <<mode, status, sessions, pc>>
        /\ \A j \in Calls : j # k => call'[j] = call[j]
        /\ call'[k].pc \in {"hook", "over"}
    BY <1>5 DEF CostPaid, HookReturns, CallRaises, Goes, TypeOK, Call
  <2>2. QED
    BY <1>2, <2>1
<1>6. ASSUME NEW k \in Calls, Iterate(k) PROVE Counted'
  <2>1. call[k].ran \in Nat /\ call[k].from.used \in Nat
    BY DEF TypeOK, Call, Continued, NoTurn
  <2>2. InStep /\ call[k].pc = "saia" /\ call[k].ran < Allowed(k)
        /\ UNCHANGED <<mode, status, sessions, pc>>
    BY <1>6 DEF Iterate, At
  <2>3. /\ \A j \in Calls : j # k => call'[j] = call[j]
        /\ call'[k].pc = "saia" /\ call'[k].from = call[k].from /\ call'[k].ran = call[k].ran + 1
    BY <1>6, <2>2 DEF Iterate, TypeOK, Call
  <2>4. mode.cap > 0 => Lowered(mode.cap, call[k].from.used) \in Nat \ {0}
    BY <1>1, <2>1, LoweredPositive
  <2>5. mode.cap > 0 => call[k].ran + 1 <= Lowered(mode.cap, call[k].from.used)
    BY <1>1, <2>1, <2>2, <2>4 DEF Allowed
  <2>6. Within(call[k].from, mode.cap, sessions - 2)
    BY <2>2
  <2>7. QED
    BY <2>2, <2>3, <2>5, <2>6 DEF InStep
<1>7. ASSUME call' = [k \in Calls |-> ToMake] PROVE Counted'
  BY <1>7 DEF ToMake
<1>8. ASSUME UNCHANGED <<mode, sessions, call>>, InStep' => InStep PROVE Counted'
  BY <1>8
<1>9. CASE StartStep \/ RunRaises \/ HaltCommits \/ HaltCommitFails \/ Crash
  BY <1>7, <1>9 DEF StartStep, RunRaises, HaltCommits, HaltCommitFails, Crash, Stop
<1>10. CASE Finish \/ EndStep \/ Checkpoint \/ SetHalt \/ SetOwn \/ SetSignal \/ UNCHANGED vars
  BY <1>8, <1>10 DEF Finish, EndStep, Checkpoint, SetHalt, SetOwn, SetSignal, vars,
       VerbOver, InStep
<1>11. CASE Resume
  <2>1. UNCHANGED call /\ pc' = pc /\ pc = "between"
    BY <1>11 DEF Resume, Between
  <2>2. QED
    BY <2>1 DEF InStep
<1>12. QED
  BY <1>3, <1>4, <1>5, <1>6, <1>9, <1>10, <1>11 DEF Next, Advances, Chain

(* The invariant, and what follows from it. *)
LEMMA Invariant == Spec => []IInv
<1>1. Init => IInv
  <2> SUFFICES ASSUME Init PROVE IInv
    OBVIOUS
  <2> USE LoopAssumption, HeldTypes DEF Init
  <2>1. TypeOK /\ AtStart.step = 1 /\ AtStart.pending
    <3>1. disk \in [pos : Position, turns : Turns, cut : BOOLEAN]
      OBVIOUS
    <3>2. status \in {"running", "stopped", "finished"} /\ sessions \in 1..MaxSessions
      OBVIOUS
    <3>3. /\ halt \in BOOLEAN /\ own \in BOOLEAN /\ cut \in BOOLEAN
          /\ pc \in {"between", "step", "stopping"}
      OBVIOUS
    <3>4. mode \in Modes /\ pos \in Position /\ call \in [Calls -> Call] /\ live \in Turns /\ saved \in Turns
      OBVIOUS
    <3>5. TypeOK
      BY <3>1, <3>2, <3>3, <3>4 DEF TypeOK
    <3>6. QED
      BY <3>5 DEF AtStart
  <2>2. HeldUnderTheStep /\ Between /\ Stepped /\ Behind
    BY <2>1 DEF HeldUnderTheStep, Between, Stepped, Behind
  <2>3. CallsHold /\ Continues /\ Pauses
    BY DEF CallsHold, Continues, Pauses, InStep
  <2>4. Stored /\ Counted
    BY WithinNone DEF Stored, Counted, InStep, ToMake
  <2>5. QED
    BY <2>1, <2>2, <2>3, <2>4 DEF IInv
<1>2. IInv /\ [Next]_vars => IInv'
  <2> SUFFICES ASSUME IInv, [Next]_vars PROVE IInv'
    OBVIOUS
  <2>1. TypeOK'
    BY TypeStep DEF IInv
  <2>2. QED
    BY <2>1, BetweenStep, SteppedStep, BehindStep, HeldStep, CallsHoldStep, PausesStep,
       ContinuesStep, StoredStep, CountedStep DEF IInv
<1>3. QED
  BY <1>1, <1>2, PTL DEF Spec

(* Every variable keeps its type; only captured turns are continued. *)
THEOREM TypeCorrect == Spec => []TypeOK
<1>1. IInv => TypeOK
  BY DEF IInv
<1>2. QED
  BY <1>1, Invariant, PTL

(* Turns are held under the step that runs or was interrupted, and nowhere
   else (Chain._step). *)
THEOREM HeldNowhereElse == Spec => []HeldUnderTheStep
<1>1. IInv => HeldUnderTheStep
  BY DEF IInv
<1>2. QED
  BY <1>1, Invariant, PTL

(* A captured turn stays in every checkpoint until its call continues exactly
   it and returns again (Loop._consume_saved_turn). *)
THEOREM TurnsAreContinued == Spec => []TurnsContinue
<1>1. IInv => TurnsContinue
  <2> SUFFICES ASSUME IInv, NEW k \in 1..mode.calls, InStep, disk.pos = pos,
                      disk.turns[pos.step][k].kind = "turn"
               PROVE  /\ call[k].pc \in {"todo", "saia", "cost"} =>
                           Capture[pos.step][k] = disk.turns[pos.step][k]
                      /\ call[k].pc \in {"saia", "cost"} =>
                           call[k].from = disk.turns[pos.step][k]
    BY DEF TurnsContinue
  <2>1. k \in Calls
    BY ModeType, LoopAssumption DEF IInv, Mode, Calls
  <2>2. pos.step \in Steps
    BY DEF IInv, Stepped, InStep
  <2>3. Capture[pos.step][k] = Now(pos.step, k)
    BY <2>1, <2>2, CaptureAt
  <2>4. QED
    BY <2>1, <2>3 DEF IInv, Continues
<1>2. QED
  BY <1>1, Invariant, PTL

(* A turn has used what its conversation holds, and of its cap no more than
   one iteration over for each resume, however often it is paused
   (_within_caps). *)
THEOREM CapsAreKept == Spec => []CapsHold
<1>1. IInv => CapsHold
  <2> SUFFICES ASSUME IInv PROVE CapsHold
    OBVIOUS
  <2>1. mode.cap \in Nat /\ sessions \in Nat
    BY ModeType, LoopAssumption DEF IInv, Mode, TypeOK
  <2>2. sessions - 2 \in Int /\ sessions - 1 \in Int /\ sessions - 2 <= sessions - 1
    BY <2>1
  <2>3. ASSUME NEW s \in Steps, NEW k \in Calls, NEW turn \in {live[s][k], saved[s][k], disk.turns[s][k]}
        PROVE  turn.used = turn.work /\ (mode.cap > 0 => turn.work <= mode.cap + (sessions - 1))
    <3>1. turn \in Held
      BY <2>3 DEF IInv, TypeOK, Turns
    <3>2. Within(turn, mode.cap, sessions - 1) \/ Within(turn, mode.cap, sessions - 2)
      BY <2>3 DEF IInv, Stored
    <3>3. Within(turn, mode.cap, sessions - 1)
      BY <2>1, <2>2, <3>1, <3>2, WithinMore
    <3>4. CASE turn.kind = "turn"
      BY <3>3, <3>4 DEF Within
    <3>5. CASE turn.kind # "turn"
      <4>1. turn.used = 0 /\ turn.work = 0
        BY <3>1, <3>5 DEF Held, Continued, NoTurn, EmptyTurn
      <4>2. sessions >= 1
        BY LoopAssumption DEF IInv, TypeOK
      <4>3. QED
        BY <2>1, <4>1, <4>2
    <3>6. QED
      BY <3>4, <3>5
  <2>4. QED
    BY <2>3 DEF CapsHold
<1>2. QED
  BY <1>1, Invariant, PTL

(* A step is passed with a paused result only if a cut or the Loop's own halt
   paused it; what the run's halt paused runs again (Loop._after_run). *)
THEOREM OnlyWholePass == Spec => OnlyWholeResultsPass
<1> DEFINE Pass == pos'.step = pos.step + 1 =>
             \A k \in Made : call[k].outcome = "paused" => FastForward \/ own
<1>1. IInv /\ [Next]_vars => [Pass]_vars
  <2> SUFFICES ASSUME IInv, Next, pos'.step = pos.step + 1,
                      NEW k \in Made, call[k].outcome = "paused"
               PROVE  FastForward \/ own
    BY DEF vars
  <2>1. pos.step \in Nat /\ disk.pos.step \in Nat
    BY LoopAssumption DEF IInv, TypeOK, Position
  <2>2. EndStep
    <3>1. ~Stop(disk) /\ ~Stop(Snapshot)
      BY <2>1 DEF Stop, Snapshot, IInv, Behind
    <3>2. pos' # pos /\ ~StartStep
      BY <2>1 DEF StartStep, IInv, TypeOK, Position
    <3>3. QED
      BY <3>1, <3>2 DEF Next, Advances, Chain, EnterCall, SaiaPauses, CostPaid, HookReturns,
           Iterate, SaiaEnds, CallRaises, Finish, RunRaises, HaltCommits, HaltCommitFails,
           Crash, Resume, Checkpoint, SetHalt, SetOwn, SetSignal
  <2>3. k \in Calls /\ call[k].pc = "over" /\ InStep
    BY <2>2, ModeType, LoopAssumption DEF EndStep, VerbOver, Made, IInv, Mode, Calls
  <2>4. ~(halt /\ Interrupted)
    BY <2>1, <2>2 DEF EndStep
  <2>5. QED
    BY <2>3, <2>4 DEF IInv, Pauses, Interrupted
<1>2. QED
  BY <1>1, Invariant, PTL DEF Spec, OnlyWholeResultsPass
=============================================================================
