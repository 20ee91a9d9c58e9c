------------------------------- MODULE LoopTurn -------------------------------
(***************************************************************************)
(* Paused turns.  A step of a chain makes Loop calls, one after the other  *)
(* or all at once.  A call runs a SAIA turn; a halt or a cut aborts it and *)
(* SAIA returns it paused.  The run then holds the turn at the call's path *)
(* so that checkpoints keep it, and the same call of the step's next run   *)
(* continues it.  The chain may be a region that a signal cuts short.      *)
(*                                                                         *)
(* An action is what happens between two points where the step awaits.     *)
(* Of a turn the model keeps how many iterations its conversation holds    *)
(* and how many it is said to have used of its cap.                        *)
(***************************************************************************)
EXTENDS Naturals

CONSTANTS
  Len,          \* steps of the chain
  MaxCalls,     \* Loop calls a step makes, at most
  Modes,        \* the declarations considered
  MaxWork,      \* bound: iterations of a SAIA call whose cap is 0, unlimited
  MaxSessions   \* bound: how often the run is started or resumed

(* Loop calls per step and whether they run at once; whether the Loop has a
   ConversationFactory and a halt of its own (halt=), the chain is a region;
   the cap on a turn's iterations, 0 for none. *)
Mode ==
  [calls : 1..MaxCalls, gathers : BOOLEAN, factory : BOOLEAN, own : BOOLEAN,
   region : BOOLEAN, cap : Nat]

ASSUME LoopAssumption ==
  /\ Len \in Nat \ {0} /\ MaxCalls \in Nat \ {0}
  /\ MaxWork \in Nat \ {0} /\ MaxSessions \in Nat \ {0}
  /\ Modes \subseteq Mode

VARIABLES
  mode,      \* the flow's declaration
  status,    \* "running", "stopped" (to be resumed) or "finished"
  sessions,  \* sessions begun
  halt,      \* the run's halt event
  own,       \* the Loop's own halt event
  cut,       \* the signal of the region
  pc,        \* the chain: "between" steps, in a "step", "stopping"
  pos,       \* the chain's cursor: the step, and whether it is yet to start
  call,      \* the Loop calls of the step
  live,      \* the registry: the turns held, by step and call
  saved,     \* the registry: the turns a checkout saved and nothing took
  disk       \* the newest checkpoint

events == <<halt, own, cut>>
vars == <<mode, status, sessions, events, pc, pos, call, live, saved, disk>>

Steps == 1..Len
Calls == 1..MaxCalls

(* What is held at a path: nothing, a turn that could not be captured, or a
   turn, with the iterations it holds and those counted as used. *)
NoTurn == [kind |-> "none", work |-> 0, used |-> 0]
EmptyTurn == [NoTurn EXCEPT !.kind = "empty"]
Captured(work, used) == [kind |-> "turn", work |-> work, used |-> used]
NoTurns == [s \in Steps |-> [k \in Calls |-> NoTurn]]

(* A call: the turn it continues, and what it ran. *)
ToMake == [pc |-> "todo", outcome |-> "none", from |-> NoTurn, ran |-> 0]

(* ScopeRegistry.capture: what is held comes over what nothing took. *)
Capture_Live == live                     \* variant: what nothing took is left out
Capture ==
  [s \in Steps |-> [k \in Calls |->
     IF live[s][k] # NoTurn THEN live[s][k] ELSE saved[s][k]]]
Snapshot == [pos |-> pos, turns |-> Capture, cut |-> cut]

InStep == status = "running" /\ pc = "step"

-----------------------------------------------------------------------------
(***************************************************************************)
(* One Loop call (Loop.__call__).                                          *)
(***************************************************************************)
At(k, place) == InStep /\ k <= mode.calls /\ call[k].pc = place
Goes(k, place) == call' = [call EXCEPT ![k].pc = place]

(* The verb's next call: the calls before it have started, or have returned
   if the verb awaits them one by one. *)
Turn(k) ==
  \A j \in 1..(k - 1) : IF mode.gathers THEN call[j].pc # "todo"
                        ELSE call[j].pc = "over" /\ call[j].outcome # "raised"

FastForward == mode.region /\ cut

(* take_cursor hands a saved turn out once.  A call that fast-forwards
   returns the result its turn was paused with (finish); else a captured
   turn is taken and held again, and one that was not starts over. *)
Taken(found) == IF found.kind = "turn" THEN found ELSE NoTurn

EnterCall(k) ==
  /\ At(k, "todo") /\ Turn(k)
  /\ LET found == saved[pos.step][k] IN
       /\ saved' = [saved EXCEPT ![pos.step][k] = NoTurn]
       /\ IF FastForward /\ found # NoTurn
            THEN /\ call' = [call EXCEPT ![k].pc = "over", ![k].outcome = "paused"]
                 /\ UNCHANGED live
            ELSE /\ call' = [call EXCEPT ![k].pc = "saia", ![k].from = Taken(found)]
                 /\ live' = [live EXCEPT ![pos.step][k] = Taken(found)]
  /\ UNCHANGED <<mode, status, sessions, events, pc, pos, disk>>

(* SAIA, as the Loop uses it.  It counts a call's iterations from zero, so a
   resumed call's cap is lowered by what the turn used; 0 would be no cap. *)
Lowered_NoFloor(cap, used) == IF used > cap THEN 0 ELSE cap - used  \* variant: may be 0
Lowered(cap, used) == IF used >= cap THEN 1 ELSE cap - used

Allowed(k) ==
  LET cap == IF mode.cap = 0 THEN 0 ELSE Lowered(mode.cap, call[k].from.used)
  IN IF cap = 0 THEN MaxWork ELSE cap

Iterate(k) ==
  /\ At(k, "saia") /\ call[k].ran < Allowed(k)
  /\ call' = [call EXCEPT ![k].ran = @ + 1]
  /\ UNCHANGED <<mode, status, sessions, events, pc, pos, live, saved, disk>>

(* The Loop's own halt wins; else the run's halt or the region's signal
   (turn_abort).  SAIA looks at moments of its own: that an event follows
   another a little later makes no difference. *)
Aborted_OneSource == IF mode.own THEN own ELSE IF mode.region THEN cut ELSE halt
                                         \* variant: the first source alone
Aborted == IF mode.own THEN own ELSE halt \/ FastForward

Returns(k, outcome) == call' = [call EXCEPT ![k].pc = "cost", ![k].outcome = outcome]

SaiaPauses(k) ==
  /\ At(k, "saia") /\ Aborted
  /\ Returns(k, "paused")
  /\ UNCHANGED <<mode, status, sessions, events, pc, pos, live, saved, disk>>

SaiaEnds(k) ==
  /\ At(k, "saia") /\ call[k].ran > 0
  /\ Returns(k, "done")
  /\ UNCHANGED <<mode, status, sessions, events, pc, pos, live, saved, disk>>

(* SAIA or a hook raises.  What the call holds stays held. *)
CallRaises(k) ==
  /\ \E place \in {"saia", "cost", "hook"} : At(k, place)
  /\ call' = [call EXCEPT ![k].pc = "over", ![k].outcome = "raised"]
  /\ UNCHANGED <<mode, status, sessions, events, pc, pos, live, saved, disk>>

(* After on_cost (_after_run): a turn that a cut paused is done, and one the
   run's halt paused is not. *)
CutShort_Always == TRUE                  \* variant: every paused turn is released
CutShort == FastForward /\ ~halt

Paused(k) ==
  IF mode.factory THEN Captured(call[k].from.work + call[k].ran, call[k].from.used + call[k].ran)
  ELSE EmptyTurn

CostPaid(k) ==
  /\ At(k, "cost")
  /\ live' = [live EXCEPT ![pos.step][k] =
                IF call[k].outcome = "paused" /\ ~CutShort THEN Paused(k) ELSE NoTurn]
  /\ Goes(k, "hook")
  /\ UNCHANGED <<mode, status, sessions, events, pc, pos, saved, disk>>

(* on_paused or on_complete. *)
HookReturns(k) ==
  /\ At(k, "hook")
  /\ Goes(k, "over")
  /\ UNCHANGED <<mode, status, sessions, events, pc, pos, live, saved, disk>>

-----------------------------------------------------------------------------
(***************************************************************************)
(* The chain around the calls (Chain._walk_steps, _step).                  *)
(***************************************************************************)
(* A chain that fast-forwards starts no step, but runs again the one a
   checkout saved as running. *)
StartsStep == pos.step <= Len /\ (FastForward => ~pos.pending)

StartStep ==
  /\ status = "running" /\ pc = "between" /\ StartsStep
  /\ pc' = "step" /\ pos' = [pos EXCEPT !.pending = FALSE]
  /\ call' = [k \in Calls |-> ToMake]
  /\ UNCHANGED <<mode, status, sessions, events, live, saved, disk>>

(* The run returns; what nothing took is dropped (drop_saved). *)
Finish ==
  /\ status = "running" /\ pc = "between" /\ ~StartsStep
  /\ status' = "finished" /\ saved' = NoTurns
  /\ UNCHANGED <<mode, sessions, events, pc, pos, call, live, disk>>

(* The verb may return when it made its calls, or after one that did not run
   to its end. *)
Made == {k \in 1..mode.calls : call[k].pc # "todo"}
Raised == \E k \in Made : call[k].outcome = "raised"
VerbOver ==
  /\ InStep
  /\ \A k \in Made : call[k].pc = "over"
  /\ (\A k \in 1..mode.calls : k \in Made) \/ (\E k \in Made : call[k].outcome # "done")

(* A Loop call in the step left a paused turn (holds_under). *)
Interrupted == \E k \in Calls : live[pos.step][k] # NoTurn

Closed_Not(turns) == turns               \* variant: the turns stay registered
Closed(turns) == [turns EXCEPT ![pos.step] = NoTurns[pos.step]]

Past(p) == [step |-> p.step + 1, pending |-> TRUE]

(* The verb returned, or its rescue did.  An interrupted step keeps the
   cursor; a completed last one ends the chain (_halted_after).  What is
   left under a step the chain passes is closed (close_under). *)
EndStep ==
  /\ VerbOver
  /\ IF halt /\ Interrupted
       THEN pc' = "stopping" /\ UNCHANGED <<pos, live>>
       ELSE /\ pos' = Past(pos)
            /\ IF halt /\ pos.step < Len
                 THEN pc' = "stopping" /\ UNCHANGED live
                 ELSE pc' = "between" /\ live' = Closed(live)
  /\ UNCHANGED <<mode, status, sessions, events, call, saved, disk>>

-----------------------------------------------------------------------------
(***************************************************************************)
(* What stops a session, and how the next one starts.                      *)
(***************************************************************************)
Stop(d) ==
  /\ status' = "stopped"
  /\ halt' = FALSE /\ own' = FALSE /\ cut' = d.cut
  /\ pc' = "between" /\ pos' = d.pos
  /\ call' = [k \in Calls |-> ToMake]
  /\ live' = NoTurns /\ saved' = d.turns
  /\ disk' = d
  /\ UNCHANGED <<mode, sessions>>

(* No rescue, or it raised: the run raises and writes nothing. *)
RunRaises == VerbOver /\ Raised /\ Stop(disk)

HaltCommits == status = "running" /\ pc = "stopping" /\ Stop(Snapshot)
HaltCommitFails == status = "running" /\ pc = "stopping" /\ Stop(disk)

Crash == InStep /\ Stop(disk)

Resume ==
  /\ status = "stopped" /\ sessions < MaxSessions
  /\ status' = "running" /\ sessions' = sessions + 1
  /\ UNCHANGED <<mode, events, pc, pos, call, live, saved, disk>>

(* ctx.checkpoint() of the verb or of a hook. *)
Checkpoint ==
  /\ InStep
  /\ disk' = Snapshot
  /\ UNCHANGED <<mode, status, sessions, events, pc, pos, call, live, saved>>

SetHalt ==
  /\ InStep /\ ~halt /\ halt' = TRUE
  /\ UNCHANGED <<mode, status, sessions, own, cut, pc, pos, call, live, saved, disk>>

SetOwn ==
  /\ InStep /\ mode.own /\ ~own /\ own' = TRUE
  /\ UNCHANGED <<mode, status, sessions, halt, cut, pc, pos, call, live, saved, disk>>

SetSignal ==
  /\ InStep /\ mode.region /\ ~cut /\ cut' = TRUE
  /\ UNCHANGED <<mode, status, sessions, halt, own, pc, pos, call, live, saved, disk>>

AtStart == [step |-> 1, pending |-> TRUE]

Init ==
  /\ mode \in Modes
  /\ status = "running" /\ sessions = 1
  /\ halt = FALSE /\ own = FALSE /\ cut = FALSE
  /\ pc = "between" /\ pos = AtStart
  /\ call = [k \in Calls |-> ToMake]
  /\ live = NoTurns /\ saved = NoTurns
  /\ disk = [pos |-> AtStart, turns |-> NoTurns, cut |-> FALSE]

Advances(k) == EnterCall(k) \/ SaiaPauses(k) \/ CostPaid(k) \/ HookReturns(k)
Chain == StartStep \/ Finish \/ EndStep \/ HaltCommits

Next ==
  \/ \E k \in Calls : Advances(k) \/ Iterate(k) \/ SaiaEnds(k) \/ CallRaises(k)
  \/ Chain \/ RunRaises \/ HaltCommitFails \/ Crash \/ Resume
  \/ Checkpoint \/ SetHalt \/ SetOwn \/ SetSignal

Spec == Init /\ [][Next]_vars

(* What the process does by itself when nothing intervenes.  That SAIA ends a
   turn nobody aborts, or raises, is not assumed. *)
FairSpec == Spec /\ WF_vars(Chain) /\ \A k \in Calls : WF_vars(Advances(k))

-----------------------------------------------------------------------------
(***************************************************************************)
(* Properties.                                                             *)
(***************************************************************************)
Continued == {NoTurn} \cup [kind : {"turn"}, work : Nat, used : Nat]
Held == Continued \cup {EmptyTurn}
Turns == [Steps -> [Calls -> Held]]
Call ==
  [pc : {"todo", "saia", "cost", "hook", "over"},
   outcome : {"none", "done", "paused", "raised"}, from : Continued, ran : Nat]
Position == [step : 1..(Len + 1), pending : BOOLEAN]

TypeOK ==
  /\ mode \in Modes
  /\ status \in {"running", "stopped", "finished"} /\ sessions \in 1..MaxSessions
  /\ halt \in BOOLEAN /\ own \in BOOLEAN /\ cut \in BOOLEAN
  /\ pc \in {"between", "step", "stopping"} /\ pos \in Position
  /\ call \in [Calls -> Call]
  /\ live \in Turns /\ saved \in Turns
  /\ disk \in [pos : Position, turns : Turns, cut : BOOLEAN]

(* While its call has not returned again, a turn that the newest checkpoint
   captured is neither restarted nor out of reach: the call, once it runs,
   continues exactly it, and any checkpoint taken meanwhile, early in the
   resumed run or while it resumes, holds it (Loop._consume_saved_turn:
   "a checkpoint taken while it resumes keeps it"). *)
TurnsContinue ==
  \A k \in 1..mode.calls :
    LET turn == disk.turns[pos.step][k] IN
    InStep /\ disk.pos = pos /\ turn.kind = "turn" =>
      /\ call[k].pc \in {"todo", "saia", "cost"} => Capture[pos.step][k] = turn
      /\ call[k].pc \in {"saia", "cost"} => call[k].from = turn

(* A step is passed with a paused result only if a cut or the Loop's own halt
   paused it: what the run's halt paused is held, its step runs again, and
   no later step gets a half-done result (Loop._after_run, Chain._run_step). *)
OnlyWholeResultsPass ==
  [][pos'.step = pos.step + 1 =>
       \A k \in Made : call[k].outcome = "paused" => FastForward \/ own]_vars

(* Turns are held under the step that runs or was interrupted, and nowhere
   else: "belongs to no later snapshot" (Chain._step). *)
HeldUnderTheStep ==
  \A s \in Steps, k \in Calls : live[s][k] # NoTurn =>
    status = "running" /\ s = pos.step /\ ~pos.pending

(* Over all the sessions that ran it, a turn has used what its conversation
   holds, and no more than its cap and one iteration for each time it was
   resumed ("a turn that used its whole budget gets one more", _within_caps). *)
CapsHold ==
  \A turns \in {live, saved, disk.turns} : \A s \in Steps, k \in Calls :
    LET turn == turns[s][k] IN
    /\ turn.used = turn.work
    /\ mode.cap > 0 => turn.work <= mode.cap + (sessions - 1)

(* A halt stops a session, whatever its turns do, unless a Loop has a halt of
   its own, which must then be set as well. *)
HaltEnds == (halt /\ (mode.own => own)) ~> (status # "running")
=============================================================================
