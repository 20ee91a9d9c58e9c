------------------------------- MODULE FlowWalk -------------------------------
(***************************************************************************)
(* The walk of one checkpointed flow: a chain of steps, one of them an     *)
(* .iterate over a chain of its own, which may hold a .branch; the flow is *)
(* a region that a signal cuts short.  The run keeps a cursor per chain,   *)
(* iterate and branch; a checkpoint holds the cursors, the iterate's scope *)
(* and the root state; a run that is halted, raises or dies is resumed     *)
(* from the newest checkpoint.                                             *)
(*                                                                         *)
(* One action is what the walk does between two points where it may        *)
(* suspend, or a part of that: the environment acts only where the walk    *)
(* awaits (Awaits).  The work of a step is its name, appended to the state *)
(* it runs under and to the value it hands on, so the two can be compared. *)
(***************************************************************************)
EXTENDS Naturals, Sequences

CONSTANTS
  TopLen, IterAt, BodyLen, BranchAt, ArmLen,  \* the program: see LinearRun
  MaxIters,                   \* max_iters= of the iterate
  Plans,                      \* the declarations considered
  None,
  MaxSessions                 \* bound: how often the run is started or resumed

VARIABLES
  plan,      \* the flow's declaration
  status,    \* "running", "stopped" (to be resumed) or "finished"
  sessions,  \* sessions begun
  halt,      \* the run's halt event
  cut,       \* the signal of the flow's region
  pc,        \* where the walk is
  live,      \* the registry: the cursors and the scope of what runs
  kept,      \* the registry: what a checkout saved and nothing took
  root,      \* the root scope: the steps whose work it holds
  disk       \* the newest checkpoint

runVars == <<plan, status, sessions, halt, cut>>
vars == <<runVars, pc, live, kept, root, disk>>

Promise == INSTANCE LinearRun WITH
  trail <- <<>>, admitted <- None, saved <- None, over <- FALSE

ASSUME ProgramAssumption ==
  /\ TopLen \in Nat /\ IterAt \in 1..TopLen /\ BodyLen \in Nat \ {0}
  /\ BranchAt \in {0} \cup 2..BodyLen /\ ArmLen \in Nat \ {0}
  /\ MaxIters \in Nat \ {0} /\ MaxSessions \in Nat \ {0}

Length == [top |-> TopLen, body |-> BodyLen, arm |-> ArmLen]

(* A chain's cursor: step i with its input val.  "next" is a step the chain
   has not started (pending); "running" one it has.  pass is the pass whose
   path the chain is at.  An iterate's: the pass, the value carried into it
   and until's verdict on that value.  A branch's: the arm it took. *)
First(input, pass) == [i |-> 1, val |-> input, mark |-> "next", pass |-> pass]
Started(input) == [pass |-> 0, carry |-> input, done |-> "no"]
Nothing == [top |-> None, iter |-> None, body |-> None, scope |-> None,
            branch |-> None, arm |-> None]
Parts == DOMAIN Nothing

(* ScopeRegistry.capture: what nothing took stays as saved, what is live
   comes on top. *)
Capture(part) == IF live[part] # None THEN live[part] ELSE kept[part]
Snapshot == [parts |-> [p \in Parts |-> Capture(p)], root |-> root, cut |-> cut]

Awaits == {"verb", "when", "until", "recheck", "saving", "rescue"}
At(place) == status = "running" /\ pc = place
Goes(place) == pc' = place

(* The chain that walks, and the step it is at. *)
Walking == IF live.arm # None THEN "arm" ELSE IF live.body # None THEN "body" ELSE "top"
ArmStep(reg) == <<IterAt, reg.arm.pass, BranchAt,
                  IF reg.branch.taken = "then" THEN reg.arm.i ELSE ArmLen + reg.arm.i>>
Step == CASE Walking = "top"  -> <<live.top.i, 0, 0, 0>>
          [] Walking = "body" -> <<IterAt, live.body.pass, live.body.i, 0>>
          [] Walking = "arm"  -> ArmStep(live)

-----------------------------------------------------------------------------
(***************************************************************************)
(* A chain (Chain._walk_steps).                                            *)
(***************************************************************************)
(* A chain that fast-forwards starts conclude steps only; the step that a
   checkout saved as running runs again. *)
Runs(l) == live[l].mark = "running" \/ live[l].i \in plan.conclude[l] \/ ~cut

StartStep ==
  /\ At("chain") /\ live[Walking].i <= Length[Walking] /\ Runs(Walking)
  /\ live' = [live EXCEPT ![Walking].mark = "running"]
  /\ Goes(CASE Walking = "top" /\ live.top.i = IterAt -> "enter"
            [] Walking = "body" /\ live.body.i = BranchAt -> "choose"
            [] OTHER -> "verb")
  /\ UNCHANGED <<runVars, kept, root, disk>>

PastSkipped_Same(i) == i                 \* variant: the index is not moved
PastSkipped(i) == i + 1

SkipStep ==
  /\ At("chain") /\ live[Walking].i <= Length[Walking] /\ ~Runs(Walking)
  /\ live' = [live EXCEPT ![Walking].i = PastSkipped(@)]
  /\ UNCHANGED <<runVars, pc, kept, root, disk>>

(* What is left registered under a step the chain moves past (close_under). *)
ClosedUnder(l, reg) ==
  [part \in Parts |->
     IF (l = "top" /\ part # "top") \/ (l = "body" /\ part \in {"branch", "arm"})
       THEN None ELSE reg[part]]

(* After a completed step the cursor is at the next one, with its input. *)
Moved_Input(c, result) ==                \* variant: with the old input
  [c EXCEPT !.i = @ + 1, !.mark = "next"]
Moved(c, result) == [c EXCEPT !.i = @ + 1, !.val = result, !.mark = "next"]

(* _halted_after: the halt stops the chain past the step, but a chain whose
   last step completed returns. *)
Completes(l, reg, result) ==
  LET c == Moved(reg[l], result) IN
  IF halt /\ reg[l].i < Length[l]
    THEN live' = [reg EXCEPT ![l] = c] /\ Goes("interrupted")
    ELSE live' = [ClosedUnder(l, reg) EXCEPT ![l] = c] /\ Goes("chain")

VerbReturns ==
  /\ At("verb")
  /\ LET l == Walking
         scoped == l # "top" /\ plan.scoped
     IN /\ root' = IF scoped THEN root ELSE Append(root, Step)
        /\ Completes(l, IF scoped THEN [live EXCEPT !.scope = Append(@, Step)] ELSE live,
                     Append(live[l].val, Step))
  /\ UNCHANGED <<runVars, kept, disk>>

(* It raised Interrupted: the cursors stay where they are. *)
VerbStops ==
  /\ At("verb") /\ halt
  /\ Goes("interrupted")
  /\ UNCHANGED <<runVars, live, kept, root, disk>>

-----------------------------------------------------------------------------
(***************************************************************************)
(* The branch (_run_branch).                                               *)
(***************************************************************************)
(* An arm a checkout saved is taken as is; else when is asked. *)
SavedArm_Asked == FALSE                  \* variant: when is asked again
SavedArm == kept.branch # None /\ kept.branch.pass = live.body.pass

TakeArm ==
  /\ At("choose")
  /\ IF SavedArm
       THEN /\ live' = [live EXCEPT !.branch = kept.branch, !.arm = kept.arm]
            /\ kept' = [kept EXCEPT !.branch = None, !.arm = None]
            /\ Goes("chain")
       ELSE Goes("when") /\ UNCHANGED <<live, kept>>
  /\ UNCHANGED <<runVars, root, disk>>

Branch(taken) == [taken |-> taken, pass |-> live.body.pass]

Chooses(taken) ==
  /\ At("when")
  /\ taken = "then" \/ plan.orelse
  /\ live' = [live EXCEPT !.branch = Branch(taken), !.arm = First(live.body.val, live.body.pass)]
  /\ Goes("chain")
  /\ UNCHANGED <<runVars, kept, root, disk>>

(* Without an else arm the input passes through. *)
ChoosesNone ==
  /\ At("when") /\ ~plan.orelse
  /\ Completes("body", live, live.body.val)
  /\ UNCHANGED <<runVars, kept, root, disk>>

EndArm ==
  /\ At("chain") /\ Walking = "arm" /\ live.arm.i > ArmLen
  /\ Completes("body", [live EXCEPT !.branch = None, !.arm = None], live.arm.val)
  /\ UNCHANGED <<runVars, kept, root, disk>>

-----------------------------------------------------------------------------
(***************************************************************************)
(* The iterate (IterateRunner).                                            *)
(***************************************************************************)
(* It continues at the pass, value and verdict a checkout saved. *)
AfterVerdict(done, head) == IF done = "yes" THEN "merge" ELSE head

EnterIterate ==
  /\ At("enter")
  /\ LET iter == IF kept.iter # None THEN kept.iter ELSE Started(live.top.val)
         scope == IF ~plan.scoped THEN None ELSE IF kept.scope # None THEN kept.scope ELSE <<>>
     IN /\ live' = [live EXCEPT !.iter = iter, !.scope = scope]
        /\ Goes(IF iter.done = "unknown" THEN "recheck" ELSE AfterVerdict(iter.done, "loop"))
  /\ kept' = [kept EXCEPT !.iter = None, !.scope = None]
  /\ UNCHANGED <<runVars, root, disk>>

(* A pass a checkout saved as running is taken up again. *)
SavedPass == kept.body # None /\ kept.body.pass = live.iter.pass
ShortcutEnds == cut /\ ~SavedPass

Bounded == live.iter.pass >= MaxIters

(* The head of the loop, at its start and after a pass of this session. *)
AtHead == At("loop") \/ At("again")

(* max_iters, then the deadline, then the halt, then the shortcut.  The
   clock starts with the session's loop: no deadline passes before a pass. *)
LoopEnds ==
  /\ AtHead
  /\ Bounded \/ (plan.deadline /\ pc = "again") \/ (~halt /\ ShortcutEnds)
  /\ Goes("merge")
  /\ UNCHANGED <<runVars, live, kept, root, disk>>

HaltStops_Not == FALSE       \* variant: the loop does not look at the halt
HaltStops == halt

LoopStops ==
  /\ AtHead /\ ~Bounded /\ HaltStops
  /\ Goes("interrupted")
  /\ UNCHANGED <<runVars, live, kept, root, disk>>

StartPass ==
  /\ AtHead /\ ~Bounded /\ ~HaltStops /\ ~ShortcutEnds
  /\ live' = [live EXCEPT !.body = IF SavedPass THEN kept.body
                                   ELSE First(live.iter.carry, live.iter.pass)]
  /\ kept' = [kept EXCEPT !.body = IF SavedPass THEN None ELSE @]
  /\ Goes("chain")
  /\ UNCHANGED <<runVars, root, disk>>

(* Pass, value and open verdict change together. *)
NextPass(c, result) == [pass |-> c.pass + 1, carry |-> result, done |-> "unknown"]

EndPass ==
  /\ At("chain") /\ Walking = "body" /\ live.body.i > BodyLen
  /\ live' = [live EXCEPT !.body = None, !.iter = NextPass(@, live.body.val)]
  /\ Goes("until")
  /\ UNCHANGED <<runVars, kept, root, disk>>

Verdict == IF live.iter.pass >= plan.stop THEN "yes" ELSE "no"

Until ==
  /\ At("until")
  /\ live' = [live EXCEPT !.iter.done = Verdict]
  /\ Goes(IF plan.policy THEN "saving" ELSE AfterVerdict(Verdict, "again"))
  /\ UNCHANGED <<runVars, kept, root, disk>>

(* The verdict that was open in the checkpoint; nothing is saved after it. *)
Recheck ==
  /\ At("recheck")
  /\ live' = [live EXCEPT !.iter.done = Verdict]
  /\ Goes(AfterVerdict(Verdict, "loop"))
  /\ UNCHANGED <<runVars, kept, root, disk>>

SaveReturns ==
  /\ At("saving")
  /\ disk' = Snapshot
  /\ Goes(AfterVerdict(live.iter.done, "again"))
  /\ UNCHANGED <<runVars, live, kept, root>>

(* The iterate's scope goes into the root's, and the iterate's step ends. *)
Merge ==
  /\ At("merge")
  /\ root' = IF plan.scoped THEN root \o live.scope ELSE root
  /\ Completes("top", [live EXCEPT !.iter = None, !.scope = None], live.iter.carry)
  /\ UNCHANGED <<runVars, kept, disk>>

-----------------------------------------------------------------------------
(***************************************************************************)
(* What stops a session, and how the next one starts.                      *)
(***************************************************************************)
(* The process keeps nothing: what comes next comes from the checkpoint d. *)
Stop(d) ==
  /\ status' = "stopped" /\ halt' = FALSE /\ cut' = d.cut
  /\ Goes("chain")
  /\ live' = Nothing /\ kept' = d.parts /\ root' = d.root
  /\ disk' = d
  /\ UNCHANGED <<plan, sessions>>

Fails(d) ==
  IF live.iter # None /\ plan.rescue
    THEN Goes("rescue") /\ disk' = d /\ UNCHANGED <<runVars, live, kept, root>>
    ELSE Stop(d)

(* A verb, when, until, the merge or the policy save raised: the rescue of the
   iterate's step is asked, or the run raises and writes nothing. *)
Raises ==
  /\ status = "running"
  /\ pc \in {"verb", "when", "until", "recheck", "saving"} \/ (pc = "merge" /\ plan.scoped)
  /\ Fails(disk)

(* The save raised, but its commit is written. *)
SaveUnacknowledged == At("saving") /\ Fails(Snapshot)

(* What the iterate left registered is still there while its rescue runs;
   the rescue's result is the step's. *)
RescueReturns ==
  /\ At("rescue")
  /\ root' = Append(root, Promise!Rescue)
  /\ Completes("top", live, root')
  /\ UNCHANGED <<runVars, kept, disk>>

RescueRaises == At("rescue") /\ Stop(disk)

(* Everything stopped where it stood: the halt checkpoint, or its failure. *)
HaltCommits == At("interrupted") /\ Stop(Snapshot)
HaltCommitFails == At("interrupted") /\ Stop(disk)

TopEnds == At("chain") /\ Walking = "top" /\ live.top.i > TopLen

Finish ==
  /\ TopEnds
  /\ status' = "finished"
  /\ UNCHANGED <<plan, sessions, halt, cut, pc, live, kept, root, disk>>

CompletionFails == TopEnds /\ Stop(disk)

Crash == status = "running" /\ pc \in Awaits /\ Stop(disk)

Resume ==
  /\ status = "stopped" /\ sessions < MaxSessions
  /\ status' = "running" /\ sessions' = sessions + 1
  /\ live' = [Nothing EXCEPT !.top = kept.top]
  /\ kept' = [kept EXCEPT !.top = None]
  /\ UNCHANGED <<plan, halt, cut, pc, root, disk>>

(* ctx.checkpoint() of a verb, when, until or a rescue. *)
Checkpoint ==
  /\ status = "running" /\ pc \in Awaits \ {"saving"}
  /\ disk' = Snapshot
  /\ UNCHANGED <<runVars, pc, live, kept, root>>

SetHalt ==
  /\ status = "running" /\ pc \in Awaits /\ ~halt
  /\ halt' = TRUE
  /\ UNCHANGED <<plan, status, sessions, cut, pc, live, kept, root, disk>>

SetSignal ==
  /\ ~cut /\ (status = "running" => pc \in Awaits) /\ status # "finished"
  /\ cut' = TRUE
  /\ UNCHANGED <<plan, status, sessions, halt, pc, live, kept, root, disk>>

Fresh == [parts |-> [Nothing EXCEPT !.top = First(<<>>, 0)], root |-> <<>>, cut |-> FALSE]

Init ==
  /\ plan \in Plans
  /\ status = "running" /\ sessions = 1 /\ halt = FALSE /\ cut = FALSE
  /\ pc = "chain" /\ live = Fresh.parts /\ kept = Nothing
  /\ root = <<>> /\ disk = Fresh

Walk ==
  \/ StartStep \/ SkipStep \/ VerbReturns \/ VerbStops
  \/ TakeArm \/ Chooses("then") \/ Chooses("else") \/ ChoosesNone \/ EndArm
  \/ EnterIterate \/ LoopEnds \/ LoopStops \/ StartPass \/ EndPass
  \/ Until \/ Recheck \/ SaveReturns \/ Merge
  \/ Raises \/ SaveUnacknowledged \/ RescueReturns \/ RescueRaises
  \/ HaltCommits \/ HaltCommitFails \/ Finish \/ CompletionFails

Next == Walk \/ Crash \/ Resume \/ Checkpoint \/ SetHalt \/ SetSignal

Spec == Init /\ [][Next]_vars
FairSpec == Spec /\ WF_vars(Walk)

-----------------------------------------------------------------------------
(***************************************************************************)
(* Properties.                                                             *)
(***************************************************************************)
(* Reading a checkpoint, or the run as a checkpoint would see it. *)
InIterate(d) == d.parts.top.i = IterAt /\ d.parts.top.mark = "running"
InPass(d) ==
  LET iter == d.parts.iter  body == d.parts.body IN
  iter # None /\ body # None /\ body.pass = iter.pass

(* The steps whose work the state holds. *)
Trail(d) == IF InIterate(d) /\ d.parts.scope # None THEN d.root \o d.parts.scope ELSE d.root

InArm(d) == InPass(d) /\ d.parts.arm # None /\ d.parts.arm.pass = d.parts.body.pass

(* The verb it has started, and the value the walk goes on with. *)
Running(d) ==
  LET top == d.parts.top  body == d.parts.body IN
  IF top.mark # "running" THEN None
  ELSE IF top.i # IterAt THEN <<top.i, 0, 0, 0>>
  ELSE IF ~InPass(d) \/ body.mark # "running" THEN None
  ELSE IF body.i # BranchAt THEN <<IterAt, body.pass, body.i, 0>>
  ELSE IF InArm(d) /\ d.parts.arm.mark = "running" THEN ArmStep(d.parts) ELSE None

Input(d) ==
  IF ~InIterate(d) THEN d.parts.top.val
  ELSE IF InArm(d) THEN d.parts.arm.val
  ELSE IF InPass(d) THEN d.parts.body.val
  ELSE IF d.parts.iter # None THEN d.parts.iter.carry
  ELSE d.parts.top.val

Saved(d) == [trail |-> Trail(d), admitted |-> Running(d), cut |-> d.cut]
Linear == INSTANCE LinearRun WITH
  trail <- Trail(Snapshot), admitted <- Running(Snapshot), saved <- Saved(disk),
  over <- status = "finished"

ChainCursor(l) ==
  [i : 1..(Length[l] + 1), val : Seq(Promise!Steps), mark : {"next", "running"},
   pass : 0..MaxIters]
IterCursor == [pass : 0..MaxIters, carry : Seq(Promise!Steps), done : {"no", "yes", "unknown"}]
BranchCursor == [taken : {"then", "else"}, pass : 0..MaxIters]
Registry ==
  [top : ChainCursor("top") \cup {None}, iter : IterCursor \cup {None},
   body : ChainCursor("body") \cup {None}, scope : Seq(Promise!Steps) \cup {None},
   branch : BranchCursor \cup {None}, arm : ChainCursor("arm") \cup {None}]

ASSUME WalkAssumption ==
  /\ Plans \subseteq Promise!Plan
  /\ None \notin ChainCursor("top") \cup ChainCursor("body") \cup ChainCursor("arm")
  /\ None \notin IterCursor \cup BranchCursor \cup Seq(Promise!Steps) \cup Promise!Steps

TypeOK ==
  /\ plan \in Plans
  /\ status \in {"running", "stopped", "finished"} /\ sessions \in 1..MaxSessions
  /\ halt \in BOOLEAN /\ cut \in BOOLEAN
  /\ pc \in {"chain", "enter", "choose", "loop", "again", "merge", "interrupted"} \cup Awaits
  /\ live \in Registry /\ kept \in Registry
  /\ root \in Seq(Promise!Steps)
  /\ disk \in [parts : Registry, root : Seq(Promise!Steps), cut : BOOLEAN]

(* Over any halts, crashes and resumes the run is one walk through the
   program: "completed passes do not run again", "only the step running at
   the checkpoint runs again", no step is left out or done twice, a cut
   admits nothing but conclude steps, and what is lost is what came after
   the newest checkpoint (Chain, IterateRunner). *)
RunIsLinear == Linear!Spec

(* In every checkpoint, and in the run at any time, the value the walk goes
   on with comes from exactly the steps whose work the state holds: cursors
   and scopes are of one moment (ScopeRegistry.capture). *)
StateMatchesCursor == \A d \in {disk, Snapshot} : Input(d) = Trail(d)

(* "A halt stops the run at the next place the framework looks": once it is
   set, a step that runs may end, and no other starts, but for the first of
   an arm whose branch was still being decided (_halt_observer). *)
HaltStartsNothing ==
  [][(halt /\ pc # "verb" /\ pc' = "verb") =>
       Walking = "arm" /\ live.arm = First(live.body.val, live.body.pass)]_vars

(* A session ends: no cursor a checkpoint can hold keeps the walk going
   round in the iterate, or waiting (IterateRunner._loop). *)
SessionEnds == status = "running" ~> status # "running"
=============================================================================
