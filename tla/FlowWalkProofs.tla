----------------------------- MODULE FlowWalkProofs -----------------------------
(***************************************************************************)
(* Proofs about FlowWalk, for any program, declarations and number of      *)
(* sessions: the types, that state and cursor agree in every checkpoint,   *)
(* that a halt starts nothing, and that FlowWalk implements LinearRun.     *)
(*                                                                         *)
(* That state and cursor agree is not inductive.  Inv says more of two     *)
(* things: a checkpoint (Good), and the registries of a running walk where *)
(* it is (Held).  A checkpoint may hold the cursors of a pass or an arm    *)
(* that is over; Good says which are over (their pass) and that the others *)
(* are of one moment.  Held says the same of what a checkout saved and     *)
(* nothing took yet, next to what is live.  A step of the walk is proved   *)
(* over PassFacts or LoopFacts, which are Good(Snapshot) and Held for a    *)
(* walk inside a pass and between two passes.                              *)
(*                                                                         *)
(* The implementation needs more: that what the cursors let the walk do    *)
(* next is what LinearRun allows after the trail, of every checkpoint and  *)
(* of the run (Sound), and where the walk stands on that (Turn).  Path     *)
(* holds both; a step of the walk proper moves the run by one step of      *)
(* LinearRun or none (Leads), and the rest stops it at a checkpoint,       *)
(* writes one, or gives the iterate up.                                    *)
(***************************************************************************)
EXTENDS FlowWalk, TLAPS

(* What is registered under a top chain that is in no iterate: nothing. *)
Bare(reg) ==
  reg.iter = None /\ reg.body = None /\ reg.scope = None /\ reg.branch = None /\ reg.arm = None

Before(p) == p.top.i < IterAt \/ (p.top.i = IterAt /\ p.top.mark = "next")
Inside(p) == p.top.i = IterAt /\ p.top.mark = "running"
Branching(body) == body.i = BranchAt /\ body.mark = "running"
Paired(reg) ==
  /\ reg.branch = None <=> reg.arm = None
  /\ reg.arm # None => reg.branch.pass = reg.arm.pass

(* The cursors of one iterate: a body's is of the pass under way, which no
   verdict is open on, or of one that is over; an arm's is of the body's
   pass, whose branch then runs, or of one that is over. *)
Fits(p) ==
  /\ p.scope # None <=> plan.scoped
  /\ p.body # None =>
       /\ p.body.pass <= p.iter.pass
       /\ p.body.pass = p.iter.pass => p.iter.done = "no" /\ p.iter.pass < MaxIters
  /\ p.arm # None /\ p.arm.pass >= p.iter.pass =>
       /\ p.body # None /\ p.arm.pass = p.iter.pass /\ p.body.pass = p.iter.pass
       /\ Branching(p.body)

Shape(p) ==
  /\ p.top # None
  /\ Paired(p)
  /\ Before(p) => Bare(p)
  /\ Inside(p) => IF p.iter = None THEN Bare(p) ELSE Fits(p)

Good(d) == Shape(d.parts) /\ Input(d) = Trail(d)

(* Where the walk is, and what is live there. *)
InLoop == Inside(live) /\ live.iter # None /\ live.body = None /\ live.arm = None
PassDone == kept.body # None => kept.body.pass < live.iter.pass
InBody ==
  /\ Inside(live) /\ live.iter # None /\ live.body # None
  /\ live.body.pass = live.iter.pass
  /\ live.arm # None => live.arm.pass = live.iter.pass /\ Branching(live.body)

InVerb ==
  /\ live[Walking].mark = "running" /\ live[Walking].i <= Length[Walking]
  /\ \/ Bare(live) /\ live.top.i # IterAt
     \/ InBody /\ (live.arm = None => live.body.i # BranchAt)
InBranch == InBody /\ live.arm = None /\ Branching(live.body)

Control ==
  /\ pc = "chain" => Bare(live) \/ InBody
  /\ pc = "verb" => InVerb
  /\ pc = "enter" => Bare(live) /\ Inside(live)
  /\ pc \in {"choose", "when"} => InBranch
  /\ pc = "when" => ~SavedArm
  /\ pc \in {"loop", "again", "until", "recheck", "saving", "merge"} => InLoop
  /\ pc \in {"again", "until", "recheck", "saving", "merge"} => PassDone
  /\ pc \in {"loop", "again"} => live.iter.done = "no"
  /\ pc = "saving" => live.iter.done # "unknown"
  /\ pc = "rescue" => Inside(live) /\ live.iter # None

(* What a checkout saved of a pass or an arm is taken once. *)
Takeable ==
  Inside(live) /\ live.iter # None =>
    /\ kept.iter = None /\ kept.scope = None
    /\ live.body # None /\ kept.body # None => kept.body.pass < live.iter.pass
    /\ live.arm # None /\ kept.arm # None => kept.arm.pass < live.iter.pass

Held ==
  /\ Paired(live) /\ Paired(kept)
  /\ status = "stopped" => live = Nothing /\ pc = "chain"
  /\ status = "running" => live.top # None /\ Control /\ Takeable

Inv == TypeOK /\ Good(disk) /\ Good(Snapshot) /\ Held

USE ProgramAssumption, WalkAssumption

-----------------------------------------------------------------------------
(* Registries and cursors *)

LEMMA PartsAre == Parts = {"top", "iter", "body", "scope", "branch", "arm"}
  BY DEF Parts, Nothing

LEMMA Captured ==
  /\ Snapshot.root = root /\ Snapshot.cut = cut
  /\ Snapshot.parts.top = Capture("top") /\ Snapshot.parts.iter = Capture("iter")
  /\ Snapshot.parts.body = Capture("body") /\ Snapshot.parts.scope = Capture("scope")
  /\ Snapshot.parts.branch = Capture("branch") /\ Snapshot.parts.arm = Capture("arm")
  /\ Snapshot'.root = root' /\ Snapshot'.cut = cut'
  /\ Snapshot'.parts.top = Capture("top")' /\ Snapshot'.parts.iter = Capture("iter")'
  /\ Snapshot'.parts.body = Capture("body")' /\ Snapshot'.parts.scope = Capture("scope")'
  /\ Snapshot'.parts.branch = Capture("branch")' /\ Snapshot'.parts.arm = Capture("arm")'
  BY PartsAre DEF Snapshot, Capture

Checkpoints == [parts : Registry, root : Seq(Promise!Steps), cut : BOOLEAN]

LEMMA SnapshotTypes == ASSUME TypeOK PROVE Snapshot \in Checkpoints
  <1>1. Snapshot.parts \in Registry
    BY PartsAre DEF Snapshot, Capture, Registry, TypeOK
  <1> QED BY <1>1 DEF Snapshot, Checkpoints, TypeOK

LEMMA NothingTypes == Nothing \in Registry
  BY DEF Nothing, Registry

LEMMA Lengths ==
  /\ Length["top"] = TopLen /\ Length.top = TopLen /\ TopLen \in Nat
  /\ Length["body"] = BodyLen /\ Length.body = BodyLen /\ BodyLen \in Nat
  /\ Length["arm"] = ArmLen /\ Length.arm = ArmLen /\ ArmLen \in Nat
  BY DEF Length

Chains == {"top", "body", "arm"}

LEMMA CursorIsNotNone ==
  /\ \A l \in Chains : None \notin ChainCursor(l)
  /\ None \notin IterCursor /\ None \notin BranchCursor /\ None \notin Seq(Promise!Steps)
  BY DEF Chains

LEMMA FirstTypes ==
  ASSUME NEW l \in Chains, NEW input \in Seq(Promise!Steps), NEW pass \in 0..MaxIters
  PROVE  First(input, pass) \in ChainCursor(l)
  BY Lengths DEF Chains, First, ChainCursor

LEMMA MovedTypes ==
  ASSUME NEW l \in Chains, NEW c \in ChainCursor(l), c.i <= Length[l],
         NEW result \in Seq(Promise!Steps)
  PROVE  Moved(c, result) \in ChainCursor(l)
  <1>1. Length[l] \in Nat /\ c.i + 1 \in 1..(Length[l] + 1)
    BY Lengths DEF Chains, ChainCursor
  <1>2. Moved(c, result) = [c EXCEPT !.i = c.i + 1, !.val = result, !.mark = "next"]
    BY DEF Moved, ChainCursor
  <1> QED BY <1>1, <1>2 DEF ChainCursor

LEMMA MovedIs ==
  ASSUME NEW l \in Chains, NEW c \in ChainCursor(l), NEW result
  PROVE  /\ Moved(c, result).i = c.i + 1 /\ Moved(c, result).mark = "next"
         /\ Moved(c, result).val = result /\ Moved(c, result).pass = c.pass
  BY DEF Moved, ChainCursor

(* What a completed step leaves registered. *)
LEMMA CompletesTop ==
  ASSUME NEW reg \in Registry, reg.top # None, reg.top.i <= TopLen,
         NEW result \in Seq(Promise!Steps), Completes("top", reg, result)
  PROVE  /\ live' \in Registry
         /\ live'.top.i = reg.top.i + 1 /\ live'.top.mark = "next"
         /\ live'.top.val = result /\ live'.top # None
         /\ \/ /\ pc' = "interrupted"
               /\ live'.iter = reg.iter /\ live'.body = reg.body /\ live'.scope = reg.scope
               /\ live'.branch = reg.branch /\ live'.arm = reg.arm
            \/ pc' = "chain" /\ Bare(live')
  <1> DEFINE c == Moved(reg.top, result)
  <1>1. reg.top \in ChainCursor("top")
    BY DEF Registry
  <1>2. c \in ChainCursor("top") /\ c # None
    BY <1>1, MovedTypes, Lengths, CursorIsNotNone DEF Chains
  <1>3. c.i = reg.top.i + 1 /\ c.mark = "next" /\ c.val = result
    BY <1>1, MovedIs DEF Chains
  <1>4. \/ live' = [reg EXCEPT !.top = c] /\ pc' = "interrupted"
        \/ live' = [ClosedUnder("top", reg) EXCEPT !.top = c] /\ pc' = "chain"
    BY DEF Completes, Goes
  <1>5. ClosedUnder("top", reg) = [Nothing EXCEPT !.top = reg.top]
    BY PartsAre DEF Registry, ClosedUnder, Nothing
  <1> HIDE DEF c
  <1>6. CASE live' = [reg EXCEPT !.top = c] /\ pc' = "interrupted"
    BY <1>2, <1>3, <1>6 DEF Registry
  <1>7. CASE live' = [ClosedUnder("top", reg) EXCEPT !.top = c] /\ pc' = "chain"
    BY <1>2, <1>3, <1>5, <1>7 DEF Registry, Nothing, Bare
  <1> QED BY <1>4, <1>6, <1>7

LEMMA CompletesBody ==
  ASSUME NEW reg \in Registry, reg.body # None, reg.body.i <= BodyLen,
         reg.branch = None, reg.arm = None,
         NEW result \in Seq(Promise!Steps), Completes("body", reg, result)
  PROVE  /\ live' \in Registry /\ pc' \in {"interrupted", "chain"}
         /\ live'.body.i = reg.body.i + 1 /\ live'.body.mark = "next"
         /\ live'.body.val = result /\ live'.body.pass = reg.body.pass /\ live'.body # None
         /\ live'.top = reg.top /\ live'.iter = reg.iter /\ live'.scope = reg.scope
         /\ live'.branch = None /\ live'.arm = None
  <1> DEFINE c == Moved(reg.body, result)
  <1>1. reg.body \in ChainCursor("body")
    BY DEF Registry
  <1>2. c \in ChainCursor("body") /\ c # None
    BY <1>1, MovedTypes, Lengths, CursorIsNotNone DEF Chains
  <1>3. c.i = reg.body.i + 1 /\ c.mark = "next" /\ c.val = result /\ c.pass = reg.body.pass
    BY <1>1, MovedIs DEF Chains
  <1>4. \/ live' = [reg EXCEPT !.body = c] /\ pc' = "interrupted"
        \/ live' = [ClosedUnder("body", reg) EXCEPT !.body = c] /\ pc' = "chain"
    BY DEF Completes, Goes
  <1>5. ClosedUnder("body", reg) = [reg EXCEPT !.branch = None, !.arm = None]
    BY PartsAre DEF Registry, ClosedUnder, Nothing
  <1> HIDE DEF c
  <1>6. CASE live' = [reg EXCEPT !.body = c] /\ pc' = "interrupted"
    BY <1>2, <1>3, <1>6 DEF Registry
  <1>7. CASE live' = [ClosedUnder("body", reg) EXCEPT !.body = c] /\ pc' = "chain"
    BY <1>2, <1>3, <1>5, <1>7 DEF Registry
  <1> QED BY <1>4, <1>6, <1>7

LEMMA CompletesArm ==
  ASSUME NEW reg \in Registry, reg.arm # None, reg.arm.i <= ArmLen,
         NEW result \in Seq(Promise!Steps), Completes("arm", reg, result)
  PROVE  /\ live' \in Registry /\ pc' \in {"interrupted", "chain"}
         /\ live'.arm.i = reg.arm.i + 1 /\ live'.arm.mark = "next"
         /\ live'.arm.val = result /\ live'.arm.pass = reg.arm.pass /\ live'.arm # None
         /\ live'.top = reg.top /\ live'.iter = reg.iter /\ live'.scope = reg.scope
         /\ live'.branch = reg.branch /\ live'.body = reg.body
  <1> DEFINE c == Moved(reg.arm, result)
  <1>1. reg.arm \in ChainCursor("arm")
    BY DEF Registry
  <1>2. c \in ChainCursor("arm") /\ c # None
    BY <1>1, MovedTypes, Lengths, CursorIsNotNone DEF Chains
  <1>3. c.i = reg.arm.i + 1 /\ c.mark = "next" /\ c.val = result /\ c.pass = reg.arm.pass
    BY <1>1, MovedIs DEF Chains
  <1>4. \/ live' = [reg EXCEPT !.arm = c] /\ pc' = "interrupted"
        \/ live' = [ClosedUnder("arm", reg) EXCEPT !.arm = c] /\ pc' = "chain"
    BY DEF Completes, Goes
  <1>5. ClosedUnder("arm", reg) = reg
    BY PartsAre DEF Registry, ClosedUnder
  <1> HIDE DEF c
  <1> QED BY <1>2, <1>3, <1>4, <1>5 DEF Registry

-----------------------------------------------------------------------------
(* Values *)

LEMMA AppendedLast ==
  ASSUME NEW S, NEW r \in Seq(S), NEW t \in Seq(S), NEW x \in S
  PROVE  r \o Append(t, x) = Append(r \o t, x)
  OBVIOUS

(* A verb's name, and what it knows of the chain it is in. *)
LEMMA InChains == Walking \in Chains
  BY DEF Walking, Chains

LEMMA TopStepTypes ==
  ASSUME TypeOK, status = "running", InVerb, Walking = "top", live.top # None
  PROVE  Step \in Promise!Steps
  <1>1. live.top \in ChainCursor("top")
    BY DEF TypeOK, Registry
  <1>2. Step = <<live.top.i, 0, 0, 0>>
    BY DEF Step
  <1>3. live.top.i \in (1..TopLen) \ {IterAt}
    BY <1>1, Lengths DEF InVerb, InBody, Walking, ChainCursor
  <1> QED BY <1>2, <1>3 DEF Promise!Steps

LEMMA BodyStepTypes ==
  ASSUME TypeOK, status = "running", InVerb, Walking = "body", live.iter.pass < MaxIters
  PROVE  Step \in Promise!Steps
  <1>1. live.body \in ChainCursor("body")
    BY DEF TypeOK, Registry, Walking
  <1>2. Step = <<IterAt, live.body.pass, live.body.i, 0>>
    BY DEF Step
  <1>3. live.body.i \in (1..BodyLen) \ {BranchAt} /\ live.body.pass \in 0..(MaxIters - 1)
    BY <1>1, Lengths DEF InVerb, InBody, Walking, ChainCursor, Bare
  <1> QED BY <1>2, <1>3 DEF Promise!Steps

LEMMA ArmStepTypes ==
  ASSUME TypeOK, status = "running", InVerb, Walking = "arm", live.iter.pass < MaxIters
  PROVE  Step \in Promise!Steps
  <1>1. live.arm \in ChainCursor("arm") /\ live.arm # None
    BY DEF TypeOK, Registry, Walking
  <1>2. Step = <<IterAt, live.arm.pass, BranchAt,
                 IF live.branch.taken = "then" THEN live.arm.i ELSE ArmLen + live.arm.i>>
    BY DEF Step, ArmStep
  <1>3. live.arm.i \in 1..ArmLen /\ live.arm.pass \in 0..(MaxIters - 1)
    BY <1>1, Lengths DEF InVerb, InBody, Walking, ChainCursor, Bare
  <1>4. \E n \in 1..(2 * ArmLen) : Step = <<IterAt, live.arm.pass, BranchAt, n>>
    BY <1>2, <1>3
  <1> QED BY <1>3, <1>4 DEF Promise!Steps

LEMMA RescueTypes == Promise!Rescue \in Promise!Steps
  BY DEF Promise!Steps

-----------------------------------------------------------------------------
(* The invariant holds at first, and what stops a session keeps it. *)

LEMMA InitInv == Init => Inv
  <1> SUFFICES ASSUME Init PROVE Inv
      OBVIOUS
  <1>1. First(<<>>, 0) \in ChainCursor("top") /\ First(<<>>, 0) # None
    <2>1. <<>> \in Seq(Promise!Steps) /\ 0 \in 0..MaxIters /\ "top" \in Chains
      BY DEF Chains
    <2>2. First(<<>>, 0) \in ChainCursor("top")
      BY <2>1, FirstTypes
    <2> QED BY <2>1, <2>2, CursorIsNotNone
  <1>2. live \in Registry /\ live = [Nothing EXCEPT !.top = First(<<>>, 0)] /\ kept = Nothing
    BY <1>1 DEF Init, Fresh, Nothing, Registry
  <1>3. disk = [parts |-> live, root |-> <<>>, cut |-> FALSE] /\ root = <<>>
    BY DEF Init, Fresh
  <1>4. live.top = First(<<>>, 0) /\ Bare(live)
    BY <1>2 DEF Bare, Nothing
  <1>5. TypeOK
    <2>1. disk \in [parts : Registry, root : Seq(Promise!Steps), cut : BOOLEAN]
      BY <1>2, <1>3
    <2>2. root \in Seq(Promise!Steps) /\ kept \in Registry
      BY <1>2, <1>3, NothingTypes
    <2>3. /\ plan \in Plans /\ status = "running" /\ sessions \in 1..MaxSessions
          /\ halt = FALSE /\ cut = FALSE /\ pc = "chain"
      BY DEF Init
    <2> QED BY <1>2, <2>1, <2>2, <2>3 DEF TypeOK
  <1>6. Good(disk)
    BY <1>1, <1>3, <1>4 DEF Good, Shape, Paired, Inside, Bare, First, Input, Trail, InIterate
  <1>7. Good(Snapshot)
    BY <1>1, <1>2, <1>3, <1>4, Captured
       DEF Good, Shape, Paired, Inside, Bare, First, Input, Trail, InIterate, Capture, Nothing
  <1>8. Held
    BY <1>1, <1>2, <1>4
       DEF Init, Held, Paired, Control, Takeable, Inside, Bare, First, Nothing
  <1> QED BY <1>5, <1>6, <1>7, <1>8 DEF Inv

(* A checkpoint that stays is as good as it was, and so is one just written. *)
LEMMA DiskKept ==
  ASSUME Good(disk), UNCHANGED <<plan, disk>> PROVE Good(disk)'
  BY DEF Good, Shape, Paired, Bare, Before, Inside, Fits, Branching, Input, Trail, InIterate,
         InPass, InArm

LEMMA DiskSaved ==
  ASSUME Good(Snapshot), disk' = Snapshot, UNCHANGED plan PROVE Good(disk)'
  BY DEF Good, Shape, Paired, Bare, Before, Inside, Fits, Branching, Input, Trail, InIterate,
         InPass, InArm

(* The run as a checkpoint sees it depends on the registries and the root. *)
LEMMA SnapshotKept ==
  ASSUME Good(Snapshot), UNCHANGED <<plan, live, kept, root>> PROVE Good(Snapshot)'
  BY Captured DEF Capture, Good, Shape, Paired, Bare, Before, Inside, Fits, Branching, Input,
         Trail, InIterate, InPass, InArm

LEMMA StopKeeps ==
  ASSUME Inv, NEW d \in Checkpoints, Good(d), Stop(d) PROVE Inv'
  <1>1. TypeOK'
    BY NothingTypes DEF Inv, TypeOK, Stop, Goes, Checkpoints, Awaits
  <1>2. Good(disk)'
    BY DEF Stop, Good, Shape, Paired, Bare, Before, Inside, Fits, Branching, Input, Trail,
           InIterate, InPass, InArm
  <1>3. live' = Nothing /\ kept' = d.parts /\ root' = d.root /\ plan' = plan
    BY DEF Stop
  <1>4. /\ Snapshot'.root = d.root
        /\ Snapshot'.parts.top = d.parts.top /\ Snapshot'.parts.iter = d.parts.iter
        /\ Snapshot'.parts.body = d.parts.body /\ Snapshot'.parts.scope = d.parts.scope
        /\ Snapshot'.parts.branch = d.parts.branch /\ Snapshot'.parts.arm = d.parts.arm
    BY <1>3, Captured DEF Capture, Nothing
  <1>5. Good(Snapshot)'
    BY <1>3, <1>4 DEF Good, Shape, Paired, Bare, Before, Inside, Fits, Branching, Input, Trail,
           InIterate, InPass, InArm, ArmStep
  <1>6. Held'
    BY <1>3 DEF Stop, Goes, Held, Good, Shape, Paired, Nothing
  <1> QED BY <1>1, <1>2, <1>5, <1>6 DEF Inv

Places == {"chain", "enter", "choose", "loop", "again", "merge", "interrupted"} \cup Awaits

(* A step that leaves the registries and the root alone. *)
LEMMA SameRun ==
  ASSUME Inv, UNCHANGED <<plan, sessions, live, kept, root>>, disk' = disk \/ disk' = Snapshot,
         status' \in {"running", "finished"}, halt' \in BOOLEAN, cut' \in BOOLEAN,
         pc' \in Places, status' = "running" => status = "running" /\ Control'
  PROVE  Inv'
  <1>1. TypeOK'
    BY SnapshotTypes DEF Inv, TypeOK, Checkpoints, Places
  <1>2. Good(disk)' /\ Good(Snapshot)'
    BY DiskKept, DiskSaved, SnapshotKept DEF Inv
  <1>3. Held'
    BY DEF Inv, Held, Paired, Takeable, Inside
  <1> QED BY <1>1, <1>2, <1>3 DEF Inv

LEMMA LoopEndsKeeps == ASSUME Inv, LoopEnds PROVE Inv'
  <1>1. InLoop /\ Control /\ status = "running" /\ live.iter # None
    BY DEF Inv, Held, LoopEnds, AtHead, At, Control, InLoop
  <1>2. PassDone
    <2> SUFFICES ASSUME kept.body # None PROVE kept.body.pass < live.iter.pass
        BY DEF PassDone
    <2>1. Snapshot.parts.body = kept.body /\ Snapshot.parts.iter = live.iter
          /\ Snapshot.parts.top = live.top
      BY <1>1, Captured DEF Capture, InLoop, Inv, Held
    <2>2. Fits(Snapshot.parts)
      BY <1>1, <2>1 DEF Inv, Good, Shape, Inside, InLoop
    <2>3. kept.body.pass \in 0..MaxIters /\ live.iter.pass \in 0..MaxIters
      BY <1>1 DEF Inv, TypeOK, Registry, ChainCursor, IterCursor
    <2>4. kept.body.pass # live.iter.pass
      BY <1>1, <2>1, <2>2, <2>3
         DEF LoopEnds, Control, Fits, Bounded, ShortcutEnds, SavedPass, PassDone
    <2> QED BY <2>1, <2>2, <2>3, <2>4 DEF Fits
  <1>3. Control'
    BY <1>1, <1>2 DEF LoopEnds, Goes, Control, InLoop, PassDone, Inside
  <1> QED BY <1>1, <1>3, SameRun DEF LoopEnds, Goes, runVars, Inv, TypeOK, Places

LEMMA StopsKeep == ASSUME Inv, LoopStops \/ VerbStops PROVE Inv'
  <1>1. Control'
    BY DEF LoopStops, VerbStops, Goes, Control
  <1> QED BY <1>1, SameRun DEF LoopStops, VerbStops, AtHead, At, Goes, runVars, Inv, TypeOK, Places

LEMMA SaveReturnsKeeps == ASSUME Inv, SaveReturns PROVE Inv'
  <1>1. InLoop /\ PassDone /\ status = "running" /\ live.iter.done \in {"no", "yes"}
    <2>1. InLoop /\ PassDone /\ status = "running" /\ live.iter.done # "unknown"
      BY DEF SaveReturns, At, Inv, Held, Control
    <2> QED BY <2>1 DEF Inv, TypeOK, Registry, IterCursor, InLoop
  <1>2. pc' \in {"merge", "again"} /\ (pc' = "again" => live.iter.done # "yes")
    BY DEF SaveReturns, Goes, AfterVerdict
  <1>3. Control'
    BY <1>1, <1>2 DEF SaveReturns, Control, InLoop, PassDone, Inside
  <1> QED BY <1>1, <1>2, <1>3, SameRun DEF SaveReturns, runVars, Inv, TypeOK, Places

LEMMA AsideKeeps == ASSUME Inv, Checkpoint \/ SetHalt \/ Finish PROVE Inv'
  <1>1. status' = "running" => Control'
    BY DEF Checkpoint, SetHalt, Finish, runVars, Inv, Held, Control, Bare, InBody, InVerb,
           InBranch, InLoop, PassDone, Inside, Branching, SavedArm, Walking
  <1>2. pc \in Places /\ halt \in BOOLEAN /\ cut \in BOOLEAN
    BY DEF Inv, TypeOK, Places
  <1> QED BY <1>1, <1>2, SameRun DEF Checkpoint, SetHalt, Finish, TopEnds, At, runVars

LEMMA SetSignalKeeps == ASSUME Inv, SetSignal PROVE Inv'
  <1>1. TypeOK'
    BY DEF SetSignal, Inv, TypeOK
  <1>2. Good(disk)' /\ Good(Snapshot)'
    BY DiskKept, SnapshotKept DEF Inv, SetSignal
  <1>3. Held'
    BY DEF SetSignal, Inv, Held, Paired, Takeable, Control, Bare, InBody, InVerb,
           InBranch, InLoop, PassDone, Inside, Branching, SavedArm, Walking
  <1> QED BY <1>1, <1>2, <1>3 DEF Inv

LEMMA ResumeKeeps == ASSUME Inv, Resume PROVE Inv'
  <1>1. live = Nothing /\ pc = "chain"
    BY DEF Resume, Inv, Held
  <1>2. /\ live' = [Nothing EXCEPT !.top = kept.top]
        /\ kept' = [kept EXCEPT !.top = None]
        /\ UNCHANGED <<plan, pc, root, disk>> /\ status' = "running"
    BY DEF Resume
  <1>3. live' \in Registry /\ kept' \in Registry
    BY <1>2, NothingTypes DEF Inv, TypeOK, Registry
  <1>4. TypeOK'
    BY <1>3 DEF Resume, Inv, TypeOK
  <1>5. /\ live'.top = kept.top /\ Bare(live') /\ kept'.top = None
        /\ kept'.iter = kept.iter /\ kept'.body = kept.body /\ kept'.scope = kept.scope
        /\ kept'.branch = kept.branch /\ kept'.arm = kept.arm
    BY <1>2 DEF Nothing, Bare, Inv, TypeOK, Registry
  <1>6. /\ Snapshot'.parts.top = Snapshot.parts.top /\ Snapshot'.parts.iter = Snapshot.parts.iter
        /\ Snapshot'.parts.body = Snapshot.parts.body
        /\ Snapshot'.parts.scope = Snapshot.parts.scope
        /\ Snapshot'.parts.branch = Snapshot.parts.branch
        /\ Snapshot'.parts.arm = Snapshot.parts.arm /\ Snapshot'.root = Snapshot.root
        /\ kept.top = Snapshot.parts.top
    BY <1>1, <1>2, <1>5, Captured DEF Capture, Nothing, Bare
  <1>7. Good(Snapshot)'
    BY <1>2, <1>6 DEF Inv, Good, Shape, Paired, Bare, Before, Inside, Fits, Branching, Input,
                      Trail, InIterate, InPass, InArm
  <1>8. Held'
    BY <1>1, <1>2, <1>5, <1>6 DEF Inv, Held, Good, Shape, Paired, Control, Takeable, Bare
  <1> QED BY <1>2, <1>4, <1>7, <1>8, DiskKept DEF Inv

(* The session stops at a checkpoint. *)
LEMMA StopsAtCheckpoint ==
  ASSUME Inv, Stop(disk) \/ Stop(Snapshot) PROVE Inv'
  <1>1. disk \in Checkpoints /\ Snapshot \in Checkpoints
    BY SnapshotTypes DEF Inv, TypeOK, Checkpoints
  <1>2. Good(disk) /\ Good(Snapshot)
    BY DEF Inv
  <1> QED BY <1>1, <1>2, StopKeeps

(* What raises is rescued, with the registries as they are, or stops the
   session. *)
LEMMA FailsKeeps ==
  ASSUME Inv, status = "running", Fails(disk) \/ Fails(Snapshot),
         live.iter # None => Inside(live)
  PROVE  Inv'
  <1>1. CASE Stop(disk) \/ Stop(Snapshot)
    BY <1>1, StopsAtCheckpoint
  <1>2. CASE /\ live.iter # None /\ pc' = "rescue" /\ (disk' = disk \/ disk' = Snapshot)
             /\ UNCHANGED <<runVars, live, kept, root>>
    <2>1. Control'
      BY <1>2 DEF Control, Inside
    <2> QED BY <1>2, <2>1, SameRun DEF runVars, Inv, TypeOK, Places, Awaits
  <1> QED BY <1>1, <1>2 DEF Fails, Goes

(* Where a raise can come from, what is live is the iterate's. *)
LEMMA InIterateWhere ==
  ASSUME Inv, status = "running",
         pc \in {"verb", "when", "until", "recheck", "saving", "merge", "chain", "rescue"}
  PROVE  live.iter # None => Inside(live)
  BY DEF Inv, Held, Control, InVerb, InBranch, InBody, InLoop, Bare

LEMMA FailuresKeep ==
  ASSUME Inv, \/ Raises \/ SaveUnacknowledged \/ RescueRaises
              \/ HaltCommits \/ HaltCommitFails \/ CompletionFails \/ Crash
  PROVE  Inv'
  <1>1. CASE Raises
    BY <1>1, FailsKeeps, InIterateWhere DEF Raises
  <1>2. CASE SaveUnacknowledged
    BY <1>2, FailsKeeps, InIterateWhere DEF SaveUnacknowledged, At
  <1>3. CASE RescueRaises \/ HaltCommits \/ HaltCommitFails \/ CompletionFails \/ Crash
    BY <1>3, StopsAtCheckpoint DEF RescueRaises, HaltCommits, HaltCommitFails, CompletionFails,
                                   Crash
  <1> QED BY <1>1, <1>2, <1>3

-----------------------------------------------------------------------------
(* The steps of the walk. *)

LEMMA StartStepKeeps == ASSUME Inv, StartStep PROVE Inv'
  <1>1. /\ status = "running" /\ pc = "chain" /\ live[Walking].i <= Length[Walking]
        /\ live' = [live EXCEPT ![Walking].mark = "running"]
        /\ UNCHANGED <<runVars, kept, root, disk>>
        /\ pc' = CASE Walking = "top" /\ live.top.i = IterAt -> "enter"
                   [] Walking = "body" /\ live.body.i = BranchAt -> "choose"
                   [] OTHER -> "verb"
    BY DEF StartStep, At, Goes
  <1>2. Bare(live) \/ InBody
    BY <1>1 DEF Inv, Held, Control
  <1>3. live.top # None /\ live.top \in ChainCursor("top")
    BY <1>1 DEF Inv, Held, TypeOK, Registry
  <1>4. CASE Walking = "top"
    <2>1. Bare(live)
      BY <1>2, <1>4 DEF Walking, InBody
    <2> DEFINE c == [live.top EXCEPT !.mark = "running"]
    <2>2. live' = [live EXCEPT !.top = c]
      BY <1>1, <1>4 DEF Inv, TypeOK, Registry
    <2>3. /\ c \in ChainCursor("top") /\ c.mark = "running" /\ c.i = live.top.i
          /\ c.val = live.top.val
      BY <1>3 DEF ChainCursor
    <2> HIDE DEF c
    <2>4. c # None
      BY <2>3, CursorIsNotNone DEF Chains
    <2>5. live' \in Registry /\ live'.top = c /\ Bare(live')
      BY <2>1, <2>2, <2>3 DEF Inv, TypeOK, Registry, Bare
    <2>6. pc' = IF live.top.i = IterAt THEN "enter" ELSE "verb"
      BY <1>1, <1>4
    <2>7. TypeOK'
      BY <1>1, <2>5, <2>6 DEF Inv, TypeOK, runVars, Awaits
    <2>8. /\ Snapshot'.parts.top = c /\ Snapshot.parts.top = live.top
          /\ Snapshot'.parts.iter = Snapshot.parts.iter
          /\ Snapshot'.parts.body = Snapshot.parts.body
          /\ Snapshot'.parts.scope = Snapshot.parts.scope
          /\ Snapshot'.parts.branch = Snapshot.parts.branch
          /\ Snapshot'.parts.arm = Snapshot.parts.arm /\ Snapshot'.root = Snapshot.root
      BY <1>1, <1>3, <2>1, <2>4, <2>5, Captured DEF Capture, Bare
    <2>9. Good(Snapshot)'
      BY <1>1, <1>3, <2>3, <2>4, <2>8
         DEF Inv, Good, Shape, Paired, Bare, Before, Inside, Fits, Branching, Input,
                      Trail, InIterate, InPass, InArm, ChainCursor, runVars
    <2>10. Held'
      BY <1>1, <1>4, <2>1, <2>3, <2>4, <2>5, <2>6, Lengths
         DEF Inv, Held, Paired, Control, Takeable, Bare, InVerb, Walking, Inside, runVars
    <2> QED BY <1>1, <2>7, <2>9, <2>10, DiskKept DEF Inv, runVars
  <1>5. CASE Walking = "body"
    <2>1. InBody /\ live.arm = None /\ live.body # None /\ live.body \in ChainCursor("body")
      BY <1>2, <1>5 DEF Walking, Bare, Inv, TypeOK, Registry
    <2> DEFINE c == [live.body EXCEPT !.mark = "running"]
    <2>2. live' = [live EXCEPT !.body = c]
      BY <1>1, <1>5 DEF Inv, TypeOK, Registry
    <2>3. /\ c \in ChainCursor("body") /\ c.mark = "running" /\ c.i = live.body.i
          /\ c.val = live.body.val /\ c.pass = live.body.pass
      BY <2>1 DEF ChainCursor
    <2> HIDE DEF c
    <2>4. c # None
      BY <2>3, CursorIsNotNone DEF Chains
    <2>5. /\ live' \in Registry /\ live'.body = c
          /\ live'.top = live.top /\ live'.iter = live.iter /\ live'.scope = live.scope
          /\ live'.branch = live.branch /\ live'.arm = None
      BY <2>1, <2>2, <2>3 DEF Inv, TypeOK, Registry
    <2>6. pc' = IF live.body.i = BranchAt THEN "choose" ELSE "verb"
      BY <1>1, <1>5
    <2>7. TypeOK'
      BY <1>1, <2>5, <2>6 DEF Inv, TypeOK, runVars, Awaits
    <2>8. /\ Snapshot'.parts.body = c /\ Snapshot.parts.body = live.body
          /\ Snapshot'.parts.top = Snapshot.parts.top
          /\ Snapshot'.parts.iter = Snapshot.parts.iter
          /\ Snapshot'.parts.scope = Snapshot.parts.scope
          /\ Snapshot'.parts.branch = Snapshot.parts.branch
          /\ Snapshot'.parts.arm = Snapshot.parts.arm /\ Snapshot'.root = Snapshot.root
      BY <1>1, <2>1, <2>4, <2>5, Captured DEF Capture
    <2>9. Good(Snapshot)'
      BY <1>1, <2>1, <2>3, <2>4, <2>8
         DEF Inv, Good, Shape, Paired, Bare, Before, Inside, Fits, Branching, Input, Trail,
             InIterate, InPass, InArm, runVars
    <2>10. Held'
      BY <1>1, <1>5, <2>1, <2>3, <2>4, <2>5, <2>6, Lengths
         DEF Inv, Held, Paired, Control, Takeable, InBody, InVerb, InBranch, Branching, Walking,
             Inside, runVars
    <2> QED BY <1>1, <2>7, <2>9, <2>10, DiskKept DEF Inv, runVars
  <1>6. CASE Walking = "arm"
    <2>1. InBody /\ live.arm # None /\ live.arm \in ChainCursor("arm")
      BY <1>2, <1>6 DEF Walking, Bare, Inv, TypeOK, Registry
    <2> DEFINE c == [live.arm EXCEPT !.mark = "running"]
    <2>2. live' = [live EXCEPT !.arm = c]
      BY <1>1, <1>6 DEF Inv, TypeOK, Registry
    <2>3. /\ c \in ChainCursor("arm") /\ c.mark = "running" /\ c.i = live.arm.i
          /\ c.val = live.arm.val /\ c.pass = live.arm.pass
      BY <2>1 DEF ChainCursor
    <2> HIDE DEF c
    <2>4. c # None
      BY <2>3, CursorIsNotNone DEF Chains
    <2>5. /\ live' \in Registry /\ live'.arm = c
          /\ live'.top = live.top /\ live'.iter = live.iter /\ live'.scope = live.scope
          /\ live'.branch = live.branch /\ live'.body = live.body
      BY <2>1, <2>2, <2>3 DEF Inv, TypeOK, Registry
    <2>6. pc' = "verb"
      BY <1>1, <1>6
    <2>7. TypeOK'
      BY <1>1, <2>5, <2>6 DEF Inv, TypeOK, runVars, Awaits
    <2>8. /\ Snapshot'.parts.arm = c /\ Snapshot.parts.arm = live.arm
          /\ Snapshot'.parts.top = Snapshot.parts.top
          /\ Snapshot'.parts.iter = Snapshot.parts.iter
          /\ Snapshot'.parts.scope = Snapshot.parts.scope
          /\ Snapshot'.parts.branch = Snapshot.parts.branch
          /\ Snapshot'.parts.body = Snapshot.parts.body /\ Snapshot'.root = Snapshot.root
      BY <1>1, <2>1, <2>4, <2>5, Captured DEF Capture
    <2>9. Good(Snapshot)'
      BY <1>1, <2>1, <2>3, <2>4, <2>8
         DEF Inv, Good, Shape, Paired, Bare, Before, Inside, Fits, Branching, Input, Trail,
             InIterate, InPass, InArm, runVars
    <2>10. Held'
      BY <1>1, <1>6, <2>1, <2>3, <2>4, <2>5, <2>6, Lengths
         DEF Inv, Held, Paired, Control, Takeable, InBody, InVerb, Branching, Walking,
             Inside, runVars
    <2> QED BY <1>1, <2>7, <2>9, <2>10, DiskKept DEF Inv, runVars
  <1> QED BY <1>4, <1>5, <1>6, InChains DEF Chains

LEMMA SkipStepKeeps == ASSUME Inv, SkipStep PROVE Inv'
  <1>1. /\ status = "running" /\ pc = "chain" /\ live[Walking].i <= Length[Walking]
        /\ live[Walking].mark # "running"
        /\ live' = [live EXCEPT ![Walking].i = live[Walking].i + 1]
        /\ UNCHANGED <<runVars, pc, kept, root, disk>>
    BY DEF SkipStep, Runs, PastSkipped, At, Inv, TypeOK
  <1>2. Bare(live) \/ InBody
    BY <1>1 DEF Inv, Held, Control
  <1>3. live.top # None /\ live.top \in ChainCursor("top")
    BY <1>1 DEF Inv, Held, TypeOK, Registry
  <1>4. CASE Walking = "top"
    <2>1. Bare(live)
      BY <1>2, <1>4 DEF Walking, InBody
    <2> DEFINE c == [live.top EXCEPT !.i = live.top.i + 1]
    <2>2. live' = [live EXCEPT !.top = c]
      BY <1>1, <1>4 DEF Inv, TypeOK, Registry
    <2>3. /\ c \in ChainCursor("top") /\ c.mark = "next" /\ c.i = live.top.i + 1
          /\ c.val = live.top.val /\ live.top.mark = "next"
      <3>1. live.top.i + 1 \in 1..(TopLen + 1)
        BY <1>1, <1>3, <1>4, Lengths DEF ChainCursor
      <3> QED BY <1>1, <1>3, <1>4, <3>1, Lengths DEF ChainCursor
    <2> HIDE DEF c
    <2>4. c # None
      BY <2>3, CursorIsNotNone DEF Chains
    <2>5. live' \in Registry /\ live'.top = c /\ Bare(live')
      BY <2>1, <2>2, <2>3 DEF Inv, TypeOK, Registry, Bare
    <2>6. TypeOK'
      BY <1>1, <2>5 DEF Inv, TypeOK, runVars
    <2>7. /\ Snapshot'.parts.top = c /\ Snapshot.parts.top = live.top
          /\ Snapshot'.parts.iter = Snapshot.parts.iter
          /\ Snapshot'.parts.body = Snapshot.parts.body
          /\ Snapshot'.parts.scope = Snapshot.parts.scope
          /\ Snapshot'.parts.branch = Snapshot.parts.branch
          /\ Snapshot'.parts.arm = Snapshot.parts.arm /\ Snapshot'.root = Snapshot.root
      BY <1>1, <1>3, <2>1, <2>4, <2>5, Captured DEF Capture, Bare
    <2>8. live.top.i \in Nat
      BY <1>3 DEF ChainCursor
    <2>9. Good(Snapshot)'
      BY <1>1, <1>3, <2>3, <2>4, <2>7, <2>8
         DEF Inv, Good, Shape, Paired, Bare, Before, Inside, Input, Trail, InIterate, runVars
    <2>10. Held'
      BY <1>1, <2>1, <2>3, <2>4, <2>5
         DEF Inv, Held, Paired, Control, Takeable, Bare, Inside, runVars
    <2> QED BY <1>1, <2>6, <2>9, <2>10, DiskKept DEF Inv, runVars
  <1>5. CASE Walking = "body"
    <2>1. InBody /\ live.arm = None /\ live.body # None /\ live.body \in ChainCursor("body")
      BY <1>2, <1>5 DEF Walking, Bare, Inv, TypeOK, Registry
    <2> DEFINE c == [live.body EXCEPT !.i = live.body.i + 1]
    <2>2. live' = [live EXCEPT !.body = c]
      BY <1>1, <1>5 DEF Inv, TypeOK, Registry
    <2>3. /\ c \in ChainCursor("body") /\ c.mark = "next" /\ live.body.mark = "next"
          /\ c.val = live.body.val /\ c.pass = live.body.pass
      <3>1. live.body.i + 1 \in 1..(BodyLen + 1)
        BY <1>1, <1>5, <2>1, Lengths DEF ChainCursor
      <3> QED BY <1>1, <1>5, <2>1, <3>1, Lengths DEF ChainCursor
    <2> HIDE DEF c
    <2>4. c # None
      BY <2>3, CursorIsNotNone DEF Chains
    <2>5. /\ live' \in Registry /\ live'.body = c
          /\ live'.top = live.top /\ live'.iter = live.iter /\ live'.scope = live.scope
          /\ live'.branch = live.branch /\ live'.arm = None
      BY <2>1, <2>2, <2>3 DEF Inv, TypeOK, Registry
    <2>6. TypeOK'
      BY <1>1, <2>5 DEF Inv, TypeOK, runVars
    <2>7. /\ Snapshot'.parts.body = c /\ Snapshot.parts.body = live.body
          /\ Snapshot'.parts.top = Snapshot.parts.top
          /\ Snapshot'.parts.iter = Snapshot.parts.iter
          /\ Snapshot'.parts.scope = Snapshot.parts.scope
          /\ Snapshot'.parts.branch = Snapshot.parts.branch
          /\ Snapshot'.parts.arm = Snapshot.parts.arm /\ Snapshot'.root = Snapshot.root
      BY <1>1, <2>1, <2>4, <2>5, Captured DEF Capture
    <2>8. Good(Snapshot)'
      BY <1>1, <2>1, <2>3, <2>4, <2>7
         DEF Inv, Good, Shape, Paired, Bare, Before, Inside, Fits, Branching, Input, Trail,
             InIterate, InPass, InArm, runVars
    <2>9. Held'
      BY <1>1, <2>1, <2>3, <2>4, <2>5
         DEF Inv, Held, Paired, Control, Takeable, InBody, Inside, runVars
    <2> QED BY <1>1, <2>6, <2>8, <2>9, DiskKept DEF Inv, runVars
  <1>6. CASE Walking = "arm"
    <2>1. InBody /\ live.arm # None /\ live.arm \in ChainCursor("arm")
      BY <1>2, <1>6 DEF Walking, Bare, Inv, TypeOK, Registry
    <2> DEFINE c == [live.arm EXCEPT !.i = live.arm.i + 1]
    <2>2. live' = [live EXCEPT !.arm = c]
      BY <1>1, <1>6 DEF Inv, TypeOK, Registry
    <2>3. c \in ChainCursor("arm") /\ c.val = live.arm.val /\ c.pass = live.arm.pass
      <3>1. live.arm.i + 1 \in 1..(ArmLen + 1)
        BY <1>1, <1>6, <2>1, Lengths DEF ChainCursor
      <3> QED BY <2>1, <3>1, Lengths DEF ChainCursor
    <2> HIDE DEF c
    <2>4. c # None
      BY <2>3, CursorIsNotNone DEF Chains
    <2>5. /\ live' \in Registry /\ live'.arm = c
          /\ live'.top = live.top /\ live'.iter = live.iter /\ live'.scope = live.scope
          /\ live'.branch = live.branch /\ live'.body = live.body
      BY <2>1, <2>2, <2>3 DEF Inv, TypeOK, Registry
    <2>6. TypeOK'
      BY <1>1, <2>5 DEF Inv, TypeOK, runVars
    <2>7. /\ Snapshot'.parts.arm = c /\ Snapshot.parts.arm = live.arm
          /\ Snapshot'.parts.top = Snapshot.parts.top
          /\ Snapshot'.parts.iter = Snapshot.parts.iter
          /\ Snapshot'.parts.scope = Snapshot.parts.scope
          /\ Snapshot'.parts.branch = Snapshot.parts.branch
          /\ Snapshot'.parts.body = Snapshot.parts.body /\ Snapshot'.root = Snapshot.root
      BY <1>1, <2>1, <2>4, <2>5, Captured DEF Capture
    <2>8. Good(Snapshot)'
      BY <1>1, <2>1, <2>3, <2>4, <2>7
         DEF Inv, Good, Shape, Paired, Bare, Before, Inside, Fits, Branching, Input, Trail,
             InIterate, InPass, InArm, runVars
    <2>9. Held'
      BY <1>1, <2>1, <2>3, <2>4, <2>5
         DEF Inv, Held, Paired, Control, Takeable, InBody, Branching, Inside, runVars
    <2> QED BY <1>1, <2>6, <2>8, <2>9, DiskKept DEF Inv, runVars
  <1> QED BY <1>4, <1>5, <1>6, InChains DEF Chains

(* The invariant where the walk is in a pass, and where it is between two of
   them, with what is live and what was kept told apart. *)
Here == IF plan.scoped THEN root \o live.scope ELSE root

Entered == live.scope # None <=> plan.scoped
Emptied == kept.iter = None /\ kept.scope = None

PassFacts ==
  /\ live.top # None /\ InBody /\ Entered /\ Emptied /\ Paired(live) /\ Paired(kept)
  /\ live.iter.pass < MaxIters /\ live.iter.done = "no"
  /\ kept.body # None => kept.body.pass < live.iter.pass
  /\ kept.arm # None /\ kept.arm.pass >= live.iter.pass =>
       /\ live.arm = None /\ kept.arm.pass = live.iter.pass /\ Branching(live.body)
       /\ kept.arm.val = Here
  /\ live.arm # None => live.arm.val = Here
  /\ live.arm = None /\ (kept.arm # None => kept.arm.pass < live.iter.pass) =>
       live.body.val = Here

LoopFacts ==
  /\ live.top # None /\ InLoop /\ Entered /\ Emptied /\ Paired(live) /\ Paired(kept)
  /\ kept.body # None =>
       /\ kept.body.pass <= live.iter.pass
       /\ kept.body.pass = live.iter.pass => live.iter.done = "no" /\ live.iter.pass < MaxIters
  /\ kept.arm # None /\ kept.arm.pass >= live.iter.pass =>
       /\ SavedPass /\ kept.arm.pass = live.iter.pass /\ Branching(kept.body)
       /\ kept.arm.val = Here
  /\ SavedPass /\ (kept.arm # None => kept.arm.pass < live.iter.pass) => kept.body.val = Here
  /\ ~SavedPass => live.iter.carry = Here

Numbers ==
  /\ live.iter # None => live.iter.pass \in Nat
  /\ live.body # None => live.body.pass \in Nat
  /\ live.arm # None => live.arm.pass \in Nat
  /\ kept.body # None => kept.body.pass \in Nat
  /\ kept.arm # None => kept.arm.pass \in Nat

LEMMA NumbersHold ==
  /\ live \in Registry /\ kept \in Registry => Numbers
  /\ live' \in Registry /\ kept' \in Registry => Numbers'
  BY DEF Numbers, Registry, IterCursor, ChainCursor

LEMMA PassOut == ASSUME Inv, status = "running", InBody PROVE PassFacts
  <1>1. Takeable /\ Paired(live) /\ Paired(kept) /\ live.top # None /\ Numbers
    BY NumbersHold DEF Inv, Held, TypeOK
  <1>2. Emptied /\ (kept.body # None => kept.body.pass < live.iter.pass)
    BY <1>1 DEF Takeable, InBody, Emptied
  <1>3. /\ Snapshot.parts.top = live.top /\ Snapshot.parts.iter = live.iter
        /\ Snapshot.parts.body = live.body /\ Snapshot.parts.scope = live.scope
        /\ Snapshot.parts.arm = Capture("arm") /\ Snapshot.root = root
    BY <1>1, <1>2, Captured DEF Capture, InBody, Emptied
  <1>4. Fits(Snapshot.parts) /\ Input(Snapshot) = Trail(Snapshot)
    BY <1>1, <1>3 DEF Inv, Good, Shape, InBody, Inside
  <1>5. Entered /\ live.iter.pass < MaxIters /\ live.iter.done = "no"
    BY <1>3, <1>4 DEF Fits, InBody, Entered
  <1>6. Trail(Snapshot) = Here
    BY <1>3, <1>5 DEF Trail, InIterate, InBody, Inside, Here, Entered
  <1>7. CASE live.arm # None
    <2>1. Snapshot.parts.arm = live.arm
      BY <1>3, <1>7 DEF Capture
    <2>2. live.arm.val = Here
      BY <1>3, <1>4, <1>6, <1>7, <2>1
         DEF Input, InIterate, InArm, InPass, InBody, Inside
    <2> QED BY <1>1, <1>2, <1>5, <1>7, <2>2 DEF PassFacts, Takeable, InBody, Numbers
  <1>8. CASE live.arm = None
    <2>1. Snapshot.parts.arm = kept.arm
      BY <1>3, <1>8 DEF Capture
    <2>2. kept.arm # None /\ kept.arm.pass >= live.iter.pass =>
            kept.arm.pass = live.iter.pass /\ Branching(live.body) /\ kept.arm.val = Here
      BY <1>3, <1>4, <1>6, <2>1
         DEF Fits, Input, InIterate, InArm, InPass, InBody, Inside
    <2>3. (kept.arm # None => kept.arm.pass < live.iter.pass) => live.body.val = Here
      BY <1>1, <1>3, <1>4, <1>6, <2>1
         DEF Input, InIterate, InArm, InPass, InBody, Inside, Numbers
    <2> QED BY <1>1, <1>2, <1>5, <1>8, <2>2, <2>3 DEF PassFacts
  <1> QED BY <1>7, <1>8

LEMMA PassIn ==
  ASSUME PassFacts', Numbers' PROVE Good(Snapshot)' /\ Takeable'
  <1>1. /\ Snapshot'.parts.top = live'.top /\ Snapshot'.parts.iter = live'.iter
        /\ Snapshot'.parts.body = live'.body /\ Snapshot'.parts.scope = live'.scope
        /\ Snapshot'.parts.arm = Capture("arm")' /\ Snapshot'.root = root'
        /\ Snapshot'.parts.branch = Capture("branch")'
    BY Captured DEF Capture, InBody, Emptied, PassFacts
  <1>2. Takeable'
    BY DEF PassFacts, Takeable, Emptied, Numbers
  <1>3. Trail(Snapshot)' = Here'
    BY <1>1 DEF Trail, InIterate, InBody, Inside, Here, Entered, PassFacts
  <1>4. CASE live'.arm # None
    BY <1>1, <1>2, <1>3, <1>4
       DEF Capture, PassFacts, Good, Shape, Paired, Before, Inside, Fits, Branching, Input,
           InIterate, InPass, InArm, InBody, Entered, Numbers
  <1>5. CASE live'.arm = None
    BY <1>1, <1>2, <1>3, <1>5
       DEF Capture, PassFacts, Good, Shape, Paired, Before, Inside, Fits, Branching, Input,
           InIterate, InPass, InArm, InBody, Entered, Numbers
  <1> QED BY <1>4, <1>5, <1>2

LEMMA LoopOut == ASSUME Inv, status = "running", InLoop PROVE LoopFacts
  <1>1. Takeable /\ Paired(live) /\ Paired(kept) /\ live.top # None /\ Numbers
    BY NumbersHold DEF Inv, Held, TypeOK
  <1>2. Emptied
    BY <1>1 DEF Takeable, InLoop, Emptied
  <1>3. /\ Snapshot.parts.top = live.top /\ Snapshot.parts.iter = live.iter
        /\ Snapshot.parts.body = kept.body /\ Snapshot.parts.scope = live.scope
        /\ Snapshot.parts.arm = kept.arm /\ Snapshot.root = root
    BY <1>1, <1>2, Captured DEF Capture, InLoop, Emptied
  <1>4. Fits(Snapshot.parts) /\ Input(Snapshot) = Trail(Snapshot)
    BY <1>1, <1>3 DEF Inv, Good, Shape, InLoop, Inside
  <1>5. Entered
    BY <1>3, <1>4 DEF Fits, Entered
  <1>6. Trail(Snapshot) = Here
    BY <1>3, <1>5 DEF Trail, InIterate, InLoop, Inside, Here, Entered
  <1>7. Input(Snapshot) = IF ~SavedPass THEN live.iter.carry
                          ELSE IF kept.arm # None /\ kept.arm.pass = kept.body.pass
                               THEN kept.arm.val ELSE kept.body.val
    BY <1>3 DEF Input, InIterate, InArm, InPass, InLoop, Inside, SavedPass
  <1> QED BY <1>1, <1>2, <1>3, <1>4, <1>5, <1>6, <1>7
          DEF LoopFacts, Fits, SavedPass, Numbers

LEMMA LoopIn ==
  ASSUME LoopFacts', Numbers' PROVE Good(Snapshot)' /\ Takeable'
  <1>1. /\ Snapshot'.parts.top = live'.top /\ Snapshot'.parts.iter = live'.iter
        /\ Snapshot'.parts.body = kept'.body /\ Snapshot'.parts.scope = live'.scope
        /\ Snapshot'.parts.arm = kept'.arm /\ Snapshot'.root = root'
        /\ Snapshot'.parts.branch = kept'.branch
    BY Captured DEF Capture, InLoop, Emptied, LoopFacts, Paired
  <1>2. Takeable'
    BY DEF LoopFacts, InLoop, Takeable, Emptied
  <1>3. Trail(Snapshot)' = Here'
    BY <1>1 DEF Trail, InIterate, InLoop, Inside, Here, Entered, LoopFacts
  <1>4. Good(Snapshot)'
    BY <1>1, <1>3
       DEF LoopFacts, Good, Shape, Paired, Before, Inside, Fits, Branching, Input,
           InIterate, InPass, InArm, InLoop, Entered, Numbers, SavedPass
  <1> QED BY <1>2, <1>4

LEMMA IntoPass ==
  ASSUME Inv, TypeOK', UNCHANGED <<plan, disk>>, status' = "running", PassFacts', Control'
  PROVE  Inv'
  <1>1. Numbers'
    BY NumbersHold DEF TypeOK
  <1> QED BY <1>1, PassIn, DiskKept DEF Inv, Held, PassFacts

LEMMA IntoLoop ==
  ASSUME Inv, TypeOK', UNCHANGED <<plan, disk>>, status' = "running", LoopFacts', Control'
  PROVE  Inv'
  <1>1. Numbers'
    BY NumbersHold DEF TypeOK
  <1> QED BY <1>1, LoopIn, DiskKept DEF Inv, Held, LoopFacts

(* The top chain moved on, past the iterate or to it. *)
LEMMA IntoTop ==
  ASSUME Inv, TypeOK', UNCHANGED <<plan, disk>>, status' = "running", Control',
         live'.top # None, live'.top.mark = "next", live'.top.val = root',
         Paired(live'), Paired(kept'), Before(live') => Bare(live') /\ Bare(kept')
  PROVE  Inv'
  <1>1. /\ Snapshot'.parts.top = live'.top /\ Snapshot'.parts.iter = Capture("iter")'
        /\ Snapshot'.parts.body = Capture("body")' /\ Snapshot'.parts.scope = Capture("scope")'
        /\ Snapshot'.parts.arm = Capture("arm")' /\ Snapshot'.root = root'
        /\ Snapshot'.parts.branch = Capture("branch")'
    BY Captured DEF Capture
  <1>2. Good(Snapshot)'
    BY <1>1 DEF Good, Shape, Paired, Before, Bare, Inside, Input, Trail, InIterate, Capture
  <1>3. Held'
    BY DEF Held, Takeable, Inside, Paired
  <1> QED BY <1>2, <1>3, DiskKept DEF Inv

LEMMA TopVerbReturns ==
  ASSUME Inv, VerbReturns, Walking = "top" PROVE Inv'
  <1>1. /\ status = "running" /\ InVerb /\ live.top # None /\ live.top \in ChainCursor("top")
        /\ Paired(live) /\ Paired(kept)
    BY DEF VerbReturns, At, Inv, Held, Control, TypeOK, Registry
  <1>2. Bare(live) /\ live.top.i # IterAt /\ live.top.i <= TopLen /\ live.top.i \in Nat
    BY <1>1, Lengths DEF InVerb, InBody, Walking, ChainCursor
  <1>3. Step \in Promise!Steps
    BY <1>1, TopStepTypes DEF Inv
  <1>4. Snapshot.parts.top = live.top /\ Snapshot.root = root
    BY <1>1, Captured DEF Capture
  <1>5. live.top.val = root
    BY <1>1, <1>2, <1>4 DEF Inv, Good, Input, Trail, InIterate
  <1>6. live.top.i < IterAt => Bare(kept)
    BY <1>2, <1>4, Captured DEF Inv, Good, Shape, Before, Bare, Capture
  <1>7. root' = Append(root, Step) /\ UNCHANGED <<runVars, kept, disk>>
    BY DEF VerbReturns
  <1>8. root' \in Seq(Promise!Steps)
    BY <1>3, <1>7 DEF Inv, TypeOK
  <1>9. Completes("top", live, root')
    BY <1>5, <1>7 DEF VerbReturns
  <1>10. /\ live' \in Registry /\ live'.top.i = live.top.i + 1 /\ live'.top.mark = "next"
         /\ live'.top.val = root' /\ live'.top # None
         /\ Bare(live') /\ pc' \in {"interrupted", "chain"}
    BY <1>1, <1>2, <1>8, <1>9, CompletesTop DEF Inv, TypeOK, Bare
  <1>11. TypeOK'
    BY <1>7, <1>8, <1>10 DEF Inv, TypeOK, runVars
  <1>12. Control'
    BY <1>10 DEF Control
  <1>13. Before(live') => Bare(kept')
    BY <1>2, <1>6, <1>7, <1>10 DEF Before, Bare
  <1>14. Paired(live') /\ Paired(kept')
    BY <1>1, <1>7, <1>10 DEF Paired, Bare
  <1> QED BY <1>1, <1>7, <1>10, <1>11, <1>12, <1>13, <1>14, IntoTop DEF runVars

(* A step of a pass: what it does is in the scope, or in the root, and in the
   value. *)
LEMMA InnerVerbReturns ==
  ASSUME Inv, VerbReturns, Walking # "top" PROVE Inv'
  <1> DEFINE reg == IF plan.scoped THEN [live EXCEPT !.scope = Append(@, Step)] ELSE live
  <1>1. /\ status = "running" /\ InVerb /\ InBody
    BY DEF VerbReturns, At, Inv, Held, Control, InVerb, Bare, Walking
  <1>2. PassFacts
    BY <1>1, PassOut
  <1>3. Step \in Promise!Steps
    BY <1>1, <1>2, BodyStepTypes, ArmStepTypes, InChains DEF Inv, PassFacts, Chains
  <1>4. /\ UNCHANGED <<runVars, kept, disk>>
        /\ root' = IF plan.scoped THEN root ELSE Append(root, Step)
        /\ Completes(Walking, reg, Append(live[Walking].val, Step))
    BY DEF VerbReturns
  <1>5. plan.scoped => live.scope \in Seq(Promise!Steps)
    BY <1>2 DEF PassFacts, Entered, Inv, TypeOK, Registry
  <1>6. root \in Seq(Promise!Steps) /\ root' \in Seq(Promise!Steps)
    BY <1>3, <1>4 DEF Inv, TypeOK
  <1>7. /\ reg \in Registry /\ reg.top = live.top /\ reg.iter = live.iter
        /\ reg.body = live.body /\ reg.branch = live.branch /\ reg.arm = live.arm
        /\ reg.scope = IF plan.scoped THEN Append(live.scope, Step) ELSE live.scope
    <2>1. live \in Registry
      BY DEF Inv, TypeOK
    <2>2. CASE plan.scoped
      <3>1. reg = [live EXCEPT !.scope = Append(live.scope, Step)]
        BY <2>1, <2>2 DEF Registry
      <3>2. Append(live.scope, Step) \in Seq(Promise!Steps)
        BY <1>3, <1>5, <2>2
      <3> HIDE DEF reg
      <3> QED BY <2>1, <2>2, <3>1, <3>2 DEF Registry
    <2>3. CASE ~plan.scoped
      BY <2>1, <2>3
    <2> QED BY <2>2, <2>3
  <1> HIDE DEF reg
  <1>8. reg.scope # None <=> plan.scoped
    <2>1. plan.scoped => Append(live.scope, Step) \in Seq(Promise!Steps)
      BY <1>3, <1>5
    <2> QED BY <1>2, <1>7, <2>1, CursorIsNotNone DEF PassFacts, Entered
  <1>9. ASSUME live'.scope = reg.scope PROVE Here' = Append(Here, Step)
    <2>1. plan' = plan
      BY <1>4 DEF runVars
    <2>2. CASE plan.scoped
      <3>1. Here' = root \o Append(live.scope, Step) /\ Here = root \o live.scope
        BY <1>4, <1>7, <1>9, <2>1, <2>2 DEF Here
      <3> QED BY <1>3, <1>5, <1>6, <2>2, <3>1, AppendedLast
    <2>3. CASE ~plan.scoped
      BY <1>4, <2>1, <2>3 DEF Here
    <2> QED BY <2>2, <2>3
  <1>10. CASE Walking = "body"
    <2>1. live.arm = None /\ live.body.i # BranchAt /\ live.body # None
          /\ live.body.i <= BodyLen /\ live.body \in ChainCursor("body")
      BY <1>1, <1>2, <1>10, Lengths DEF Walking, InVerb, Bare, InBody, Inv, TypeOK, Registry
    <2>2. (kept.arm # None => kept.arm.pass < live.iter.pass) /\ live.body.val = Here
      <3>1. Numbers
        BY NumbersHold DEF Inv, TypeOK
      <3>2. kept.arm # None => kept.arm.pass < live.iter.pass
        BY <1>2, <2>1, <3>1 DEF PassFacts, Branching, Numbers, InBody
      <3> QED BY <1>2, <2>1, <3>2 DEF PassFacts
    <2>3. Append(live.body.val, Step) \in Seq(Promise!Steps)
      BY <1>3, <2>1 DEF ChainCursor
    <2>4. Completes("body", reg, Append(live.body.val, Step))
      BY <1>4, <1>10
    <2>5. reg.branch = None /\ reg.arm = None
      BY <1>2, <1>7, <2>1 DEF PassFacts, Paired
    <2>6. /\ live' \in Registry /\ pc' \in {"interrupted", "chain"}
          /\ live'.body.val = Append(live.body.val, Step)
          /\ live'.body.pass = live.body.pass /\ live'.body # None
          /\ live'.top = live.top /\ live'.iter = live.iter /\ live'.scope = reg.scope
          /\ live'.branch = None /\ live'.arm = None
      BY <1>7, <2>1, <2>3, <2>4, <2>5, CompletesBody
    <2>7. TypeOK'
      BY <1>4, <1>6, <2>6 DEF Inv, TypeOK, runVars
    <2>8. live'.body.val = Here'
      BY <1>9, <2>2, <2>6
    <2>9. PassFacts'
      <3>1. Numbers
        BY NumbersHold DEF Inv, TypeOK
      <3> QED BY <1>2, <1>4, <1>8, <2>2, <2>6, <2>8, <3>1
              DEF PassFacts, InBody, Inside, Entered, Emptied, Paired, Numbers, runVars
    <2>10. Control'
      BY <2>6, <2>9 DEF Control, PassFacts
    <2> QED BY <1>1, <1>4, <2>7, <2>9, <2>10, IntoPass DEF runVars
  <1>11. CASE Walking = "arm"
    <2>1. live.arm # None /\ live.arm.i <= ArmLen /\ live.arm \in ChainCursor("arm")
      BY <1>1, <1>11, Lengths DEF Walking, InVerb, Inv, TypeOK, Registry
    <2>2. Append(live.arm.val, Step) \in Seq(Promise!Steps)
      BY <1>3, <2>1 DEF ChainCursor
    <2>3. Completes("arm", reg, Append(live.arm.val, Step))
      BY <1>4, <1>11
    <2>4. /\ live' \in Registry /\ pc' \in {"interrupted", "chain"}
          /\ live'.arm.val = Append(live.arm.val, Step)
          /\ live'.arm.pass = live.arm.pass /\ live'.arm # None
          /\ live'.top = live.top /\ live'.iter = live.iter /\ live'.scope = reg.scope
          /\ live'.branch = live.branch /\ live'.body = live.body
      BY <1>7, <2>1, <2>2, <2>3, CompletesArm
    <2>5. TypeOK'
      BY <1>4, <1>6, <2>4 DEF Inv, TypeOK, runVars
    <2>6. live'.arm.val = Here'
      BY <1>2, <1>9, <2>1, <2>4 DEF PassFacts
    <2>7. PassFacts'
      BY <1>2, <1>4, <1>8, <2>1, <2>4, <2>6
         DEF PassFacts, InBody, Inside, Entered, Emptied, Paired, Branching, runVars
    <2>8. Control'
      BY <2>4, <2>7 DEF Control, PassFacts
    <2> QED BY <1>1, <1>4, <2>5, <2>7, <2>8, IntoPass DEF runVars
  <1> QED BY <1>10, <1>11, InChains DEF Chains

LEMMA PassTypes ==
  ASSUME Inv, PassFacts
  PROVE  /\ live.body \in ChainCursor("body") /\ live.iter \in IterCursor
         /\ live.body.val \in Seq(Promise!Steps) /\ live.body.pass \in 0..MaxIters
         /\ live.iter.pass \in Nat
         /\ live.arm # None => live.arm \in ChainCursor("arm")
                              /\ live.arm.val \in Seq(Promise!Steps)
         /\ Numbers
  <1>1. /\ live.body \in ChainCursor("body") /\ live.iter \in IterCursor
        /\ live.arm # None => live.arm \in ChainCursor("arm")
    BY DEF PassFacts, InBody, Inv, TypeOK, Registry
  <1>2. Numbers
    BY NumbersHold DEF Inv, TypeOK
  <1> QED BY <1>1, <1>2 DEF ChainCursor, IterCursor

LEMMA TakeArmKeeps == ASSUME Inv, TakeArm PROVE Inv'
  <1>1. status = "running" /\ InBranch /\ InBody /\ pc = "choose"
    BY DEF TakeArm, At, Inv, Held, Control, InBranch
  <1>2. PassFacts
    BY <1>1, PassOut
  <1>3. CASE SavedArm
    <2>1. /\ live' = [live EXCEPT !.branch = kept.branch, !.arm = kept.arm]
          /\ kept' = [kept EXCEPT !.branch = None, !.arm = None]
          /\ pc' = "chain" /\ UNCHANGED <<runVars, root, disk>>
      BY <1>3 DEF TakeArm, Goes
    <2>2. /\ live' \in Registry /\ kept' \in Registry
          /\ live'.branch = kept.branch /\ live'.arm = kept.arm
          /\ live'.top = live.top /\ live'.iter = live.iter /\ live'.scope = live.scope
          /\ live'.body = live.body
          /\ kept'.branch = None /\ kept'.arm = None
          /\ kept'.iter = kept.iter /\ kept'.scope = kept.scope /\ kept'.body = kept.body
      BY <2>1 DEF Inv, TypeOK, Registry
    <2>3. TypeOK'
      BY <2>1, <2>2 DEF Inv, TypeOK, runVars
    <2>4. kept.arm # None /\ kept.arm.pass = live.iter.pass /\ kept.arm.val = Here
      BY <1>2, <1>3, PassTypes DEF SavedArm, PassFacts, Paired, InBody, Numbers
    <2>5. PassFacts'
      BY <1>1, <1>2, <2>1, <2>2, <2>4
         DEF PassFacts, InBranch, InBody, Inside, Entered, Emptied, Paired, Branching, Here,
             runVars
    <2>6. Control'
      BY <2>1, <2>5 DEF Control, PassFacts
    <2> QED BY <1>1, <2>1, <2>3, <2>5, <2>6, IntoPass DEF runVars
  <1>4. CASE ~SavedArm
    <2>1. pc' = "when" /\ UNCHANGED <<runVars, live, kept, root, disk>>
      BY <1>4 DEF TakeArm, Goes
    <2>2. Control'
      BY <1>1, <1>4, <2>1 DEF Control, InBranch, InBody, Inside, Branching, SavedArm
    <2> QED BY <1>1, <2>1, <2>2, SameRun DEF runVars, Inv, TypeOK, Places, Awaits
  <1> QED BY <1>3, <1>4

(* No arm was saved for this pass: any there is, is of an earlier one. *)
LEMMA Undecided ==
  ASSUME Inv, status = "running", pc = "when"
  PROVE  /\ PassFacts /\ InBranch /\ live.arm = None /\ live.branch = None
         /\ kept.arm # None => kept.arm.pass < live.iter.pass
         /\ live.body.val = Here
  <1>1. InBranch /\ InBody /\ ~SavedArm
    BY DEF Inv, Held, Control, InBranch
  <1>2. PassFacts
    BY <1>1, PassOut
  <1>3. kept.arm # None => kept.arm.pass < live.iter.pass
    BY <1>1, <1>2, PassTypes DEF SavedArm, PassFacts, Paired, InBody, Numbers
  <1> QED BY <1>1, <1>2, <1>3 DEF PassFacts, InBranch, Paired

LEMMA ChoosesKeeps ==
  ASSUME Inv, NEW taken \in {"then", "else"}, Chooses(taken) PROVE Inv'
  <1> DEFINE b == Branch(taken)
             c == First(live.body.val, live.body.pass)
  <1>1. /\ status = "running" /\ pc = "when" /\ pc' = "chain"
        /\ live' = [live EXCEPT !.branch = b, !.arm = c]
        /\ UNCHANGED <<runVars, kept, root, disk>>
    BY DEF Chooses, At, Goes
  <1>2. /\ PassFacts /\ InBranch /\ live.arm = None /\ live.branch = None
        /\ kept.arm # None => kept.arm.pass < live.iter.pass
        /\ live.body.val = Here
    BY <1>1, Undecided
  <1>3. b \in BranchCursor /\ b.pass = live.body.pass
    BY <1>2, PassTypes DEF Branch, BranchCursor
  <1>4. c \in ChainCursor("arm") /\ c.pass = live.body.pass /\ c.val = live.body.val
    <2>1. c \in ChainCursor("arm")
      BY <1>2, PassTypes, FirstTypes DEF Chains
    <2> QED BY <2>1 DEF First
  <1>5. b # None /\ c # None
    BY <1>3, <1>4, CursorIsNotNone DEF Chains
  <1> HIDE DEF b, c
  <1>6. /\ live' \in Registry /\ live'.branch = b /\ live'.arm = c
        /\ live'.top = live.top /\ live'.iter = live.iter /\ live'.scope = live.scope
        /\ live'.body = live.body
    BY <1>1, <1>3, <1>4 DEF Inv, TypeOK, Registry
  <1>7. TypeOK'
    BY <1>1, <1>6 DEF Inv, TypeOK, runVars
  <1>8. PassFacts'
    BY <1>1, <1>2, <1>3, <1>4, <1>5, <1>6, PassTypes
       DEF PassFacts, InBranch, InBody, Inside, Entered, Emptied, Paired, Branching, Here,
           Numbers, runVars
  <1>9. Control'
    BY <1>1, <1>8 DEF Control, PassFacts
  <1> QED BY <1>1, <1>7, <1>8, <1>9, IntoPass DEF runVars

(* The branch's step ends, with the value of the arm taken, or its input. *)
LEMMA BranchEnds ==
  ASSUME Inv, PassFacts, status = "running", Branching(live.body),
         NEW reg \in Registry, reg.top = live.top, reg.iter = live.iter, reg.scope = live.scope,
         reg.body = live.body, reg.branch = None, reg.arm = None,
         NEW result \in Seq(Promise!Steps), result = Here, Completes("body", reg, result),
         kept.arm # None => kept.arm.pass < live.iter.pass,
         UNCHANGED <<runVars, kept, root, disk>>
  PROVE  Inv'
  <1>1. reg.body # None /\ reg.body.i <= BodyLen
    BY Lengths DEF PassFacts, InBody, Branching
  <1>2. /\ live' \in Registry /\ pc' \in {"interrupted", "chain"}
        /\ live'.body.val = result /\ live'.body.pass = reg.body.pass /\ live'.body # None
        /\ live'.top = reg.top /\ live'.iter = reg.iter /\ live'.scope = reg.scope
        /\ live'.branch = None /\ live'.arm = None
    BY <1>1, CompletesBody
  <1>3. TypeOK'
    BY <1>2 DEF Inv, TypeOK, runVars
  <1>4. PassFacts'
    BY <1>2, PassTypes
       DEF PassFacts, InBody, Inside, Entered, Emptied, Paired, Here, Numbers, runVars
  <1>5. Control'
    BY <1>2, <1>4 DEF Control, PassFacts
  <1> QED BY <1>3, <1>4, <1>5, IntoPass DEF runVars

LEMMA ChoosesNoneKeeps == ASSUME Inv, ChoosesNone PROVE Inv'
  <1>1. /\ status = "running" /\ pc = "when" /\ Completes("body", live, live.body.val)
        /\ UNCHANGED <<runVars, kept, root, disk>>
    BY DEF ChoosesNone, At
  <1>2. /\ PassFacts /\ Branching(live.body) /\ live.arm = None /\ live.branch = None
        /\ kept.arm # None => kept.arm.pass < live.iter.pass
        /\ live.body.val = Here
    BY <1>1, Undecided DEF InBranch
  <1>3. live \in Registry /\ live.body.val \in Seq(Promise!Steps)
    BY <1>2, PassTypes DEF Inv, TypeOK
  <1> QED BY <1>1, <1>2, <1>3, BranchEnds

LEMMA EndArmKeeps == ASSUME Inv, EndArm PROVE Inv'
  <1> DEFINE reg == [live EXCEPT !.branch = None, !.arm = None]
  <1>1. /\ status = "running" /\ live.arm # None
        /\ Completes("body", reg, live.arm.val)
        /\ UNCHANGED <<runVars, kept, root, disk>>
    BY DEF EndArm, At, Walking
  <1>2. InBody
    BY <1>1 DEF EndArm, At, Inv, Held, Control, Bare
  <1>3. PassFacts
    BY <1>1, <1>2, PassOut
  <1>4. /\ reg \in Registry /\ reg.top = live.top /\ reg.iter = live.iter
        /\ reg.scope = live.scope /\ reg.body = live.body
        /\ reg.branch = None /\ reg.arm = None
    BY DEF Inv, TypeOK, Registry
  <1> HIDE DEF reg
  <1>5. live.arm.val = Here /\ Branching(live.body) /\ live.arm.val \in Seq(Promise!Steps)
    BY <1>1, <1>2, <1>3, PassTypes DEF PassFacts, InBody
  <1>6. kept.arm # None => kept.arm.pass < live.iter.pass
    BY <1>1, <1>3, PassTypes DEF PassFacts, Numbers, InBody
  <1> QED BY <1>1, <1>3, <1>4, <1>5, <1>6, BranchEnds

(* The iterate is entered anew or where the checkpoint left it. *)
LEMMA EnterIterateKeeps == ASSUME Inv, EnterIterate PROVE Inv'
  <1> DEFINE iter == IF kept.iter # None THEN kept.iter ELSE Started(live.top.val)
             scope == IF ~plan.scoped THEN None ELSE IF kept.scope # None THEN kept.scope ELSE <<>>
  <1>1. /\ status = "running" /\ Bare(live) /\ Inside(live) /\ live.top # None
        /\ live.top \in ChainCursor("top") /\ Paired(live) /\ Paired(kept)
    BY DEF EnterIterate, At, Inv, Held, Control, TypeOK, Registry
  <1>2. /\ live' = [live EXCEPT !.iter = iter, !.scope = scope]
        /\ kept' = [kept EXCEPT !.iter = None, !.scope = None]
        /\ pc' = IF iter.done = "unknown" THEN "recheck" ELSE AfterVerdict(iter.done, "loop")
        /\ UNCHANGED <<runVars, root, disk>>
    BY DEF EnterIterate, Goes
  <1>3. iter \in IterCursor /\ iter # None
    <2>1. Started(live.top.val) \in IterCursor
      BY <1>1 DEF Started, IterCursor, ChainCursor
    <2> QED BY <2>1, CursorIsNotNone DEF Inv, TypeOK, Registry
  <1>4. scope \in Seq(Promise!Steps) \cup {None} /\ (scope # None <=> plan.scoped)
    <2>1. <<>> \in Seq(Promise!Steps) /\ <<>> # None
      <3>1. <<>> \in Seq(Promise!Steps)
        OBVIOUS
      <3> QED BY <3>1, CursorIsNotNone
    <2>2. kept.scope \in Seq(Promise!Steps) \cup {None}
      BY DEF Inv, TypeOK, Registry
    <2> QED BY <2>1, <2>2
  <1>5. /\ Snapshot.parts.top = live.top /\ Snapshot.parts.iter = kept.iter
        /\ Snapshot.parts.body = kept.body /\ Snapshot.parts.scope = kept.scope
        /\ Snapshot.parts.arm = kept.arm /\ Snapshot.parts.branch = kept.branch
        /\ Snapshot.root = root
    BY <1>1, Captured DEF Capture, Bare
  <1>6. /\ Input(Snapshot) = Trail(Snapshot)
        /\ kept.iter = None => Bare(kept)
        /\ kept.iter # None => Fits(Snapshot.parts)
    BY <1>1, <1>5 DEF Inv, Good, Shape, Inside, Bare
  <1>7. /\ kept.iter = None =>
          iter = Started(live.top.val) /\ scope = IF plan.scoped THEN <<>> ELSE None
        /\ kept.iter # None => iter = kept.iter /\ scope = kept.scope
    BY <1>5, <1>6 DEF Fits, Bare
  <1> HIDE DEF iter, scope
  <1>8. /\ live' \in Registry /\ kept' \in Registry
        /\ live'.iter = iter /\ live'.scope = scope /\ live'.top = live.top
        /\ live'.body = None /\ live'.branch = None /\ live'.arm = None
        /\ kept'.iter = None /\ kept'.scope = None /\ kept'.body = kept.body
        /\ kept'.branch = kept.branch /\ kept'.arm = kept.arm
    BY <1>1, <1>2, <1>3, <1>4 DEF Inv, TypeOK, Registry, Bare
  <1>9. iter.done \in {"no", "yes", "unknown"} /\ iter.pass \in Nat
    BY <1>3 DEF IterCursor
  <1>10. pc' = CASE iter.done = "unknown" -> "recheck" [] iter.done = "yes" -> "merge"
                 [] iter.done = "no" -> "loop"
    BY <1>2, <1>9 DEF AfterVerdict
  <1>11. TypeOK'
    BY <1>2, <1>8, <1>9, <1>10 DEF Inv, TypeOK, runVars, Awaits
  <1>12. Here' = IF plan.scoped THEN root \o scope ELSE root
    BY <1>2, <1>8 DEF Here, runVars
  <1>13. Numbers /\ Numbers'
    BY <1>8, NumbersHold DEF Inv, TypeOK
  <1>14. LoopFacts'
    <2>1. CASE kept.iter = None
      <3>1. live.top.val = root
        BY <1>1, <1>5, <1>6, <2>1 DEF Input, Trail, InIterate, InArm, InPass, Bare, Inside
      <3>2. Here' = root
        BY <1>7, <1>12, <2>1 DEF Inv, TypeOK
      <3>3. kept'.body = None /\ kept'.arm = None /\ kept'.branch = None /\ live'.iter.carry = root
        BY <1>6, <1>7, <1>8, <2>1, <3>1 DEF Bare, Started
      <3>4. /\ live'.top # None /\ InLoop' /\ Entered' /\ Emptied'
            /\ Paired(live)' /\ Paired(kept)'
        BY <1>1, <1>2, <1>3, <1>4, <1>8, <3>3
           DEF InLoop, Inside, Entered, Emptied, Paired, runVars
      <3> QED BY <3>2, <3>3, <3>4 DEF LoopFacts, SavedPass
    <2>2. CASE kept.iter # None
      <3>1. Trail(Snapshot) = Here'
        BY <1>1, <1>4, <1>5, <1>7, <1>12, <2>2 DEF Trail, InIterate, Inside
      <3>2. SavedPass' <=> kept.body # None /\ kept.body.pass = iter.pass
        BY <1>8 DEF SavedPass
      <3>3. Input(Snapshot) = IF ~SavedPass' THEN iter.carry
                              ELSE IF kept.arm # None /\ kept.arm.pass = kept.body.pass
                                   THEN kept.arm.val ELSE kept.body.val
        BY <1>1, <1>5, <1>7, <2>2, <3>2 DEF Input, InIterate, InArm, InPass, Inside
      <3>4. /\ live'.top # None /\ InLoop' /\ Entered' /\ Emptied'
            /\ Paired(live)' /\ Paired(kept)'
        BY <1>1, <1>2, <1>3, <1>4, <1>8
           DEF InLoop, Inside, Entered, Emptied, Paired, runVars
      <3> QED BY <1>5, <1>6, <1>7, <1>8, <1>13, <2>2, <3>1, <3>2, <3>3, <3>4
              DEF LoopFacts, Fits, Numbers
    <2> QED BY <2>1, <2>2
  <1>15. PassDone' \/ pc' = "loop"
    BY <1>8, <1>9, <1>10, <1>13, <1>14 DEF LoopFacts, PassDone, Numbers
  <1>16. Control'
    BY <1>8, <1>9, <1>10, <1>14, <1>15 DEF Control, LoopFacts
  <1> QED BY <1>1, <1>2, <1>11, <1>14, <1>16, IntoLoop DEF runVars

LEMMA LoopTypes ==
  ASSUME Inv, LoopFacts
  PROVE  /\ live \in Registry /\ kept \in Registry /\ Numbers
         /\ live.iter \in IterCursor /\ live.iter # None
         /\ live.iter.carry \in Seq(Promise!Steps) /\ live.iter.pass \in 0..MaxIters
         /\ kept.body # None => kept.body \in ChainCursor("body")
         /\ root \in Seq(Promise!Steps)
         /\ plan.scoped => live.scope \in Seq(Promise!Steps)
  <1>1. live \in Registry /\ kept \in Registry /\ root \in Seq(Promise!Steps)
    BY DEF Inv, TypeOK
  <1>2. live.iter # None /\ live.iter \in IterCursor
    BY <1>1 DEF LoopFacts, InLoop, Registry
  <1>3. plan.scoped => live.scope \in Seq(Promise!Steps)
    BY <1>1 DEF LoopFacts, Entered, Registry
  <1> QED BY <1>1, <1>2, <1>3, NumbersHold DEF Registry, IterCursor

(* A pass starts, on the value carried or where the checkpoint left it. *)
LEMMA StartPassKeeps == ASSUME Inv, StartPass PROVE Inv'
  <1> DEFINE body == IF SavedPass THEN kept.body ELSE First(live.iter.carry, live.iter.pass)
             rest == IF SavedPass THEN None ELSE kept.body
  <1>1. /\ status = "running" /\ InLoop /\ live.iter.done = "no"
        /\ ~(live.iter.pass >= MaxIters)
        /\ live' = [live EXCEPT !.body = body] /\ kept' = [kept EXCEPT !.body = rest]
        /\ pc' = "chain" /\ UNCHANGED <<runVars, root, disk>>
    <2>1. kept' = [kept EXCEPT !.body = rest]
      BY DEF StartPass
    <2> QED BY <2>1 DEF StartPass, AtHead, At, Goes, Bounded, Inv, Held, Control
  <1>2. LoopFacts
    BY <1>1, LoopOut
  <1>3. live.iter.pass \in 0..MaxIters /\ live.iter.pass < MaxIters
    BY <1>1, <1>2, LoopTypes
  <1>4. /\ body \in ChainCursor("body") /\ body # None /\ body.pass = live.iter.pass
        /\ ~SavedPass => body.val = live.iter.carry
    <2>1. First(live.iter.carry, live.iter.pass) \in ChainCursor("body")
      BY <1>2, LoopTypes, FirstTypes DEF Chains
    <2>2. /\ First(live.iter.carry, live.iter.pass).pass = live.iter.pass
          /\ First(live.iter.carry, live.iter.pass).val = live.iter.carry
      BY DEF First
    <2>3. SavedPass => kept.body \in ChainCursor("body") /\ kept.body.pass = live.iter.pass
      BY <1>2, LoopTypes DEF SavedPass
    <2> QED BY <2>1, <2>2, <2>3, CursorIsNotNone DEF Chains
  <1>5. SavedPass => body = kept.body
    OBVIOUS
  <1>6. rest \in ChainCursor("body") \cup {None} /\ (rest # None => ~SavedPass /\ rest = kept.body)
    BY <1>2, LoopTypes
  <1> HIDE DEF body, rest
  <1>7. /\ live' \in Registry /\ live'.body = body /\ live'.top = live.top
        /\ live'.iter = live.iter /\ live'.scope = live.scope
        /\ live'.branch = live.branch /\ live'.arm = live.arm
    BY <1>1, <1>2, <1>4, LoopTypes DEF Registry
  <1>8. /\ kept' \in Registry /\ kept'.body = rest /\ kept'.iter = kept.iter
        /\ kept'.scope = kept.scope /\ kept'.branch = kept.branch /\ kept'.arm = kept.arm
    BY <1>1, <1>2, <1>6, LoopTypes DEF Registry
  <1>9. TypeOK'
    BY <1>1, <1>7, <1>8 DEF Inv, TypeOK, runVars
  <1>10. Here' = Here
    BY <1>1, <1>7 DEF Here, runVars
  <1>11. kept'.body # None => kept'.body.pass < live'.iter.pass
    BY <1>2, <1>6, <1>7, <1>8, LoopTypes DEF LoopFacts, SavedPass, Numbers
  <1>12. kept.arm # None /\ kept.arm.pass >= live.iter.pass =>
           kept.arm.pass = live.iter.pass /\ Branching(body) /\ kept.arm.val = Here
    BY <1>2, <1>5 DEF LoopFacts
  <1>13. (kept.arm # None => kept.arm.pass < live.iter.pass) => body.val = Here
    BY <1>2, <1>4, <1>5 DEF LoopFacts
  <1>14. PassFacts'
    BY <1>1, <1>2, <1>3, <1>4, <1>7, <1>8, <1>10, <1>11, <1>12, <1>13
       DEF LoopFacts, PassFacts, InLoop, InBody, Inside, Entered, Emptied, Paired, runVars
  <1>15. Control'
    BY <1>1, <1>14 DEF Control, PassFacts
  <1> QED BY <1>1, <1>9, <1>14, <1>15, IntoPass DEF runVars

(* The pass is over: its value is carried, with the verdict still open. *)
LEMMA EndPassKeeps == ASSUME Inv, EndPass PROVE Inv'
  <1> DEFINE iter == NextPass(live.iter, live.body.val)
  <1>1. /\ status = "running" /\ live.body # None /\ live.arm = None
        /\ live.body.i > BodyLen
        /\ pc' = "until" /\ UNCHANGED <<runVars, kept, root, disk>>
    BY DEF EndPass, At, Walking, Goes
  <1>2. live' = [live EXCEPT !.body = None, !.iter = iter]
    BY DEF EndPass
  <1>3. InBody
    BY <1>1 DEF EndPass, At, Inv, Held, Control, Bare
  <1>4. PassFacts
    BY <1>1, <1>3, PassOut
  <1>5. ~Branching(live.body)
    BY <1>1, <1>4, PassTypes, Lengths DEF Branching, ChainCursor
  <1>6. live.body.val = Here /\ (kept.arm # None => kept.arm.pass < live.iter.pass)
    BY <1>1, <1>4, <1>5, PassTypes DEF PassFacts, Numbers
  <1>7. /\ iter \in IterCursor /\ iter # None /\ iter.pass = live.iter.pass + 1
        /\ iter.carry = live.body.val /\ iter.done = "unknown"
    <2>1. iter \in IterCursor
      BY <1>4, PassTypes DEF NextPass, IterCursor, PassFacts
    <2> QED BY <2>1, CursorIsNotNone DEF NextPass
  <1> HIDE DEF iter
  <1>8. /\ live' \in Registry /\ live'.body = None /\ live'.iter = iter
        /\ live'.top = live.top /\ live'.scope = live.scope
        /\ live'.branch = live.branch /\ live'.arm = live.arm
    BY <1>2, <1>7 DEF Inv, TypeOK, Registry
  <1>9. TypeOK'
    BY <1>1, <1>8 DEF Inv, TypeOK, runVars, Awaits
  <1>10. Here' = Here
    BY <1>1, <1>8 DEF Here, runVars
  <1>11. /\ kept'.body # None => kept'.body.pass < live'.iter.pass
         /\ kept'.arm # None => kept'.arm.pass < live'.iter.pass
    BY <1>1, <1>4, <1>6, <1>7, <1>8, PassTypes DEF PassFacts, Numbers
  <1>12. Numbers'
    BY <1>9, NumbersHold DEF TypeOK
  <1>13. LoopFacts'
    BY <1>1, <1>4, <1>6, <1>7, <1>8, <1>10, <1>11, <1>12
       DEF PassFacts, LoopFacts, InLoop, InBody, Inside, Entered, Emptied, Paired, SavedPass,
           Numbers, runVars
  <1>14. Control'
    BY <1>1, <1>11, <1>13 DEF Control, LoopFacts, PassDone
  <1> QED BY <1>1, <1>9, <1>13, <1>14, IntoLoop DEF runVars

(* A verdict, in this session or on the value a checkpoint saved. *)
LEMMA VerdictKeeps ==
  ASSUME Inv, status = "running", InLoop, PassDone, live' = [live EXCEPT !.iter.done = Verdict],
         \/ pc' = "saving" \/ pc' = AfterVerdict(Verdict, "again")
         \/ pc' = AfterVerdict(Verdict, "loop"),
         UNCHANGED <<runVars, kept, root, disk>>
  PROVE  Inv'
  <1> DEFINE iter == [live.iter EXCEPT !.done = Verdict]
  <1>1. LoopFacts
    BY LoopOut
  <1>2. Verdict \in {"yes", "no"}
    BY DEF Verdict
  <1>3. /\ iter \in IterCursor /\ iter # None /\ iter.pass = live.iter.pass
        /\ iter.carry = live.iter.carry /\ iter.done = Verdict
    <2>1. live.iter \in IterCursor
      BY <1>1, LoopTypes
    <2>2. iter \in IterCursor /\ iter.pass = live.iter.pass /\ iter.carry = live.iter.carry
          /\ iter.done = Verdict
      BY <1>2, <2>1 DEF IterCursor
    <2> QED BY <2>2, CursorIsNotNone
  <1>4. live' = [live EXCEPT !.iter = iter]
    BY <1>1, LoopTypes DEF Registry
  <1> HIDE DEF iter
  <1>5. /\ live' \in Registry /\ live'.iter = iter /\ live'.body = live.body
        /\ live'.top = live.top /\ live'.scope = live.scope
        /\ live'.branch = live.branch /\ live'.arm = live.arm
    BY <1>3, <1>4 DEF Inv, TypeOK, Registry
  <1>6. \/ pc' = "saving"
        \/ pc' = "merge" /\ Verdict = "yes"
        \/ pc' \in {"again", "loop"} /\ Verdict = "no"
    <2>1. /\ AfterVerdict(Verdict, "again") = IF Verdict = "yes" THEN "merge" ELSE "again"
          /\ AfterVerdict(Verdict, "loop") = IF Verdict = "yes" THEN "merge" ELSE "loop"
      BY DEF AfterVerdict
    <2> QED BY <1>2, <2>1
  <1>7. TypeOK'
    BY <1>5, <1>6 DEF Inv, TypeOK, runVars, Awaits
  <1>8. Here' = Here
    BY <1>5 DEF Here, runVars
  <1>9. PassDone' /\ ~SavedPass /\ ~SavedPass'
    BY <1>1, <1>3, <1>5, LoopTypes DEF PassDone, SavedPass, Numbers, runVars
  <1>10. LoopFacts'
    BY <1>1, <1>3, <1>5, <1>8, <1>9, LoopTypes
       DEF LoopFacts, PassDone, InLoop, Inside, Entered, Emptied, Paired, Numbers, SavedPass,
           runVars
  <1>11. Control'
    BY <1>2, <1>3, <1>5, <1>6, <1>9, <1>10 DEF Control, LoopFacts
  <1> QED BY <1>7, <1>10, <1>11, IntoLoop DEF runVars

LEMMA VerdictsKeep == ASSUME Inv, Until \/ Recheck PROVE Inv'
  <1>1. status = "running" /\ InLoop /\ PassDone
    BY DEF Until, Recheck, At, Inv, Held, Control
  <1> QED BY <1>1, VerdictKeeps DEF Until, Recheck, Goes

(* The iterate's step ends: with the work of its scope, or of its rescue. *)
LEMMA IterateEnds ==
  ASSUME Inv, status = "running", Inside(live), NEW reg \in Registry, reg.top = live.top,
         Paired(reg), root' \in Seq(Promise!Steps), Completes("top", reg, root'),
         UNCHANGED <<runVars, kept, disk>>
  PROVE  Inv'
  <1>1. live.top # None /\ Paired(live) /\ Paired(kept) /\ reg.top.i = IterAt /\ IterAt <= TopLen
    BY DEF Inv, Held, Inside
  <1>2. /\ live' \in Registry /\ live'.top.i = IterAt + 1 /\ live'.top.mark = "next"
        /\ live'.top.val = root' /\ live'.top # None
        /\ \/ /\ pc' = "interrupted"
              /\ live'.branch = reg.branch /\ live'.arm = reg.arm
           \/ pc' = "chain" /\ Bare(live')
    BY <1>1, CompletesTop
  <1>3. TypeOK'
    BY <1>2 DEF Inv, TypeOK, runVars
  <1>4. Control'
    BY <1>2 DEF Control
  <1>5. Paired(live') /\ Paired(kept')
    BY <1>1, <1>2 DEF Paired, Bare
  <1>6. ~Before(live')
    BY <1>2 DEF Before
  <1> QED BY <1>2, <1>3, <1>4, <1>5, <1>6, IntoTop DEF runVars

LEMMA MergeKeeps == ASSUME Inv, Merge PROVE Inv'
  <1> DEFINE reg == [live EXCEPT !.iter = None, !.scope = None]
  <1>1. /\ status = "running" /\ InLoop /\ PassDone
        /\ root' = (IF plan.scoped THEN root \o live.scope ELSE root)
        /\ Completes("top", reg, live.iter.carry)
        /\ UNCHANGED <<runVars, kept, disk>>
    BY DEF Merge, At, Inv, Held, Control
  <1>2. LoopFacts
    BY <1>1, LoopOut
  <1>3. root' = live.iter.carry
    BY <1>1, <1>2, LoopTypes DEF LoopFacts, PassDone, SavedPass, Numbers, Here
  <1>4. root' \in Seq(Promise!Steps)
    BY <1>2, <1>3, LoopTypes
  <1>5. reg \in Registry /\ reg.top = live.top /\ Paired(reg)
    BY <1>2, LoopTypes DEF Registry, Paired, LoopFacts
  <1> HIDE DEF reg
  <1> QED BY <1>1, <1>3, <1>4, <1>5, IterateEnds DEF InLoop

LEMMA RescueReturnsKeeps == ASSUME Inv, RescueReturns PROVE Inv'
  <1>1. /\ status = "running" /\ Inside(live) /\ Paired(live) /\ live \in Registry
        /\ root' = Append(root, Promise!Rescue) /\ Completes("top", live, root')
        /\ UNCHANGED <<runVars, kept, disk>>
    BY DEF RescueReturns, At, Inv, Held, Control, TypeOK
  <1>2. root' \in Seq(Promise!Steps)
    BY <1>1, RescueTypes DEF Inv, TypeOK
  <1> QED BY <1>1, <1>2, IterateEnds

-----------------------------------------------------------------------------
(* The theorems. *)

LEMMA Unchanged == ASSUME Inv, UNCHANGED vars PROVE Inv'
  <1>1. status = "running" => Control'
    BY DEF vars, runVars, Inv, Held, Control, Bare, InBody, InVerb,
           InBranch, InLoop, PassDone, Inside, Branching, SavedArm, Walking
  <1>2. CASE status \in {"running", "finished"}
    BY <1>1, <1>2, SameRun DEF vars, runVars, Inv, TypeOK, Places
  <1>3. CASE status = "stopped"
    <2>1. TypeOK'
      BY DEF vars, runVars, Inv, TypeOK
    <2>2. Good(disk)' /\ Good(Snapshot)'
      BY DiskKept, SnapshotKept DEF Inv, vars, runVars
    <2>3. Held'
      BY <1>3 DEF vars, runVars, Inv, Held, Paired
    <2> QED BY <2>1, <2>2, <2>3 DEF Inv
  <1> QED BY <1>2, <1>3 DEF Inv, TypeOK

LEMMA InvIsInductive == Inv /\ [Next]_vars => Inv'
  <1> SUFFICES ASSUME Inv, [Next]_vars PROVE Inv'
      OBVIOUS
  <1>1. CASE StartStep
    BY <1>1, StartStepKeeps
  <1>2. CASE SkipStep
    BY <1>2, SkipStepKeeps
  <1>3. CASE VerbReturns
    BY <1>3, TopVerbReturns, InnerVerbReturns
  <1>4. CASE TakeArm \/ ChoosesNone \/ EndArm
    BY <1>4, TakeArmKeeps, ChoosesNoneKeeps, EndArmKeeps
  <1>5. CASE Chooses("then") \/ Chooses("else")
    BY <1>5, ChoosesKeeps
  <1>6. CASE EnterIterate \/ StartPass \/ EndPass
    BY <1>6, EnterIterateKeeps, StartPassKeeps, EndPassKeeps
  <1>7. CASE LoopEnds \/ LoopStops \/ VerbStops
    BY <1>7, LoopEndsKeeps, StopsKeep
  <1>8. CASE Until \/ Recheck \/ SaveReturns
    BY <1>8, VerdictsKeep, SaveReturnsKeeps
  <1>9. CASE Merge \/ RescueReturns
    BY <1>9, MergeKeeps, RescueReturnsKeeps
  <1>10. CASE \/ Raises \/ SaveUnacknowledged \/ RescueRaises
              \/ HaltCommits \/ HaltCommitFails \/ CompletionFails \/ Crash
    BY <1>10, FailuresKeep
  <1>11. CASE Finish \/ Checkpoint \/ SetHalt
    BY <1>11, AsideKeeps
  <1>12. CASE Resume \/ SetSignal
    BY <1>12, ResumeKeeps, SetSignalKeeps
  <1>13. CASE UNCHANGED vars
    BY <1>13, Unchanged
  <1> QED BY <1>1, <1>2, <1>3, <1>4, <1>5, <1>6, <1>7, <1>8, <1>9, <1>10, <1>11, <1>12, <1>13
          DEF Next, Walk

(* Inv is an invariant. *)
THEOREM InvHolds == Spec => []Inv
  <1> QED BY InitInv, InvIsInductive, PTL DEF Spec

(* Every cursor stays within its chain, every trail holds steps of the
   program only (Chain, IterateRunner, _run_branch). *)
THEOREM WalkTypeCorrect == Spec => []TypeOK
  <1>1. Inv => TypeOK
    BY DEF Inv
  <1> QED BY <1>1, InvHolds, PTL

(* In every checkpoint, and in the run at any time, the value the walk goes
   on with comes from exactly the steps whose work the state holds
   (ScopeRegistry.capture). *)
THEOREM CursorMatchesState == Spec => []StateMatchesCursor
  <1>1. Inv => StateMatchesCursor
    BY DEF Inv, Good, StateMatchesCursor
  <1> QED BY <1>1, InvHolds, PTL

-----------------------------------------------------------------------------
(* What a halt leaves to run. *)

(* The chain that walks is at its end, at the first step of an arm just
   chosen, or fast-forwarding through that arm. *)
NothingLeft ==
  \/ live[Walking].i > Length[Walking]
  \/ Walking = "arm" /\ live.arm = First(live.body.val, live.body.pass)
  \/ Walking = "arm" /\ live.arm.mark = "next" /\ cut

Halted ==
  /\ status = "stopped" => ~halt
  /\ status = "running" /\ halt => pc \notin {"enter", "choose"} /\ (pc = "chain" => NothingLeft)

(* Of a step that completes under a halt the walk goes on only from the end
   of its chain. *)
LEMMA HaltedChain ==
  ASSUME Inv, Inv', status' = "running", NEW l \in Chains, NEW reg \in Registry,
         reg[l] # None, l # "top" => reg.iter # None, l = "body" => reg.arm = None,
         l = "arm" => reg.branch # None,
         NEW result, Completes(l, reg, result), halt, pc' = "chain"
  PROVE  NothingLeft'
  <1>1. live' = [ClosedUnder(l, reg) EXCEPT ![l] = Moved(reg[l], result)]
        /\ ~(reg[l].i < Length[l])
    BY DEF Completes, Goes
  <1>2. reg[l] \in ChainCursor(l)
    BY DEF Chains, Registry
  <1>3. Moved(reg[l], result).i = reg[l].i + 1
    BY <1>2, MovedIs
  <1>4. reg[l].i + 1 > Length[l]
    BY <1>1, <1>2, Lengths DEF Chains, ChainCursor
  <1>5. CASE l = "top"
    <2>1. live'.body = None /\ live'.arm = None /\ live'.top = Moved(reg.top, result)
      BY <1>1, <1>5, PartsAre DEF ClosedUnder, Registry
    <2> QED BY <1>3, <1>4, <1>5, <2>1 DEF NothingLeft, Walking
  <1>6. CASE l = "body"
    <2>1. live'.arm = None /\ live'.iter = reg.iter /\ live'.body = Moved(reg.body, result)
      BY <1>1, <1>6, PartsAre DEF ClosedUnder, Registry
    <2>2. live'.body # None
      BY <1>6, <2>1 DEF Inv, Held, Control, Bare, InBody
    <2> QED BY <1>3, <1>4, <1>6, <2>1, <2>2 DEF NothingLeft, Walking
  <1>7. CASE l = "arm"
    <2>1. live'.branch = reg.branch /\ live'.arm = Moved(reg.arm, result)
      BY <1>1, <1>7, PartsAre DEF ClosedUnder, Registry
    <2>2. live'.arm # None
      BY <1>7, <2>1 DEF Inv, Held, Paired
    <2> QED BY <1>3, <1>4, <1>7, <2>1, <2>2 DEF NothingLeft, Walking
  <1> QED BY <1>5, <1>6, <1>7 DEF Chains

LEMMA HaltedCompletes ==
  ASSUME Inv, Inv', Halted, status = "running", UNCHANGED runVars,
         NEW l \in Chains, NEW reg \in Registry,
         reg[l] # None, l # "top" => reg.iter # None, l = "body" => reg.arm = None,
         l = "arm" => reg.branch # None,
         NEW result, Completes(l, reg, result)
  PROVE  Halted'
  <1>1. status' = "running" /\ halt' = halt
    BY DEF runVars
  <1>2. pc' \in {"interrupted", "chain"}
    BY DEF Completes, Goes
  <1>3. halt /\ pc' = "chain" => NothingLeft'
    BY <1>1, HaltedChain
  <1> QED BY <1>1, <1>2, <1>3 DEF Halted

LEMMA StartUnderHalt ==
  ASSUME Inv, Halted, StartStep, halt
  PROVE  Walking = "arm" /\ live.arm = First(live.body.val, live.body.pass) /\ pc' = "verb"
  <1>1. NothingLeft /\ status = "running"
    BY DEF StartStep, At, Halted
  <1>2. live[Walking] \in ChainCursor(Walking)
    BY InChains DEF Inv, Held, Walking, TypeOK, Registry, StartStep, At
  <1>3. ~(live[Walking].i > Length[Walking])
    BY <1>2, InChains, Lengths DEF StartStep, Chains, ChainCursor
  <1>4. plan.conclude.arm = {}
    BY DEF Inv, TypeOK, Promise!Plan
  <1>5. Walking = "arm" /\ live.arm = First(live.body.val, live.body.pass)
    BY <1>1, <1>3, <1>4 DEF NothingLeft, StartStep, Runs
  <1> QED BY <1>5 DEF StartStep, Goes

LEMMA SkipUnderHalt ==
  ASSUME Inv, Halted, SkipStep, halt PROVE NothingLeft'
  <1>1. NothingLeft /\ status = "running" /\ ~Runs(Walking)
    BY DEF SkipStep, At, Halted
  <1>2. live[Walking] \in ChainCursor(Walking)
    BY InChains DEF Inv, Held, Walking, TypeOK, Registry, SkipStep, At
  <1>3. ~(live[Walking].i > Length[Walking])
    BY <1>2, InChains, Lengths DEF SkipStep, Chains, ChainCursor
  <1>4. Walking = "arm" /\ live.arm.mark = "next" /\ cut
    BY <1>1, <1>3 DEF NothingLeft, Runs, First
  <1>5. live.arm \in ChainCursor("arm") /\ live.arm # None /\ live \in Registry
    BY <1>2, <1>4 DEF Walking, Inv, TypeOK
  <1> DEFINE c == [live.arm EXCEPT !.i = PastSkipped(@)]
  <1>6. live' = [live EXCEPT !.arm = c] /\ cut' = cut
    BY <1>4 DEF SkipStep, runVars
  <1>7. c.mark = "next"
    BY <1>4, <1>5 DEF ChainCursor
  <1>8. c # None
    <2>1. c.i \in 1..(ArmLen + 1)
      BY <1>3, <1>4, <1>5, Lengths DEF PastSkipped, ChainCursor
    <2>2. c \in ChainCursor("arm")
      BY <1>5, <2>1, Lengths DEF ChainCursor
    <2> QED BY <2>2, CursorIsNotNone DEF Chains
  <1> HIDE DEF c
  <1>9. live'.arm = c
    BY <1>5, <1>6 DEF Registry
  <1> QED BY <1>4, <1>6, <1>7, <1>8, <1>9 DEF NothingLeft, Walking

LEMMA VerbUnderHalt ==
  ASSUME Inv, Inv', Halted, VerbReturns PROVE Halted'
  <1> DEFINE reg == IF Walking # "top" /\ plan.scoped
                      THEN [live EXCEPT !.scope = Append(@, Step)] ELSE live
  <1>1. /\ status = "running" /\ InVerb /\ live.top # None /\ Paired(live)
        /\ live \in Registry /\ UNCHANGED runVars
        /\ Completes(Walking, reg, Append(live[Walking].val, Step))
    BY DEF VerbReturns, At, Inv, Held, Control, TypeOK
  <1>2. Walking # "top" => InBody
    BY <1>1 DEF InVerb, Bare, Walking
  <1>3. /\ reg.top = live.top /\ reg.iter = live.iter /\ reg.body = live.body
        /\ reg.branch = live.branch /\ reg.arm = live.arm
    BY <1>1 DEF Registry
  <1>4. reg \in Registry
    <2>1. CASE Walking # "top" /\ plan.scoped
      <3>1. PassFacts
        BY <1>1, <1>2, <2>1, PassOut
      <3>2. Step \in Promise!Steps
        BY <1>1, <2>1, <3>1, BodyStepTypes, ArmStepTypes, InChains DEF Inv, PassFacts, Chains
      <3>3. live.scope \in Seq(Promise!Steps)
        BY <1>1, <2>1, <3>1 DEF PassFacts, Entered, Registry
      <3>4. Append(live.scope, Step) \in Seq(Promise!Steps)
        BY <3>2, <3>3
      <3>5. reg = [live EXCEPT !.scope = Append(live.scope, Step)]
        BY <1>1, <2>1 DEF Registry
      <3> HIDE DEF reg
      <3> QED BY <1>1, <3>4, <3>5 DEF Registry
    <2> QED BY <1>1, <2>1
  <1> HIDE DEF reg
  <1>5. CASE Walking = "top"
    <2>1. Completes("top", reg, Append(live[Walking].val, Step)) /\ reg["top"] # None
      BY <1>1, <1>3, <1>5
    <2> QED BY <1>1, <1>4, <2>1, HaltedCompletes DEF Chains
  <1>6. CASE Walking = "body"
    <2>1. Completes("body", reg, Append(live[Walking].val, Step)) /\ reg["body"] # None
          /\ reg.iter # None /\ reg.arm = None
      BY <1>1, <1>2, <1>3, <1>6 DEF Walking, InBody
    <2> QED BY <1>1, <1>4, <2>1, HaltedCompletes DEF Chains
  <1>7. CASE Walking = "arm"
    <2>1. Completes("arm", reg, Append(live[Walking].val, Step)) /\ reg["arm"] # None
          /\ reg.iter # None /\ reg.branch # None
      BY <1>1, <1>2, <1>3, <1>7 DEF Walking, InBody, Paired
    <2> QED BY <1>1, <1>4, <2>1, HaltedCompletes DEF Chains
  <1> QED BY <1>5, <1>6, <1>7, InChains DEF Chains

(* A step of the body ends with its branch, or the iterate's step ends. *)
LEMMA EndsUnderHalt ==
  ASSUME Inv, Inv', Halted, ChoosesNone \/ EndArm \/ Merge \/ RescueReturns PROVE Halted'
  <1>1. live \in Registry /\ status = "running" /\ live.top # None /\ UNCHANGED runVars
    BY DEF ChoosesNone, EndArm, Merge, RescueReturns, At, Inv, TypeOK, Held
  <1>2. CASE ChoosesNone
    <2>1. Completes("body", live, live.body.val)
      BY <1>2 DEF ChoosesNone
    <2>2. live["body"] # None /\ live.iter # None /\ live.arm = None
      BY <1>1, <1>2 DEF ChoosesNone, At, Inv, Held, Control, InBranch, InBody
    <2> QED BY <1>1, <2>1, <2>2, HaltedCompletes DEF Chains
  <1>3. CASE EndArm
    <2> DEFINE reg == [live EXCEPT !.branch = None, !.arm = None]
    <2>1. Completes("body", reg, live.arm.val)
      BY <1>3 DEF EndArm
    <2>2. live.body # None /\ live.iter # None
      BY <1>1, <1>3 DEF EndArm, At, Walking, Inv, Held, Control, Bare, InBody
    <2>3. reg \in Registry /\ reg["body"] # None /\ reg.iter # None /\ reg.arm = None
      BY <1>1, <2>2 DEF Registry
    <2> HIDE DEF reg
    <2> QED BY <1>1, <2>1, <2>3, HaltedCompletes DEF Chains
  <1>4. CASE Merge
    <2> DEFINE reg == [live EXCEPT !.iter = None, !.scope = None]
    <2>1. Completes("top", reg, live.iter.carry)
      BY <1>4 DEF Merge
    <2>2. reg \in Registry /\ reg["top"] # None
      BY <1>1 DEF Registry
    <2> HIDE DEF reg
    <2> QED BY <1>1, <2>1, <2>2, HaltedCompletes DEF Chains
  <1>5. CASE RescueReturns
    <2>1. Completes("top", live, root') /\ live["top"] # None
      BY <1>1, <1>5 DEF RescueReturns
    <2> QED BY <1>1, <2>1, HaltedCompletes DEF Chains
  <1> QED BY <1>2, <1>3, <1>4, <1>5

LEMMA ChoosesUnderHalt ==
  ASSUME Inv, Inv', Chooses("then") \/ Chooses("else") PROVE NothingLeft'
  <1> DEFINE c == First(live.body.val, live.body.pass)
  <1>1. /\ live \in Registry /\ live'.arm = c /\ live'.body = live.body /\ live'.branch # None
    <2>1. PICK taken \in {"then", "else"} : Chooses(taken)
      OBVIOUS
    <2>2. PassFacts
      BY <2>1, Undecided DEF Chooses, At
    <2>3. Branch(taken) \in BranchCursor
      BY <2>1, <2>2, PassTypes DEF Branch, BranchCursor
    <2> HIDE DEF c
    <2> QED BY <2>1, <2>3, CursorIsNotNone DEF Chooses, c, Inv, TypeOK, Registry
  <1> HIDE DEF c
  <1>2. live'.arm # None
    BY <1>1 DEF Inv, Held, Paired
  <1>3. live'.arm = First(live'.body.val, live'.body.pass)
    BY <1>1 DEF c
  <1> QED BY <1>2, <1>3 DEF NothingLeft, Walking

(* What goes to another place of the walk than its chain, its branch or its
   iterate leaves nothing to say. *)
LEMMA ElsewhereUnderHalt ==
  ASSUME Halted, UNCHANGED <<status, halt>>, pc' \notin {"chain", "enter", "choose"} PROVE Halted'
  BY DEF Halted

LEMMA StopUnderHalt == ASSUME NEW d, Stop(d) PROVE Halted'
  BY DEF Stop, Halted

LEMMA FailsUnderHalt == ASSUME Halted, NEW d, Fails(d) PROVE Halted'
  BY StopUnderHalt, ElsewhereUnderHalt DEF Fails, Goes, runVars

LEMMA HaltedIsInductive ==
  ASSUME Inv, Inv', Halted, [Next]_vars PROVE Halted'
  <1>1. CASE StartStep
    <2>1. halt => pc' = "verb"
      BY <1>1, StartUnderHalt
    <2> QED BY <1>1, <2>1 DEF StartStep, At, Halted, runVars
  <1>2. CASE SkipStep
    BY <1>2, SkipUnderHalt DEF SkipStep, At, Halted, runVars
  <1>3. CASE VerbReturns
    BY <1>3, VerbUnderHalt
  <1>4. CASE ChoosesNone \/ EndArm \/ Merge \/ RescueReturns
    BY <1>4, EndsUnderHalt
  <1>5. CASE Chooses("then") \/ Chooses("else")
    <2>1. status' = "running" /\ pc' = "chain"
      BY <1>5 DEF Chooses, At, Goes, runVars
    <2> QED BY <1>5, <2>1, ChoosesUnderHalt DEF Halted
  <1>6. CASE TakeArm
    BY <1>6 DEF TakeArm, At, Goes, Halted, runVars
  <1>7. CASE StartPass
    BY <1>7 DEF StartPass, AtHead, At, HaltStops, Halted, runVars
  <1>8. CASE EnterIterate
    BY <1>8 DEF EnterIterate, At, Halted, runVars
  <1>9. CASE VerbStops \/ LoopEnds \/ LoopStops \/ EndPass \/ Until \/ Recheck \/ SaveReturns
    BY <1>9, ElsewhereUnderHalt
       DEF VerbStops, LoopEnds, LoopStops, EndPass, Until, Recheck, SaveReturns, Goes,
           AfterVerdict, runVars
  <1>10. CASE Raises \/ SaveUnacknowledged
    BY <1>10, FailsUnderHalt DEF Raises, SaveUnacknowledged
  <1>11. CASE RescueRaises \/ HaltCommits \/ HaltCommitFails \/ CompletionFails \/ Crash
    BY <1>11, StopUnderHalt
       DEF RescueRaises, HaltCommits, HaltCommitFails, CompletionFails, Crash
  <1>12. CASE Finish
    BY <1>12 DEF Finish, Halted
  <1>13. CASE Checkpoint \/ SetHalt
    BY <1>13 DEF Checkpoint, SetHalt, Awaits, Halted, runVars
  <1>14. CASE Resume
    BY <1>14 DEF Resume, Halted
  <1>15. CASE SetSignal
    BY <1>15 DEF SetSignal, Awaits, Halted
  <1>16. CASE UNCHANGED vars
    BY <1>16 DEF vars, runVars, Halted, NothingLeft, Walking
  <1> QED BY <1>1, <1>2, <1>3, <1>4, <1>5, <1>6, <1>7, <1>8, <1>9, <1>10, <1>11, <1>12, <1>13,
             <1>14, <1>15, <1>16 DEF Next, Walk

(* Only a step that starts goes to a verb. *)
LEMMA VerbStartsInStartStep ==
  ASSUME Next, pc # "verb", pc' = "verb" PROVE StartStep
  BY DEF Next, Walk, SkipStep, VerbReturns, VerbStops, TakeArm, Chooses, ChoosesNone, EndArm,
         EnterIterate, LoopEnds, LoopStops, StartPass, EndPass, Until, Recheck, SaveReturns,
         Merge, Raises, SaveUnacknowledged, RescueReturns, RescueRaises, HaltCommits,
         HaltCommitFails, Finish, CompletionFails, Crash, Resume, Checkpoint, SetHalt,
         SetSignal, Fails, Stop, Completes, Goes, AfterVerdict, At, TopEnds

(* After a halt no step starts but the first of an arm whose branch was
   still being decided (_halt_observer, _halted_after). *)
THEOREM HaltHolds == Spec => HaltStartsNothing
  <1>1. Init => Halted
    BY DEF Init, Halted
  <1>2. Inv /\ Inv' /\ Halted /\ [Next]_vars => Halted'
    BY HaltedIsInductive
  <1>3. Inv /\ Halted /\ [Next]_vars =>
          [(halt /\ pc # "verb" /\ pc' = "verb") =>
             Walking = "arm" /\ live.arm = First(live.body.val, live.body.pass)]_vars
    BY VerbStartsInStartStep, StartUnderHalt
  <1> QED BY <1>1, <1>2, <1>3, InvHolds, PTL DEF Spec, HaltStartsNothing

-----------------------------------------------------------------------------
(* The operators of LinearRun: what comes next after a step. *)

LEMMA PlanTypes ==
  ASSUME TypeOK
  PROVE  /\ plan \in Promise!Plan
         /\ plan.conclude.top \subseteq 1..TopLen /\ plan.conclude.body \subseteq 1..BodyLen
         /\ plan.conclude.arm = {} /\ plan.stop \in Nat \ {0}
  BY DEF TypeOK, Promise!Plan

LEMMA EarliestIs ==
  ASSUME NEW S \in SUBSET Nat, NEW j \in S, \A i \in S : j <= i
  PROVE  Linear!Earliest(S) = j
  <1> DEFINE k == CHOOSE x \in S : \A i \in S : x <= i
  <1>1. k \in S /\ \A i \in S : k <= i
    OBVIOUS
  <1>2. k = j
    <2>1. k <= j /\ j <= k /\ k \in Nat /\ j \in Nat
      BY <1>1
    <2> QED BY <2>1
  <1> QED BY <1>2 DEF Linear!Earliest

(* Of the top chain. *)
LEMMA TopStepNext ==
  ASSUME NEW k \in 0..(TopLen - 1), NEW fast \in BOOLEAN, fast => k + 1 \in plan.conclude.top
  PROVE  Linear!TopStep(k, fast) = k + 1
  <1> DEFINE S == {j \in (k + 1)..TopLen : fast => j \in plan.conclude.top} \cup {TopLen + 1}
  <1>1. k + 1 \in S /\ S \in SUBSET Nat /\ \A i \in S : k + 1 <= i
    OBVIOUS
  <1> HIDE DEF S
  <1>2. Linear!Earliest(S) = k + 1
    BY <1>1, EarliestIs
  <1> QED BY <1>2 DEF Linear!TopStep, S

LEMMA TopStepLast ==
  ASSUME NEW fast \in BOOLEAN PROVE Linear!TopStep(TopLen, fast) = TopLen + 1
  <1> DEFINE S == {j \in (TopLen + 1)..TopLen : fast => j \in plan.conclude.top} \cup {TopLen + 1}
  <1>1. TopLen + 1 \in S /\ S \in SUBSET Nat /\ \A i \in S : TopLen + 1 <= i
    OBVIOUS
  <1> HIDE DEF S
  <1>2. Linear!Earliest(S) = TopLen + 1
    BY <1>1, EarliestIs
  <1> QED BY <1>2 DEF Linear!TopStep, S

LEMMA TopStepSkips ==
  ASSUME NEW k \in 0..(TopLen - 1), k + 1 \notin plan.conclude.top
  PROVE  Linear!TopStep(k, TRUE) = Linear!TopStep(k + 1, TRUE)
  <1>1. {j \in (k + 1)..TopLen : j \in plan.conclude.top}
          = {j \in ((k + 1) + 1)..TopLen : j \in plan.conclude.top}
    OBVIOUS
  <1> QED BY <1>1 DEF Linear!TopStep

LEMMA TopAfterFast == Linear!TopAfter(IterAt - 1, TRUE) = Linear!TopAfter(IterAt, TRUE)
  <1>1. Linear!TopAfter(IterAt, TRUE) = <<Linear!TopStep(IterAt, TRUE), 0, 0, 0>>
    BY DEF Linear!TopAfter
  <1>2. CASE IterAt \in plan.conclude.top
    <2>1. IterAt - 1 \in 0..(TopLen - 1) /\ (IterAt - 1) + 1 = IterAt
      OBVIOUS
    <2>2. Linear!TopStep(IterAt - 1, TRUE) = IterAt
      BY <1>2, <2>1, TopStepNext
    <2> QED BY <1>1, <2>2 DEF Linear!TopAfter
  <1>3. CASE IterAt \notin plan.conclude.top
    <2>1. IterAt - 1 \in 0..(TopLen - 1) /\ (IterAt - 1) + 1 = IterAt
      OBVIOUS
    <2>2. Linear!TopStep(IterAt - 1, TRUE) = Linear!TopStep(IterAt, TRUE)
      BY <1>3, <2>1, TopStepSkips
    <2> QED BY <1>1, <2>2 DEF Linear!TopAfter
  <1> QED BY <1>2, <1>3

(* Of the body. *)
LEMMA OnwardNext ==
  ASSUME NEW p, NEW m \in 0..(BodyLen - 1), NEW fast \in BOOLEAN, m + 1 # BranchAt,
         fast => m + 1 \in plan.conclude.body
  PROVE  Linear!Onward(p, m, fast) = {<<IterAt, p, m + 1, 0>>}
  <1> DEFINE S == {j \in (m + 1)..BodyLen :
                     j # BranchAt /\ (fast => j \in plan.conclude.body)}
  <1>1. m + 1 \in S /\ S \in SUBSET Nat /\ \A i \in S : m + 1 <= i
    OBVIOUS
  <1>2. Linear!Onward(p, m, fast) =
          IF S = {} THEN Linear!PassAfter(p, fast) ELSE {<<IterAt, p, Linear!Earliest(S), 0>>}
    BY DEF Linear!Onward
  <1> HIDE DEF S
  <1>3. Linear!Earliest(S) = m + 1
    BY <1>1, EarliestIs
  <1> QED BY <1>1, <1>2, <1>3

LEMMA OnwardSkips ==
  ASSUME NEW p, NEW m \in 0..(BodyLen - 1), NEW fast \in BOOLEAN,
         m + 1 = BranchAt \/ (fast /\ m + 1 \notin plan.conclude.body)
  PROVE  Linear!Onward(p, m, fast) = Linear!Onward(p, m + 1, fast)
  <1>1. {j \in (m + 1)..BodyLen : j # BranchAt /\ (fast => j \in plan.conclude.body)}
          = {j \in ((m + 1) + 1)..BodyLen : j # BranchAt /\ (fast => j \in plan.conclude.body)}
    OBVIOUS
  <1> QED BY <1>1 DEF Linear!Onward

LEMMA OnwardEnds ==
  ASSUME NEW p, NEW fast \in BOOLEAN
  PROVE  Linear!Onward(p, BodyLen, fast) = Linear!PassAfter(p, fast)
  <1>1. {j \in (BodyLen + 1)..BodyLen : j # BranchAt /\ (fast => j \in plan.conclude.body)} = {}
    OBVIOUS
  <1> QED BY <1>1 DEF Linear!Onward

(* Where no arm can start. *)
LEMMA BodyAfterIs ==
  ASSUME NEW p, NEW m \in 0..BodyLen, NEW fast \in BOOLEAN, fast \/ m + 1 # BranchAt
  PROVE  Linear!BodyAfter(p, m, fast) = Linear!Onward(p, m, fast)
  BY DEF Linear!BodyAfter

(* Past the branch, whether or not an arm could start. *)
LEMMA BranchPassed ==
  ASSUME NEW p, NEW fast \in BOOLEAN, BranchAt # 0, fast \/ ~plan.orelse
  PROVE  Linear!Onward(p, BranchAt, fast) \subseteq Linear!BodyAfter(p, BranchAt - 1, fast)
  <1>1. BranchAt - 1 \in 0..(BodyLen - 1) /\ (BranchAt - 1) + 1 = BranchAt
    OBVIOUS
  <1>2. Linear!Onward(p, BranchAt - 1, fast) = Linear!Onward(p, BranchAt, fast)
    BY <1>1, OnwardSkips
  <1> QED BY <1>1, <1>2 DEF Linear!BodyAfter

(* After a step. *)
LEMMA LastIs ==
  ASSUME NEW S, NEW t \in Seq(S), NEW x \in S PROVE Linear!Last(Append(t, x)) = x
  <1>1. Append(t, x) # <<>> /\ Append(t, x)[Len(Append(t, x))] = x
    OBVIOUS
  <1> QED BY <1>1 DEF Linear!Last

LEMMA AfterTop ==
  ASSUME NEW t \in Seq(Promise!Steps), NEW k, NEW p, <<k, p, 0, 0>> \in Promise!Steps,
         NEW fast
  PROVE  Linear!Successors(Append(t, <<k, p, 0, 0>>), fast) = {Linear!TopAfter(k, fast)}
  <1>1. Linear!Last(Append(t, <<k, p, 0, 0>>)) = <<k, p, 0, 0>>
    BY LastIs
  <1> QED BY <1>1 DEF Linear!Successors

LEMMA AfterBody ==
  ASSUME NEW t \in Seq(Promise!Steps), NEW p, NEW m \in Nat \ {0},
         <<IterAt, p, m, 0>> \in Promise!Steps, NEW fast
  PROVE  Linear!Successors(Append(t, <<IterAt, p, m, 0>>), fast) = Linear!BodyAfter(p, m, fast)
  <1>1. Linear!Last(Append(t, <<IterAt, p, m, 0>>)) = <<IterAt, p, m, 0>>
    BY LastIs
  <1> QED BY <1>1 DEF Linear!Successors

LEMMA AfterArm ==
  ASSUME NEW t \in Seq(Promise!Steps), NEW p, NEW n \in Nat, BranchAt # 0,
         <<IterAt, p, BranchAt, n>> \in Promise!Steps, NEW fast \in BOOLEAN
  PROVE  Linear!Successors(Append(t, <<IterAt, p, BranchAt, n>>), fast) =
           IF ~fast /\ n \notin {0, ArmLen, 2 * ArmLen} THEN {<<IterAt, p, BranchAt, n + 1>>}
           ELSE Linear!Onward(p, BranchAt, fast)
  <1>1. Linear!Last(Append(t, <<IterAt, p, BranchAt, n>>)) = <<IterAt, p, BranchAt, n>>
    BY LastIs
  <1>2. Linear!BodyAfter(p, BranchAt, fast) = Linear!Onward(p, BranchAt, fast)
    <2>1. BranchAt \in 0..BodyLen /\ BranchAt + 1 # BranchAt
      OBVIOUS
    <2> QED BY <2>1, BodyAfterIs
  <1> DEFINE s == <<IterAt, p, BranchAt, n>>
  <1>3. s[1] = IterAt /\ s[2] = p /\ s[3] = BranchAt /\ s[4] = n
    OBVIOUS
  <1> HIDE DEF s
  <1>4. Linear!Last(Append(t, s)) = s
    BY <1>1 DEF s
  <1>5. Linear!Successors(Append(t, s), fast) =
          IF ~fast /\ n \notin {0, ArmLen, 2 * ArmLen} THEN {<<IterAt, p, BranchAt, n + 1>>}
          ELSE Linear!BodyAfter(p, BranchAt, fast)
    BY <1>3, <1>4, ZenonT(30) DEF Linear!Successors
  <1> QED BY <1>2, <1>5 DEF s

-----------------------------------------------------------------------------
(* What a checkpoint knows of the steps to come.  CursorsTrue: of its cursors;
   Ahead: what the walk may do next is what LinearRun allows after the trail;
   Origin: where the trail stands before the iterate and in it. *)

(* A registry's cursors: a step that runs is of its chain, and the verdict of
   an iterate is until's, or open after a pass. *)
CursorsTrue(p) ==
  /\ \A l \in Chains : p[l] # None /\ p[l].mark = "running" => p[l].i <= Length[l]
  /\ p.iter # None =>
       \/ p.iter.done = "unknown" /\ p.iter.pass > 0
       \/ p.iter.done = (IF p.iter.pass >= plan.stop THEN "yes" ELSE "no")

(* What comes next at the head of the loop, before pass p, and anywhere. *)
AtPass(p, fast) ==
  IF p > 0 THEN Linear!PassAfter(p - 1, fast)
  ELSE IF fast THEN {Linear!TopAfter(IterAt, TRUE)} ELSE {<<IterAt, 0, 1, 0>>}

Unstarted(p) == p.body.i = 1 /\ p.body.mark = "next"

Upcoming(d, fast) ==
  LET p == d.parts IN
  IF ~InIterate(d) THEN {Linear!TopAfter(p.top.i - 1, fast)}
  ELSE IF p.iter = None THEN AtPass(0, fast)
  ELSE IF ~InPass(d) \/ Unstarted(p) THEN AtPass(p.iter.pass, fast)
  ELSE IF ~InArm(d) THEN Linear!BodyAfter(p.iter.pass, p.body.i - 1, fast)
  ELSE IF ~fast /\ p.arm.i <= ArmLen THEN {ArmStep(p)}
  ELSE Linear!Onward(p.iter.pass, BranchAt, fast)

Ahead(d) ==
  Running(d) = None =>
    \A fast \in {d.cut, TRUE} : Upcoming(d, fast) \subseteq Linear!Successors(Trail(d), fast)

(* Where the trail stands before the iterate and in it. *)
Origin(d) ==
  LET p == d.parts
      last == Linear!Last(Trail(d))
  IN /\ p.top.i <= IterAt /\ p.top.mark = "next" =>
          \A fast \in {d.cut, TRUE} :
            Linear!TopStep(last[1], fast) = Linear!TopStep(p.top.i - 1, fast)
     /\ InIterate(d) => \/ last[3] > 0
                        \/ \E fast \in {FALSE, d.cut} : Linear!TopStep(last[1], fast) = IterAt
     /\ Before(p) \/ (InIterate(d) /\ (p.iter = None \/ plan.scoped)) =>
          \A i \in DOMAIN d.root : d.root[i][1] < IterAt
     /\ InIterate(d) /\ p.scope # None => \A i \in DOMAIN p.scope : p.scope[i][1] = IterAt

Sound(d) == CursorsTrue(d.parts) /\ Ahead(d) /\ Origin(d)

LEMMA TopStepFixed ==
  ASSUME plan' = plan, NEW k, NEW fast PROVE Linear!TopStep(k, fast)' = Linear!TopStep(k, fast)
  BY DEF Linear!TopStep

LEMMA TopAfterFixed ==
  ASSUME plan' = plan, NEW k, NEW fast PROVE Linear!TopAfter(k, fast)' = Linear!TopAfter(k, fast)
  BY TopStepFixed DEF Linear!TopAfter

LEMMA PassAfterFixed ==
  ASSUME plan' = plan, NEW p, NEW fast PROVE Linear!PassAfter(p, fast)' = Linear!PassAfter(p, fast)
  BY TopAfterFixed DEF Linear!PassAfter

LEMMA OnwardFixed ==
  ASSUME plan' = plan, NEW p, NEW m, NEW fast
  PROVE Linear!Onward(p, m, fast)' = Linear!Onward(p, m, fast)
  BY PassAfterFixed DEF Linear!Onward

LEMMA BodyAfterFixed ==
  ASSUME plan' = plan, NEW p, NEW m, NEW fast
  PROVE Linear!BodyAfter(p, m, fast)' = Linear!BodyAfter(p, m, fast)
  BY OnwardFixed DEF Linear!BodyAfter

LEMMA SuccessorsFixed ==
  ASSUME plan' = plan, NEW t, NEW fast
  PROVE Linear!Successors(t, fast)' = Linear!Successors(t, fast)
  BY TopAfterFixed, BodyAfterFixed DEF Linear!Successors

LEMMA UpcomingFixed ==
  ASSUME plan' = plan, NEW d, NEW fast PROVE Upcoming(d, fast)' = Upcoming(d, fast)
  BY TopAfterFixed, PassAfterFixed, BodyAfterFixed, OnwardFixed DEF Upcoming, AtPass

LEMMA SoundFixed == ASSUME plan' = plan, NEW d PROVE Sound(d)' <=> Sound(d)
  <1>1. CursorsTrue(d.parts)' <=> CursorsTrue(d.parts)
    BY DEF CursorsTrue
  <1>2. Ahead(d)' <=> Ahead(d)
    BY UpcomingFixed, SuccessorsFixed DEF Ahead
  <1>3. Origin(d)' <=> Origin(d)
    <2>1. \A k, fast : Linear!TopStep(k, fast)' = Linear!TopStep(k, fast)
      BY TopStepFixed
    <2>2. plan.scoped' = plan.scoped
      OBVIOUS
    <2> QED BY <2>1, <2>2, Zenon DEF Origin
  <1> QED BY <1>1, <1>2, <1>3 DEF Sound

LEMMA SoundNow == ASSUME plan' = plan, Sound(Snapshot') PROVE Sound(Snapshot)'
  <1> PICK d : d = Snapshot'
      OBVIOUS
  <1>1. Sound(d)
    OBVIOUS
  <1>2. Sound(d)'
    BY <1>1, SoundFixed
  <1> QED BY <1>2

-----------------------------------------------------------------------------
(* What a step of the walk does to the run, and where the walk is. *)

(* What a step does to the run as a checkpoint would see it, d before and e
   after: nothing, or what LinearRun says. *)
Stays(d, e) == e.cut = d.cut /\ Trail(e) = Trail(d) /\ Running(e) = Running(d)
Admits(d, e) ==
  /\ Running(d) = None /\ e.cut = d.cut /\ Trail(e) = Trail(d)
  /\ Running(e) \in Linear!Successors(Trail(d), d.cut) \ {Linear!End}
Does(d, e) ==
  /\ Running(d) # None /\ e.cut = d.cut
  /\ Trail(e) = Append(Trail(d), Running(d)) /\ Running(e) = None
Moves(d, e) == Stays(d, e) \/ Admits(d, e) \/ Does(d, e)

Begun(d) == InPass(d) => ~Unstarted(d.parts)

Turn ==
  /\ Begun(Snapshot) \/ (pc = "chain" /\ ~cut /\ live.body # None)
  /\ pc \in {"again", "until", "recheck", "saving"} => live.iter.pass > 0
  /\ pc = "rescue" => plan.rescue
  /\ pc = "merge" =>
       \A fast \in {cut, TRUE} :
         Linear!TopAfter(IterAt, fast) \in Linear!Successors(Trail(Snapshot), fast)

(* Of a cursor that nothing took, the same as CursorsTrue. *)
KeptTrue ==
  \A l \in Chains : kept[l] # None /\ kept[l].mark = "running" => kept[l].i <= Length[l]

Path == Sound(Snapshot) /\ Turn /\ Sound(disk) /\ Begun(disk) /\ KeptTrue

LEMMA NoneIsNoStep == None \notin Promise!Steps
  OBVIOUS

LEMMA SnapshotSame ==
  ASSUME \A p \in Parts : Capture(p)' = Capture(p), root' = root, cut' = cut
  PROVE  Snapshot' = Snapshot
  BY DEF Snapshot

LEMMA SnapshotStands ==
  ASSUME UNCHANGED <<live, kept, root, cut>> PROVE Snapshot' = Snapshot
  BY DEF Snapshot, Capture

LEMMA SameMoves == \A d : Moves(d, d)
  BY DEF Moves, Stays

(* The trail and the place of the run in the iterate stay. *)
LEMMA OriginKept ==
  ASSUME NEW d, NEW e, Origin(d), InIterate(d), InIterate(e), e.cut = d.cut,
         Trail(e) = Trail(d), e.root = d.root,
         e.parts.scope = d.parts.scope \/ e.parts.scope = <<>>,
         d.parts.iter = None \/ e.parts.iter # None
  PROVE  Origin(e)
  <1>1. ~Before(e.parts) /\ ~(e.parts.top.mark = "next")
    BY DEF InIterate, Before
  <1>2. InIterate(e) => \/ Linear!Last(Trail(e))[3] > 0
                        \/ \E fast \in {FALSE, e.cut} :
                             Linear!TopStep(Linear!Last(Trail(e))[1], fast) = IterAt
    BY DEF Origin
  <1>3. InIterate(e) /\ (e.parts.iter = None \/ plan.scoped) =>
          \A i \in DOMAIN e.root : e.root[i][1] < IterAt
    BY DEF Origin
  <1>4. e.parts.scope # None => \A i \in DOMAIN e.parts.scope : e.parts.scope[i][1] = IterAt
    BY DEF Origin
  <1> QED BY <1>1, <1>2, <1>3, <1>4 DEF Origin

(* The top chain is at its next step. *)
LEMMA TopArrives ==
  ASSUME NEW e, NEW k \in Nat, e.parts.top.mark = "next", e.parts.top.i = k + 1,
         CursorsTrue(e.parts),
         \A fast \in {e.cut, TRUE} :
           Linear!TopAfter(k, fast) \in Linear!Successors(e.root, fast),
         k + 1 <= IterAt =>
           /\ \A fast \in {e.cut, TRUE} :
                Linear!TopStep(Linear!Last(e.root)[1], fast) = Linear!TopStep(k, fast)
           /\ \A i \in DOMAIN e.root : e.root[i][1] < IterAt
  PROVE  Sound(e) /\ Running(e) = None /\ Trail(e) = e.root
  <1>1. ~InIterate(e) /\ (e.parts.top.i - 1 = k)
    BY DEF InIterate
  <1>2. Running(e) = None /\ Trail(e) = e.root
    BY <1>1 DEF Running, Trail
  <1>3. Ahead(e)
    BY <1>1, <1>2 DEF Ahead, Upcoming
  <1>4. Origin(e)
    <2>1. e.parts.top.i <= IterAt => k + 1 <= IterAt
      OBVIOUS
    <2>2. Before(e.parts) => k + 1 <= IterAt
      BY DEF Before
    <2>3. CASE k + 1 <= IterAt
      <3>1. \A fast \in {e.cut, TRUE} :
              Linear!TopStep(Linear!Last(Trail(e))[1], fast)
                = Linear!TopStep(e.parts.top.i - 1, fast)
        BY <1>1, <1>2, <2>3
      <3> QED BY <1>1, <2>3, <3>1 DEF Origin
    <2>4. CASE ~(k + 1 <= IterAt)
      BY <1>1, <2>1, <2>2, <2>4 DEF Origin
    <2> QED BY <2>3, <2>4
  <1> QED BY <1>2, <1>3, <1>4 DEF Sound

(* The cursors of the run where it is in a pass, and between two passes. *)
PassPlace == Inv /\ status = "running" /\ InBody
PassSeen ==
  /\ Snapshot.parts.top = live.top /\ Snapshot.parts.iter = live.iter
  /\ Snapshot.parts.body = live.body /\ Snapshot.parts.scope = live.scope
  /\ Snapshot.parts.arm = Capture("arm") /\ Snapshot.parts.branch = Capture("branch")
  /\ Snapshot.root = root /\ Snapshot.cut = cut
  /\ InIterate(Snapshot) /\ InPass(Snapshot) /\ Trail(Snapshot) = Here /\ live.iter # None
  /\ live.arm # None =>
       Snapshot.parts.arm = live.arm /\ Snapshot.parts.branch = live.branch /\ InArm(Snapshot)
  /\ live.arm = None =>
       (InArm(Snapshot) <=> kept.arm # None /\ kept.arm.pass >= live.iter.pass)

LEMMA PassSees == PassPlace => PassFacts /\ PassSeen /\ Numbers
  <1> SUFFICES ASSUME PassPlace PROVE PassFacts /\ PassSeen /\ Numbers
      OBVIOUS
  <1>1. PassFacts
    BY PassOut DEF PassPlace
  <1>2. Numbers
    BY NumbersHold DEF PassPlace, Inv, TypeOK
  <1>3. /\ Snapshot.parts.top = live.top /\ Snapshot.parts.iter = live.iter
        /\ Snapshot.parts.body = live.body /\ Snapshot.parts.scope = live.scope
        /\ Snapshot.parts.arm = Capture("arm") /\ Snapshot.parts.branch = Capture("branch")
        /\ Snapshot.root = root /\ Snapshot.cut = cut
    BY <1>1, Captured DEF Capture, PassFacts, InBody, Emptied
  <1>4. InIterate(Snapshot) /\ InPass(Snapshot) /\ live.iter # None
    BY <1>1, <1>3 DEF PassFacts, InBody, Inside, InIterate, InPass
  <1>5. Trail(Snapshot) = Here
    BY <1>1, <1>3, <1>4 DEF Trail, Here, PassFacts, Entered
  <1>6. live.arm # None =>
          Snapshot.parts.arm = live.arm /\ Snapshot.parts.branch = live.branch /\ InArm(Snapshot)
    BY <1>1, <1>3, <1>4 DEF InArm, Capture, PassFacts, InBody, Paired
  <1>7. live.arm = None =>
          (InArm(Snapshot) <=> kept.arm # None /\ kept.arm.pass >= live.iter.pass)
    BY <1>1, <1>2, <1>3, <1>4 DEF InArm, Capture, PassFacts, InBody, Numbers
  <1> QED BY <1>1, <1>2, <1>3, <1>4, <1>5, <1>6, <1>7 DEF PassSeen

LEMMA PassSeesNext == PassPlace' => PassFacts' /\ PassSeen' /\ Numbers'
  BY PassSees, PTL

LoopPlace == Inv /\ status = "running" /\ InLoop
LoopSeen ==
  /\ Snapshot.parts.top = live.top /\ Snapshot.parts.iter = live.iter
  /\ Snapshot.parts.body = kept.body /\ Snapshot.parts.scope = live.scope
  /\ Snapshot.parts.arm = kept.arm /\ Snapshot.parts.branch = kept.branch
  /\ Snapshot.root = root /\ Snapshot.cut = cut
  /\ InIterate(Snapshot) /\ Trail(Snapshot) = Here /\ live.iter # None
  /\ InPass(Snapshot) <=> SavedPass

LEMMA LoopSees == LoopPlace => LoopFacts /\ LoopSeen /\ Numbers
  <1> SUFFICES ASSUME LoopPlace PROVE LoopFacts /\ LoopSeen /\ Numbers
      OBVIOUS
  <1>1. LoopFacts
    BY LoopOut DEF LoopPlace
  <1>2. Numbers
    BY NumbersHold DEF LoopPlace, Inv, TypeOK
  <1>3. /\ Snapshot.parts.top = live.top /\ Snapshot.parts.iter = live.iter
        /\ Snapshot.parts.body = kept.body /\ Snapshot.parts.scope = live.scope
        /\ Snapshot.parts.arm = kept.arm /\ Snapshot.parts.branch = kept.branch
        /\ Snapshot.root = root /\ Snapshot.cut = cut
    BY <1>1, Captured DEF Capture, LoopFacts, InLoop, Emptied, Paired
  <1>4. InIterate(Snapshot) /\ live.iter # None /\ (InPass(Snapshot) <=> SavedPass)
    BY <1>1, <1>3 DEF LoopFacts, InLoop, Inside, InIterate, InPass, SavedPass
  <1>5. Trail(Snapshot) = Here
    BY <1>1, <1>3, <1>4 DEF Trail, Here, LoopFacts, Entered
  <1> QED BY <1>1, <1>2, <1>3, <1>4, <1>5 DEF LoopSeen

LEMMA LoopSeesNext == LoopPlace' => LoopFacts' /\ LoopSeen' /\ Numbers'
  BY LoopSees, PTL

-----------------------------------------------------------------------------
(* A step of a chain starts. *)

(* A step of the walk keeps the path, and is one of the moves or none. *)
Leads == Sound(Snapshot') /\ Moves(Snapshot, Snapshot') /\ Turn'

LEMMA Stands == ASSUME Path, Snapshot' = Snapshot PROVE Sound(Snapshot') /\ Moves(Snapshot, Snapshot')
  BY SameMoves DEF Path

InRound == {"again", "until", "recheck", "saving"}

LEMMA TurnAt ==
  ASSUME plan' = plan,
         Begun(Snapshot') \/ (pc' = "chain" /\ ~cut' /\ live'.body # None),
         pc' \in InRound => live'.iter.pass > 0, pc' = "rescue" => plan.rescue,
         pc' = "merge" => \A fast \in {cut', TRUE} :
           Linear!TopAfter(IterAt, fast) \in Linear!Successors(Trail(Snapshot'), fast)
  PROVE  Turn'
  <1> PICK d : d = Snapshot'
      OBVIOUS
  <1>1. Begun(Snapshot)' <=> Begun(Snapshot')
    BY DEF Begun, InPass, Unstarted
  <1>2. Trail(Snapshot)' = Trail(d)
    BY DEF Trail, InIterate
  <1>3. \A fast : /\ Linear!TopAfter(IterAt, fast)' = Linear!TopAfter(IterAt, fast)
                  /\ Linear!Successors(Trail(d), fast)' = Linear!Successors(Trail(d), fast)
    BY TopAfterFixed, SuccessorsFixed
  <1> QED BY <1>1, <1>2, <1>3 DEF Turn, InRound

LEMMA TurnElsewhere ==
  ASSUME plan' = plan, Begun(Snapshot'), pc' \notin InRound \cup {"merge", "rescue"} PROVE Turn'
  BY TurnAt

(* The chain that walks moves its cursor. *)
LEMMA ChainMoves ==
  ASSUME Inv, status = "running", NEW c, c # None, live' = [live EXCEPT ![Walking] = c],
         UNCHANGED <<kept, root, cut>>
  PROVE  /\ live[Walking] # None /\ live[Walking] \in ChainCursor(Walking)
         /\ Snapshot.parts[Walking] = live[Walking] /\ Snapshot'.parts[Walking] = c
         /\ \A p \in Parts \ {Walking} :
              live'[p] = live[p] /\ Snapshot'.parts[p] = Snapshot.parts[p]
         /\ live'[Walking] = c
         /\ Snapshot'.root = Snapshot.root /\ Snapshot'.cut = Snapshot.cut
  <1>1. live[Walking] # None /\ live \in Registry
    BY DEF Inv, TypeOK, Held, Walking
  <1>2. live[Walking] \in ChainCursor(Walking)
    BY <1>1 DEF Walking, Registry
  <1>3. Walking \in Parts /\ DOMAIN live = Parts
    BY <1>1, PartsAre DEF Walking, Registry
  <1>4. live'[Walking] = c /\ \A p \in Parts \ {Walking} : live'[p] = live[p]
    BY <1>3
  <1>5. \A p \in Parts : /\ Snapshot.parts[p] = (IF live[p] # None THEN live[p] ELSE kept[p])
                         /\ Snapshot'.parts[p] = (IF live'[p] # None THEN live'[p] ELSE kept'[p])
    BY DEF Snapshot, Capture
  <1> QED BY <1>1, <1>2, <1>3, <1>4, <1>5 DEF Snapshot

(* A step starts: what a checkpoint saved as running is not started anew. *)
StartFacts(c) ==
  /\ status = "running" /\ pc = "chain" /\ live[Walking].i <= Length[Walking]
  /\ Runs(Walking) /\ UNCHANGED <<plan, kept, root, cut, disk>>
  /\ live' = [live EXCEPT ![Walking] = c]
  /\ c.mark = "running" /\ c.i = live[Walking].i /\ c.pass = live[Walking].pass /\ c # None
  /\ pc' \in {"enter", "choose", "verb"}
  /\ Bare(live) \/ InBody

LEMMA StartIs ==
  ASSUME Inv, StartStep
  PROVE  StartFacts([live[Walking] EXCEPT !.mark = "running"])
  <1>1. /\ status = "running" /\ pc = "chain" /\ live[Walking].i <= Length[Walking]
        /\ Runs(Walking) /\ UNCHANGED <<plan, kept, root, cut, disk>>
        /\ live' = [live EXCEPT ![Walking].mark = "running"]
        /\ pc' = CASE Walking = "top" /\ live.top.i = IterAt -> "enter"
                   [] Walking = "body" /\ live.body.i = BranchAt -> "choose"
                   [] OTHER -> "verb"
    BY DEF StartStep, At, Goes, runVars
  <1>2. Bare(live) \/ InBody
    BY <1>1 DEF Inv, Held, Control
  <1>3. live[Walking] # None /\ live \in Registry
    BY <1>1 DEF Inv, TypeOK, Held, Walking
  <1>4. live[Walking] \in ChainCursor(Walking) /\ Walking \in DOMAIN live
    BY <1>3 DEF Walking, Registry
  <1> DEFINE c == [live[Walking] EXCEPT !.mark = "running"]
  <1>5. c \in ChainCursor(Walking) /\ c.mark = "running" /\ c.i = live[Walking].i
        /\ c.pass = live[Walking].pass
    BY <1>4 DEF ChainCursor
  <1>6. live' = [live EXCEPT ![Walking] = c]
    BY <1>1, <1>4
  <1>7. c # None
    BY <1>5, InChains, CursorIsNotNone
  <1>8. pc' \in {"enter", "choose", "verb"}
    BY <1>1
  <1> QED BY <1>1, <1>2, <1>5, <1>6, <1>7, <1>8 DEF StartFacts

LEMMA RestartStays ==
  ASSUME Inv, StartStep, live[Walking].mark = "running" PROVE Snapshot' = Snapshot
  <1>1. StartFacts([live[Walking] EXCEPT !.mark = "running"])
    BY StartIs
  <1>2. live[Walking] \in ChainCursor(Walking) /\ live \in Registry
    BY <1>1 DEF StartFacts, Inv, TypeOK, Held, Walking, Registry
  <1>3. [live[Walking] EXCEPT !.mark = "running"] = live[Walking]
    BY <1>2 DEF ChainCursor
  <1>4. live' = live
    BY <1>1, <1>2, <1>3 DEF StartFacts, Registry
  <1> QED BY <1>1, <1>4, SnapshotStands DEF StartFacts

(* What a moved cursor leaves true of the cursors. *)
LEMMA CursorsMoved ==
  ASSUME NEW l \in Chains, NEW d, NEW e, CursorsTrue(d.parts),
         \A p \in Parts \ {l} : e.parts[p] = d.parts[p],
         e.parts[l].mark = "running" => e.parts[l].i <= Length[l]
  PROVE  CursorsTrue(e.parts)
  BY PartsAre DEF CursorsTrue, Chains

LEMMA StartTop ==
  ASSUME Inv, Path, NEW c, StartFacts(c), Walking = "top", live.top.mark # "running"
  PROVE  Leads
  <1>1. /\ Bare(live) /\ live.top \in ChainCursor("top") /\ live.top.mark = "next"
        /\ live.top.i \in 1..TopLen /\ plan \in Plans /\ cut \in BOOLEAN
    BY Lengths DEF StartFacts, Walking, InBody, Inv, Held, TypeOK, Registry, ChainCursor
  <1>2. /\ Snapshot.parts.top = live.top /\ Snapshot'.parts.top = c
        /\ \A p \in Parts \ {"top"} : Snapshot'.parts[p] = Snapshot.parts[p]
        /\ Snapshot'.root = Snapshot.root /\ Snapshot'.cut = Snapshot.cut
        /\ live'.body = live.body
    BY ChainMoves, PartsAre DEF StartFacts
  <1>3. /\ c.mark = "running" /\ c.i = live.top.i /\ live.top.i <= TopLen
        /\ (cut => live.top.i \in plan.conclude.top) /\ Snapshot.cut = cut
        /\ pc' \in {"enter", "choose", "verb"} /\ plan' = plan
    BY <1>1, Lengths, Captured DEF StartFacts, Runs
  <1>4. Sound(Snapshot)
    BY DEF Path
  <1>5. CursorsTrue(Snapshot'.parts)
    <2>1. "top" \in Chains /\ Snapshot'.parts["top"].i <= Length["top"]
      BY <1>2, <1>3, Lengths DEF Chains
    <2>2. CursorsTrue(Snapshot.parts)
      BY <1>4 DEF Sound
    <2> QED BY <1>2, <2>1, <2>2, CursorsMoved
  <1>6. ~InIterate(Snapshot) /\ Trail(Snapshot) = Snapshot.root /\ Running(Snapshot) = None
    BY <1>1, <1>2 DEF InIterate, Trail, Running
  <1>7. Linear!TopStep(live.top.i - 1, cut) = live.top.i
    <2>1. live.top.i - 1 \in 0..(TopLen - 1) /\ (live.top.i - 1) + 1 = live.top.i
      BY <1>1
    <2> QED BY <1>1, <1>3, <2>1, TopStepNext
  <1>8. \A fast \in {cut, TRUE} :
          Linear!TopAfter(live.top.i - 1, fast) \in Linear!Successors(Snapshot.root, fast)
    BY <1>2, <1>3, <1>4, <1>6 DEF Sound, Ahead, Upcoming
  <1>9. Turn'
    <2>1. Begun(Snapshot)
      BY <1>1 DEF Path, Turn, Bare
    <2>2. Begun(Snapshot')
      BY <1>2, <2>1, PartsAre DEF Begun, InPass, Unstarted
    <2> QED BY <1>3, <2>2, TurnElsewhere DEF InRound
  <1>10. CASE live.top.i # IterAt
    <2>1. ~InIterate(Snapshot') /\ Trail(Snapshot') = Snapshot.root
          /\ Running(Snapshot') = <<live.top.i, 0, 0, 0>>
      BY <1>2, <1>3, <1>10 DEF InIterate, Trail, Running
    <2>2. <<live.top.i, 0, 0, 0>> \in Promise!Steps
      BY <1>1, <1>10 DEF Promise!Steps
    <2>3. Linear!TopAfter(live.top.i - 1, cut) = <<live.top.i, 0, 0, 0>>
      BY <1>7, <1>10 DEF Linear!TopAfter
    <2>4. <<live.top.i, 0, 0, 0>> # Linear!End
      BY <1>1 DEF Linear!End
    <2>5. Admits(Snapshot, Snapshot')
      BY <1>2, <1>3, <1>6, <1>8, <2>1, <2>3, <2>4 DEF Admits
    <2>6. Ahead(Snapshot')
      BY <2>1, <2>2, NoneIsNoStep DEF Ahead
    <2>7. Origin(Snapshot')
      <3>1. ~(Snapshot'.parts.top.mark = "next")
        BY <1>2, <1>3
      <3>2. Before(Snapshot'.parts) => Before(Snapshot.parts)
        BY <1>2, <1>3 DEF Before
      <3>3. Before(Snapshot.parts) => \A i \in DOMAIN Snapshot.root : Snapshot.root[i][1] < IterAt
        BY <1>4 DEF Sound, Origin
      <3> QED BY <1>2, <2>1, <3>1, <3>2, <3>3 DEF Origin
    <2> QED BY <1>5, <1>9, <2>5, <2>6, <2>7 DEF Leads, Sound, Moves
  <1>11. CASE live.top.i = IterAt
    <2>1. Bare(Snapshot.parts) /\ Before(Snapshot.parts)
      BY <1>1, <1>2, <1>11 DEF Inv, Good, Shape, Before
    <2>2. Bare(Snapshot'.parts)
      BY <1>2, <2>1, PartsAre DEF Bare
    <2>3. InIterate(Snapshot') /\ Trail(Snapshot') = Snapshot.root /\ Running(Snapshot') = None
      BY <1>2, <1>3, <1>11, <2>2 DEF InIterate, Trail, Running, Bare, InPass
    <2>4. Stays(Snapshot, Snapshot')
      BY <1>2, <1>6, <2>3 DEF Stays
    <2>5. Ahead(Snapshot')
      <3>1. ASSUME NEW fast \in {cut, TRUE}
            PROVE  Upcoming(Snapshot', fast) \subseteq Linear!Successors(Snapshot.root, fast)
        <4>1. Upcoming(Snapshot', fast) =
                IF fast THEN {Linear!TopAfter(IterAt, TRUE)} ELSE {<<IterAt, 0, 1, 0>>}
          BY <2>2, <2>3 DEF Upcoming, AtPass, Bare
        <4>2. CASE fast
          BY <1>8, <1>11, <4>1, <4>2, TopAfterFast
        <4>3. CASE ~fast
          <5>1. fast = FALSE /\ cut = FALSE
            BY <1>1, <4>3
          <5>2. Linear!TopAfter(IterAt - 1, FALSE) = <<IterAt, 0, 1, 0>>
            BY <1>7, <1>11, <5>1 DEF Linear!TopAfter
          <5> QED BY <1>8, <1>11, <4>1, <5>1, <5>2
        <4> QED BY <4>2, <4>3
      <3> QED BY <1>2, <1>3, <2>3, <3>1 DEF Ahead
    <2>6. Origin(Snapshot')
      <3>1. Linear!TopStep(Linear!Last(Snapshot.root)[1], cut) = IterAt
        <4>1. \A fast \in {cut, TRUE} :
                Linear!TopStep(Linear!Last(Snapshot.root)[1], fast)
                  = Linear!TopStep(live.top.i - 1, fast)
          <5>1. Origin(Snapshot)
            BY <1>4 DEF Sound
          <5>2. Snapshot.parts.top.i <= IterAt /\ Snapshot.parts.top.mark = "next"
            BY <1>1, <1>2, <1>11
          <5>3. \A fast \in {Snapshot.cut, TRUE} :
                  Linear!TopStep(Linear!Last(Trail(Snapshot))[1], fast)
                    = Linear!TopStep(Snapshot.parts.top.i - 1, fast)
            BY <5>1, <5>2, Zenon DEF Origin
          <5> QED BY <1>2, <1>3, <1>6, <5>3
        <4> QED BY <1>7, <1>11, <4>1
      <3>2. \A i \in DOMAIN Snapshot.root : Snapshot.root[i][1] < IterAt
        BY <1>4, <2>1 DEF Sound, Origin
      <3>3. Snapshot'.parts.top.mark # "next" /\ Snapshot'.parts.scope = None
        BY <1>2, <1>3, <2>2 DEF Bare
      <3>4. Snapshot'.cut = cut
        BY <1>2, <1>3
      <3>5. \E fast \in {FALSE, Snapshot'.cut} :
              Linear!TopStep(Linear!Last(Trail(Snapshot'))[1], fast) = IterAt
        BY <2>3, <3>1, <3>4
      <3>6. \A i \in DOMAIN Snapshot'.root : Snapshot'.root[i][1] < IterAt
        BY <1>2, <3>2
      <3> QED BY <3>3, <3>5, <3>6 DEF Origin
    <2> QED BY <1>5, <1>9, <2>4, <2>5, <2>6 DEF Leads, Sound, Moves
  <1> QED BY <1>10, <1>11

-----------------------------------------------------------------------------
(* The same where the walk is in a pass, or between two of them. *)

LEMMA PassSeenAfter ==
  ASSUME PassPlace'
  PROVE  /\ PassFacts' /\ Numbers'
         /\ Snapshot'.parts.top = live'.top /\ Snapshot'.parts.iter = live'.iter
         /\ Snapshot'.parts.body = live'.body /\ Snapshot'.parts.scope = live'.scope
         /\ Snapshot'.parts.arm = Capture("arm")' /\ Snapshot'.parts.branch = Capture("branch")'
         /\ Snapshot'.root = root' /\ Snapshot'.cut = cut'
         /\ InIterate(Snapshot') /\ InPass(Snapshot') /\ Trail(Snapshot') = Here'
         /\ live'.iter # None
         /\ live'.arm # None =>
              /\ Snapshot'.parts.arm = live'.arm /\ Snapshot'.parts.branch = live'.branch
              /\ InArm(Snapshot')
         /\ live'.arm = None =>
              (InArm(Snapshot') <=> kept'.arm # None /\ kept'.arm.pass >= live'.iter.pass)
  <1>1. PassFacts' /\ PassSeen' /\ Numbers'
    BY PassSeesNext
  <1>2. /\ InIterate(Snapshot)' <=> InIterate(Snapshot')
        /\ InPass(Snapshot)' <=> InPass(Snapshot')
        /\ InArm(Snapshot)' <=> InArm(Snapshot')
        /\ Trail(Snapshot)' = Trail(Snapshot')
    BY DEF InIterate, InPass, InArm, Trail
  <1> QED BY <1>1, <1>2 DEF PassSeen

LEMMA LoopSeenAfter ==
  ASSUME LoopPlace'
  PROVE  /\ LoopFacts' /\ Numbers'
         /\ Snapshot'.parts.top = live'.top /\ Snapshot'.parts.iter = live'.iter
         /\ Snapshot'.parts.body = kept'.body /\ Snapshot'.parts.scope = live'.scope
         /\ Snapshot'.parts.arm = kept'.arm /\ Snapshot'.parts.branch = kept'.branch
         /\ Snapshot'.root = root' /\ Snapshot'.cut = cut'
         /\ InIterate(Snapshot') /\ Trail(Snapshot') = Here' /\ live'.iter # None
         /\ InPass(Snapshot') <=> SavedPass'
  <1>1. LoopFacts' /\ LoopSeen' /\ Numbers'
    BY LoopSeesNext
  <1>2. /\ InIterate(Snapshot)' <=> InIterate(Snapshot')
        /\ InPass(Snapshot)' <=> InPass(Snapshot')
        /\ Trail(Snapshot)' = Trail(Snapshot')
    BY DEF InIterate, InPass, Trail
  <1> QED BY <1>1, <1>2 DEF LoopSeen

(* A step in the iterate that does no work. *)
LEMMA IdleOrigin ==
  ASSUME Path, PassPlace \/ LoopPlace, (PassPlace \/ LoopPlace)',
         UNCHANGED <<plan, root, cut>>, live'.scope = live.scope
  PROVE  /\ Origin(Snapshot') /\ Trail(Snapshot') = Trail(Snapshot) /\ Trail(Snapshot) = Here
         /\ Snapshot'.cut = Snapshot.cut /\ Snapshot.cut = cut
  <1>1. /\ InIterate(Snapshot) /\ Trail(Snapshot) = Here /\ Snapshot.cut = cut
        /\ Snapshot.root = root /\ Snapshot.parts.scope = live.scope
    BY PassSees, LoopSees DEF PassSeen, LoopSeen
  <1>2. /\ InIterate(Snapshot') /\ Trail(Snapshot') = Here' /\ Snapshot'.cut = cut'
        /\ Snapshot'.root = root' /\ Snapshot'.parts.scope = live'.scope
        /\ Snapshot'.parts.iter # None
    <2>1. CASE PassPlace'
      BY <2>1, PassSeenAfter
    <2>2. CASE LoopPlace'
      BY <2>2, LoopSeenAfter
    <2> QED BY <2>1, <2>2
  <1>3. Here' = Here
    BY DEF Here
  <1>4. Origin(Snapshot)
    BY DEF Path, Sound
  <1> QED BY <1>1, <1>2, <1>3, <1>4, OriginKept

(* Where a pass is, in the chains of the program. *)
LEMMA PassNumbers ==
  ASSUME PassPlace
  PROVE  /\ live.body \in ChainCursor("body") /\ live.body # None /\ live.iter \in IterCursor
         /\ live.iter.pass \in 0..(MaxIters - 1) /\ live.body.pass = live.iter.pass
         /\ live.iter.done = "no" /\ live.body.i \in 1..(BodyLen + 1)
         /\ live.top.i = IterAt /\ live.top.mark = "running"
         /\ plan \in Plans /\ cut \in BOOLEAN
         /\ live.arm # None =>
              /\ live.arm \in ChainCursor("arm") /\ live.arm.pass = live.iter.pass
              /\ live.arm.i \in 1..(ArmLen + 1) /\ Branching(live.body)
              /\ live.branch # None /\ live.branch \in BranchCursor
         /\ live.arm = None /\ ~Branching(live.body) => ~InArm(Snapshot)
  <1>1. PassFacts /\ PassSeen /\ Numbers
    BY PassSees
  <1>2. /\ live.body \in ChainCursor("body") /\ live.iter \in IterCursor
        /\ live.arm # None => live.arm \in ChainCursor("arm")
        /\ live.branch # None => live.branch \in BranchCursor
        /\ plan \in Plans /\ cut \in BOOLEAN
    BY <1>1 DEF PassPlace, Inv, TypeOK, Registry, InBody
  <1>3. live.iter.pass \in 0..(MaxIters - 1) /\ live.body.i \in 1..(BodyLen + 1)
        /\ live.body.pass = live.iter.pass
    BY <1>1, <1>2, Lengths DEF PassFacts, InBody, IterCursor, ChainCursor
  <1>4. live.arm # None =>
          /\ live.arm \in ChainCursor("arm") /\ live.arm.pass = live.iter.pass
          /\ live.arm.i \in 1..(ArmLen + 1) /\ Branching(live.body)
          /\ live.branch # None
    BY <1>1, <1>2, Lengths DEF PassFacts, InBody, ChainCursor, Paired
  <1>5. live.arm = None /\ ~Branching(live.body) => ~InArm(Snapshot)
    BY <1>1 DEF PassSeen, PassFacts
  <1> QED BY <1>1, <1>2, <1>3, <1>4, <1>5 DEF PassFacts, InBody, Inside

(* The pass under way is one that until and max_iters left to run. *)
LEMMA PassBelow ==
  ASSUME NEW p, NEW iter \in IterCursor, p.iter = iter, iter # None, CursorsTrue(p), iter.done = "no",
         plan.stop \in Nat
  PROVE  iter.pass < plan.stop
  BY DEF CursorsTrue, IterCursor

-----------------------------------------------------------------------------
(* A chain of a pass starts a step. *)

LEMMA RunningInPass ==
  ASSUME NEW e, InIterate(e), InPass(e)
  PROVE  Running(e) =
           IF e.parts.body.mark # "running" THEN None
           ELSE IF e.parts.body.i # BranchAt THEN <<IterAt, e.parts.body.pass, e.parts.body.i, 0>>
           ELSE IF InArm(e) /\ e.parts.arm.mark = "running" THEN ArmStep(e.parts) ELSE None
  BY DEF Running, InIterate

LEMMA UpcomingInPass ==
  ASSUME NEW e, NEW fast, InIterate(e), InPass(e)
  PROVE  Upcoming(e, fast) =
           IF Unstarted(e.parts) THEN AtPass(e.parts.iter.pass, fast)
           ELSE IF ~InArm(e) THEN Linear!BodyAfter(e.parts.iter.pass, e.parts.body.i - 1, fast)
           ELSE IF ~fast /\ e.parts.arm.i <= ArmLen THEN {ArmStep(e.parts)}
           ELSE Linear!Onward(e.parts.iter.pass, BranchAt, fast)
  BY DEF Upcoming, InPass

(* The steps of a pass are of the program, and not its end. *)
LEMMA BodyIsStep ==
  ASSUME NEW p \in 0..(MaxIters - 1), NEW m \in (1..BodyLen) \ {BranchAt}
  PROVE  <<IterAt, p, m, 0>> \in Promise!Steps /\ <<IterAt, p, m, 0>> # Linear!End
  BY DEF Promise!Steps, Linear!End

LEMMA ArmIsStep ==
  ASSUME NEW p \in 0..(MaxIters - 1), NEW n \in 1..(2 * ArmLen)
  PROVE  <<IterAt, p, BranchAt, n>> \in Promise!Steps /\ <<IterAt, p, BranchAt, n>> # Linear!End
  BY DEF Promise!Steps, Linear!End

(* What comes first in a pass. *)
LEMMA PassBegins ==
  ASSUME NEW p \in 0..(MaxIters - 1), p < plan.stop, plan.stop \in Nat
  PROVE  <<IterAt, p, 1, 0>> \in AtPass(p, FALSE)
  <1>1. CASE p = 0
    BY <1>1 DEF AtPass
  <1>2. CASE p # 0
    <2>1. p > 0 /\ (p - 1) + 1 = p /\ ~(p >= MaxIters) /\ ~(p >= plan.stop)
      BY <1>2
    <2> QED BY <2>1 DEF AtPass, Linear!PassAfter
  <1> QED BY <1>1, <1>2

LEMMA StartBody ==
  ASSUME Inv, Path, StartStep, NEW c, StartFacts(c), Walking = "body",
         live.body.mark # "running"
  PROVE  Leads
  <1>1. /\ PassPlace /\ live.arm = None /\ live.body.mark = "next"
        /\ UNCHANGED runVars
    BY DEF StartFacts, Walking, Bare, PassPlace, StartStep, Inv, TypeOK, Registry, ChainCursor,
           InBody
  <1>2. /\ live'.body = c /\ \A p \in Parts \ {"body"} : live'[p] = live[p]
        /\ \A p \in Parts \ {"body"} : Snapshot'.parts[p] = Snapshot.parts[p]
        /\ Snapshot'.parts["body"] = c
    BY <1>1, ChainMoves DEF StartFacts
  <1>3. /\ live'.top = live.top /\ live'.iter = live.iter /\ live'.scope = live.scope
        /\ live'.arm = None
        /\ c.i = live.body.i /\ c.pass = live.body.pass /\ c.mark = "running" /\ c # None
        /\ live.body.i <= BodyLen /\ (cut => live.body.i \in plan.conclude.body)
        /\ pc' \in {"enter", "choose", "verb"} /\ UNCHANGED <<plan, root, cut, kept>>
    BY <1>1, <1>2, PartsAre, Lengths DEF StartFacts, Runs
  <1>4. PassPlace'
    <2>1. Inv'
      BY InvIsInductive DEF Next, Walk
    <2> QED BY <1>1, <1>2, <1>3, <2>1 DEF PassPlace, InBody, Inside, runVars
  <1>5. /\ Origin(Snapshot') /\ Trail(Snapshot') = Trail(Snapshot)
        /\ Snapshot'.cut = Snapshot.cut /\ Snapshot.cut = cut
    BY <1>1, <1>3, <1>4, IdleOrigin
  <1>6. /\ live.body.i \in 1..BodyLen /\ live.iter.pass \in 0..(MaxIters - 1)
        /\ live.body.pass = live.iter.pass /\ cut \in BOOLEAN /\ live.iter # None
        /\ live.iter \in IterCursor /\ live.iter.done = "no"
    BY <1>1, <1>3, PassNumbers, PassSees DEF PassSeen
  <1>7. /\ InIterate(Snapshot) /\ InPass(Snapshot) /\ ~InArm(Snapshot)
        /\ Snapshot.parts.body = live.body /\ Snapshot.parts.iter = live.iter
    BY <1>1, PassSees, PassNumbers DEF PassSeen, Branching
  <1>8. /\ InIterate(Snapshot') /\ InPass(Snapshot') /\ ~InArm(Snapshot')
        /\ Snapshot'.parts.body = c /\ Snapshot'.parts.iter = live.iter
    <2>1. /\ InIterate(Snapshot') /\ InPass(Snapshot')
          /\ Snapshot'.parts.body = live'.body /\ Snapshot'.parts.iter = live'.iter
      BY <1>4, PassSeenAfter
    <2>2. InArm(Snapshot') <=> InArm(Snapshot)
      BY <1>2, <1>3, <1>7, <2>1, PartsAre DEF InArm
    <2> QED BY <1>2, <1>3, <1>7, <2>1, <2>2
  <1>9. Sound(Snapshot) /\ CursorsTrue(Snapshot.parts)
    BY DEF Path, Sound
  <1>10. CursorsTrue(Snapshot'.parts)
    <2>1. "body" \in Chains /\ Snapshot'.parts["body"].i <= Length["body"]
      BY <1>2, <1>3, Lengths DEF Chains
    <2> QED BY <1>2, <1>9, <2>1, CursorsMoved
  <1>11. Running(Snapshot) = None
    BY <1>1, <1>7, RunningInPass
  <1>12. \A fast \in {cut, TRUE} :
           Upcoming(Snapshot, fast) \subseteq Linear!Successors(Trail(Snapshot), fast)
    BY <1>5, <1>9, <1>11 DEF Sound, Ahead
  <1>13. Begun(Snapshot')
    BY <1>3, <1>8 DEF Begun, Unstarted
  <1>14. Turn'
    BY <1>3, <1>13, TurnElsewhere DEF InRound
  <1>15. CASE live.body.i # BranchAt
    <2> DEFINE s == <<IterAt, live.iter.pass, live.body.i, 0>>
    <2>1. Running(Snapshot') = s
      BY <1>3, <1>6, <1>8, <1>15, RunningInPass
    <2>2. s \in Promise!Steps /\ s # Linear!End
      BY <1>6, <1>15, BodyIsStep
    <2>3. s \in Upcoming(Snapshot, cut)
      <3>1. CASE Unstarted(Snapshot.parts)
        <4>1. live.body.i = 1 /\ ~Begun(Snapshot)
          BY <1>7, <3>1 DEF Unstarted, Begun
        <4>2. cut = FALSE
          BY <1>6, <4>1 DEF Path, Turn
        <4>3. live.iter.pass < plan.stop /\ plan.stop \in Nat
          <5>1. plan.stop \in Nat
            BY PlanTypes DEF Inv
          <5> QED BY <1>6, <1>7, <1>9, <5>1, PassBelow
        <4>4. Upcoming(Snapshot, cut) = AtPass(live.iter.pass, FALSE)
          BY <1>7, <3>1, <4>2, UpcomingInPass
        <4> QED BY <1>6, <4>1, <4>3, <4>4, PassBegins
      <3>2. CASE ~Unstarted(Snapshot.parts)
        <4>1. live.body.i - 1 \in 0..(BodyLen - 1) /\ live.body.i - 1 \in 0..BodyLen
              /\ (live.body.i - 1) + 1 = live.body.i
          BY <1>6
        <4>2. Linear!BodyAfter(live.iter.pass, live.body.i - 1, cut)
                = Linear!Onward(live.iter.pass, live.body.i - 1, cut)
          BY <1>6, <1>15, <4>1, BodyAfterIs
        <4>3. Linear!Onward(live.iter.pass, live.body.i - 1, cut) = {s}
          BY <1>3, <1>6, <1>15, <4>1, OnwardNext
        <4> QED BY <1>7, <3>2, <4>2, <4>3, UpcomingInPass
      <3> QED BY <3>1, <3>2
    <2> HIDE DEF s
    <2>4. Admits(Snapshot, Snapshot')
      BY <1>5, <1>11, <1>12, <2>1, <2>2, <2>3 DEF Admits
    <2>5. Ahead(Snapshot')
      BY <2>1, <2>2, NoneIsNoStep DEF Ahead
    <2> QED BY <1>5, <1>10, <1>14, <2>4, <2>5 DEF Leads, Sound, Moves
  <1>16. CASE live.body.i = BranchAt
    <2>1. Running(Snapshot') = None
      BY <1>3, <1>8, <1>16, RunningInPass
    <2>2. ~Unstarted(Snapshot.parts) /\ ~Unstarted(Snapshot'.parts)
      BY <1>3, <1>6, <1>7, <1>8, <1>16 DEF Unstarted
    <2>3. \A fast : Upcoming(Snapshot', fast) = Upcoming(Snapshot, fast)
      BY <1>3, <1>7, <1>8, <2>2, UpcomingInPass
    <2>4. Ahead(Snapshot')
      BY <1>5, <1>12, <2>3 DEF Ahead
    <2>5. Stays(Snapshot, Snapshot')
      BY <1>5, <1>11, <2>1 DEF Stays
    <2> QED BY <1>5, <1>10, <1>14, <2>4, <2>5 DEF Leads, Sound, Moves
  <1> QED BY <1>15, <1>16

(* The step of an arm. *)
LEMMA ArmStepIs ==
  ASSUME PassPlace, live.arm # None, live.arm.i <= ArmLen
  PROVE  /\ ArmStep(Snapshot.parts) = ArmStep(live)
         /\ ArmStep(live) \in Promise!Steps /\ ArmStep(live) # Linear!End
         /\ \E n \in 1..(2 * ArmLen) :
              /\ ArmStep(live) = <<IterAt, live.iter.pass, BranchAt, n>>
              /\ n = live.arm.i \/ n = ArmLen + live.arm.i
  <1>1. /\ Snapshot.parts.arm = live.arm /\ Snapshot.parts.branch = live.branch
        /\ live.arm.pass = live.iter.pass /\ live.arm.i \in 1..ArmLen
        /\ live.iter.pass \in 0..(MaxIters - 1)
    BY PassSees, PassNumbers DEF PassSeen
  <1>2. ArmStep(Snapshot.parts) = ArmStep(live)
    BY <1>1 DEF ArmStep
  <1> DEFINE n == IF live.branch.taken = "then" THEN live.arm.i ELSE ArmLen + live.arm.i
  <1>3. n \in 1..(2 * ArmLen) /\ (n = live.arm.i \/ n = ArmLen + live.arm.i)
    BY <1>1
  <1>4. ArmStep(live) = <<IterAt, live.iter.pass, BranchAt, n>>
    BY <1>1 DEF ArmStep
  <1> HIDE DEF n
  <1> QED BY <1>1, <1>2, <1>3, <1>4, ArmIsStep

LEMMA StartArm ==
  ASSUME Inv, Path, StartStep, NEW c, StartFacts(c), Walking = "arm", live.arm.mark # "running"
  PROVE  Leads
  <1>1. /\ PassPlace /\ live.arm # None /\ live.arm.mark = "next"
        /\ UNCHANGED runVars
    BY DEF StartFacts, Walking, Bare, PassPlace, StartStep, Inv, TypeOK, Registry, ChainCursor
  <1>2. /\ live'.arm = c /\ \A p \in Parts \ {"arm"} : live'[p] = live[p]
        /\ \A p \in Parts \ {"arm"} : Snapshot'.parts[p] = Snapshot.parts[p]
        /\ Snapshot'.parts["arm"] = c
    BY <1>1, ChainMoves DEF StartFacts
  <1>3. /\ live'.top = live.top /\ live'.iter = live.iter /\ live'.scope = live.scope
        /\ live'.body = live.body /\ live'.branch = live.branch
        /\ c.i = live.arm.i /\ c.pass = live.arm.pass /\ c.mark = "running" /\ c # None
        /\ live.arm.i <= ArmLen /\ (cut => live.arm.i \in plan.conclude.arm)
        /\ pc' \in {"enter", "choose", "verb"} /\ UNCHANGED <<plan, root, cut, kept>>
    BY <1>1, <1>2, PartsAre, Lengths DEF StartFacts, Runs
  <1>4. cut = FALSE
    <2>1. plan.conclude.arm = {}
      BY PlanTypes DEF Inv
    <2> QED BY <1>1, <1>3, <2>1, PassNumbers
  <1>5. live.body.i = BranchAt /\ live.body.mark = "running" /\ live.arm.pass = live.iter.pass
        /\ live.body.pass = live.iter.pass /\ live.iter # None /\ live.body # None
    BY <1>1, PassNumbers, PassSees DEF Branching, PassSeen
  <1>6. PassPlace'
    <2>1. Inv'
      BY InvIsInductive DEF Next, Walk
    <2> QED BY <1>1, <1>2, <1>3, <1>5, <2>1
            DEF PassPlace, InBody, Inside, runVars, Branching
  <1>7. /\ Origin(Snapshot') /\ Trail(Snapshot') = Trail(Snapshot)
        /\ Snapshot'.cut = Snapshot.cut /\ Snapshot.cut = cut
    BY <1>1, <1>3, <1>6, IdleOrigin
  <1>8. /\ InIterate(Snapshot) /\ InPass(Snapshot) /\ InArm(Snapshot)
        /\ Snapshot.parts.body = live.body /\ Snapshot.parts.iter = live.iter
        /\ Snapshot.parts.arm = live.arm /\ Snapshot.parts.branch = live.branch
    BY <1>1, PassSees DEF PassSeen
  <1>9. /\ InIterate(Snapshot') /\ InPass(Snapshot') /\ InArm(Snapshot')
        /\ Snapshot'.parts.body = live.body /\ Snapshot'.parts.iter = live.iter
        /\ Snapshot'.parts.arm = c /\ Snapshot'.parts.branch = live.branch
    BY <1>2, <1>3, <1>6, PassSeenAfter
  <1>10. Sound(Snapshot) /\ CursorsTrue(Snapshot.parts)
    BY DEF Path, Sound
  <1>11. CursorsTrue(Snapshot'.parts)
    <2>1. "arm" \in Chains /\ Snapshot'.parts["arm"].i <= Length["arm"]
      BY <1>2, <1>3, Lengths DEF Chains
    <2> QED BY <1>2, <1>10, <2>1, CursorsMoved
  <1>12. Running(Snapshot) = None
    BY <1>1, <1>5, <1>8, RunningInPass
  <1>13. Running(Snapshot') = ArmStep(live)
    <2>1. Running(Snapshot') = ArmStep(Snapshot'.parts)
      BY <1>3, <1>5, <1>9, RunningInPass
    <2> QED BY <1>3, <1>9, <2>1 DEF ArmStep
  <1>14. ~Unstarted(Snapshot.parts) /\ ~Unstarted(Snapshot'.parts)
    BY <1>5, <1>8, <1>9 DEF Unstarted
  <1>15. ArmStep(live) \in Upcoming(Snapshot, cut)
    <2>1. Upcoming(Snapshot, cut) = {ArmStep(Snapshot.parts)}
      BY <1>3, <1>4, <1>8, <1>14, UpcomingInPass
    <2> QED BY <1>1, <1>3, <2>1, ArmStepIs
  <1>16. Upcoming(Snapshot, cut) \subseteq Linear!Successors(Trail(Snapshot), cut)
    BY <1>7, <1>10, <1>12 DEF Sound, Ahead
  <1>17. Admits(Snapshot, Snapshot')
    BY <1>1, <1>3, <1>7, <1>12, <1>13, <1>15, <1>16, ArmStepIs DEF Admits
  <1>18. Ahead(Snapshot')
    BY <1>1, <1>3, <1>13, ArmStepIs, NoneIsNoStep DEF Ahead
  <1>19. Turn'
    BY <1>3, <1>14, TurnElsewhere DEF InRound, Begun
  <1> QED BY <1>7, <1>11, <1>17, <1>18, <1>19 DEF Leads, Sound, Moves

LEMMA StartLeads == ASSUME Inv, Path, StartStep PROVE Leads
  <1> DEFINE c == [live[Walking] EXCEPT !.mark = "running"]
  <1>1. StartFacts(c)
    BY StartIs
  <1> HIDE DEF c
  <1>2. CASE live[Walking].mark = "running"
    <2>1. Snapshot' = Snapshot
      BY <1>2, RestartStays
    <2>2. Begun(Snapshot)
      <3>1. Bare(live) \/ InBody
        BY <1>1 DEF StartFacts
      <3>2. CASE Begun(Snapshot)
        BY <3>2
      <3>3. CASE live.body # None
        <4>1. PassPlace
          BY <1>1, <3>1, <3>3 DEF PassPlace, StartFacts, Bare
        <4>2. live.body.mark = "running"
          BY <1>2, <3>3, <4>1, PassNumbers DEF Walking, Branching
        <4> QED BY <4>1, <4>2, PassSees DEF PassSeen, Begun, Unstarted
      <3> QED BY <3>2, <3>3 DEF Path, Turn
    <2>3. Turn'
      BY <1>1, <2>1, <2>2, TurnElsewhere DEF StartFacts, InRound
    <2> QED BY <2>1, <2>3, Stands DEF Leads
  <1>3. CASE live[Walking].mark # "running"
    BY <1>1, <1>3, StartTop, StartBody, StartArm, InChains DEF Chains
  <1> QED BY <1>2, <1>3

-----------------------------------------------------------------------------
(* A chain moves past a step it does not run. *)

(* A fast-forwarding chain skips a step. *)
SkipFacts(c) ==
  /\ status = "running" /\ pc = "chain" /\ pc' = "chain" /\ UNCHANGED <<runVars, kept, root, disk>>
  /\ cut = TRUE /\ live[Walking].mark = "next" /\ live[Walking].i <= Length[Walking]
  /\ live[Walking].i \notin plan.conclude[Walking]
  /\ live' = [live EXCEPT ![Walking] = c]
  /\ c.mark = "next" /\ c.i = live[Walking].i + 1 /\ c.pass = live[Walking].pass /\ c # None
  /\ Bare(live) \/ InBody

LEMMA SkipIs ==
  ASSUME Inv, SkipStep PROVE SkipFacts([live[Walking] EXCEPT !.i = @ + 1])
  <1>1. /\ status = "running" /\ pc = "chain" /\ live[Walking].i <= Length[Walking]
        /\ ~Runs(Walking) /\ UNCHANGED <<runVars, pc, kept, root, disk>>
        /\ live' = [live EXCEPT ![Walking].i = @ + 1]
    BY DEF SkipStep, At, PastSkipped
  <1>2. Bare(live) \/ InBody
    BY <1>1 DEF Inv, Held, Control
  <1>3. live[Walking] # None /\ live \in Registry
    BY <1>1 DEF Inv, TypeOK, Held, Walking
  <1>4. live[Walking] \in ChainCursor(Walking) /\ Walking \in DOMAIN live
    BY <1>3 DEF Walking, Registry
  <1>5. PICK m : m = live[Walking].i + 1
    OBVIOUS
  <1> DEFINE c == [live[Walking] EXCEPT !.i = m]
  <1>6. m \in 1..(Length[Walking] + 1) /\ live[Walking].i \in 1..(Length[Walking] + 1)
    <2>1. Length[Walking] \in Nat
      BY Lengths, InChains DEF Chains
    <2> QED BY <1>1, <1>4, <1>5, <2>1 DEF ChainCursor
  <1>7. /\ cut = TRUE /\ live[Walking].mark = "next"
        /\ live[Walking].i \notin plan.conclude[Walking]
    BY <1>1, <1>4 DEF Runs, ChainCursor, Inv, TypeOK
  <1>8. c \in ChainCursor(Walking) /\ c.mark = "next" /\ c.i = m
        /\ c.pass = live[Walking].pass
    BY <1>4, <1>6, <1>7 DEF ChainCursor
  <1>9. live' = [live EXCEPT ![Walking] = c]
    BY <1>1, <1>4, <1>5
  <1>10. c # None
    BY <1>8, InChains, CursorIsNotNone
  <1>11. c = [live[Walking] EXCEPT !.i = @ + 1]
    BY <1>5
  <1>12. SkipFacts(c)
    BY <1>1, <1>2, <1>5, <1>7, <1>8, <1>9, <1>10 DEF SkipFacts
  <1> QED BY <1>11, <1>12

LEMMA SkipTop ==
  ASSUME Inv, Path, NEW c, SkipFacts(c), Walking = "top" PROVE Leads
  <1>1. /\ Bare(live) /\ live.top \in ChainCursor("top") /\ live.top.i \in 1..TopLen
        /\ live.top.mark = "next" /\ live.top.i \notin plan.conclude.top
        /\ plan' = plan /\ cut = TRUE /\ pc' = "chain"
        /\ c.mark = "next" /\ c.i = live.top.i + 1
    BY Lengths DEF SkipFacts, Walking, InBody, Inv, Held, TypeOK, Registry, ChainCursor, runVars
  <1>2. /\ Snapshot.parts.top = live.top /\ Snapshot'.parts.top = c
        /\ \A p \in Parts \ {"top"} : Snapshot'.parts[p] = Snapshot.parts[p]
        /\ Snapshot'.root = Snapshot.root /\ Snapshot'.cut = Snapshot.cut /\ Snapshot.cut = TRUE
    BY <1>1, ChainMoves, Captured, PartsAre DEF SkipFacts, runVars
  <1>3. Sound(Snapshot)
    BY DEF Path
  <1>4. CursorsTrue(Snapshot'.parts)
    <2>1. "top" \in Chains /\ Snapshot'.parts["top"].mark # "running"
      BY <1>1, <1>2 DEF Chains
    <2>2. CursorsTrue(Snapshot.parts)
      BY <1>3 DEF Sound
    <2> QED BY <1>2, <2>1, <2>2, CursorsMoved
  <1>5. ~InIterate(Snapshot) /\ Trail(Snapshot) = Snapshot.root /\ Running(Snapshot) = None
    BY <1>1, <1>2 DEF InIterate, Trail, Running
  <1>6. Linear!TopStep(live.top.i - 1, TRUE) = Linear!TopStep(live.top.i, TRUE)
    <2>1. live.top.i - 1 \in 0..(TopLen - 1) /\ (live.top.i - 1) + 1 = live.top.i
      BY <1>1
    <2> QED BY <1>1, <2>1, TopStepSkips
  <1>7. Linear!TopAfter(live.top.i, TRUE) \in Linear!Successors(Snapshot.root, TRUE)
    <2>1. Linear!TopAfter(live.top.i - 1, TRUE) \in Linear!Successors(Snapshot.root, TRUE)
      BY <1>2, <1>3, <1>5 DEF Sound, Ahead, Upcoming
    <2>2. Linear!TopAfter(live.top.i - 1, TRUE) = Linear!TopAfter(live.top.i, TRUE)
      BY <1>6 DEF Linear!TopAfter
    <2> QED BY <2>1, <2>2
  <1>8. live.top.i + 1 <= IterAt =>
          /\ Linear!TopStep(Linear!Last(Snapshot.root)[1], TRUE) = Linear!TopStep(live.top.i, TRUE)
          /\ \A i \in DOMAIN Snapshot.root : Snapshot.root[i][1] < IterAt
    <2> SUFFICES ASSUME live.top.i + 1 <= IterAt
                 PROVE  /\ Linear!TopStep(Linear!Last(Snapshot.root)[1], TRUE)
                             = Linear!TopStep(live.top.i, TRUE)
                        /\ \A i \in DOMAIN Snapshot.root : Snapshot.root[i][1] < IterAt
        OBVIOUS
    <2>1. Before(Snapshot.parts) /\ Snapshot.parts.top.i <= IterAt
          /\ Snapshot.parts.top.mark = "next" /\ Origin(Snapshot)
      BY <1>1, <1>2, <1>3 DEF Before, Sound
    <2>2. \A fast \in {Snapshot.cut, TRUE} :
            Linear!TopStep(Linear!Last(Trail(Snapshot))[1], fast)
              = Linear!TopStep(Snapshot.parts.top.i - 1, fast)
      BY <2>1, Zenon DEF Origin
    <2>3. \A i \in DOMAIN Snapshot.root : Snapshot.root[i][1] < IterAt
      BY <2>1, Zenon DEF Origin
    <2> QED BY <1>2, <1>5, <1>6, <2>2, <2>3
  <1>9. Sound(Snapshot') /\ Running(Snapshot') = None /\ Trail(Snapshot') = Snapshot.root
    <2>1. live.top.i \in Nat
      BY <1>1
    <2> QED BY <1>1, <1>2, <1>4, <1>7, <1>8, <2>1, TopArrives
  <1>10. Stays(Snapshot, Snapshot')
    BY <1>2, <1>5, <1>9 DEF Stays
  <1>11. Turn'
    <2>1. Begun(Snapshot)
      BY <1>1 DEF Path, Turn, Bare
    <2>2. Begun(Snapshot')
      BY <1>2, <2>1, PartsAre DEF Begun, InPass, Unstarted
    <2> QED BY <1>1, <2>2, TurnElsewhere DEF InRound
  <1> QED BY <1>9, <1>10, <1>11 DEF Leads, Moves

LEMMA SkipInner ==
  ASSUME Inv, Path, SkipStep, NEW c, SkipFacts(c), Walking # "top" PROVE Leads
  <1>1. /\ PassPlace /\ cut = TRUE /\ pc' = "chain" /\ UNCHANGED <<runVars, kept, root>>
        /\ live.iter # None /\ live.body # None
    BY DEF SkipFacts, Walking, Bare, PassPlace, InBody
  <1>2. /\ live'[Walking] = c /\ \A p \in Parts \ {Walking} : live'[p] = live[p]
        /\ \A p \in Parts \ {Walking} : Snapshot'.parts[p] = Snapshot.parts[p]
        /\ Snapshot'.parts[Walking] = c /\ Snapshot.parts[Walking] = live[Walking]
        /\ Walking \in {"body", "arm"}
    BY <1>1, ChainMoves, InChains DEF SkipFacts, Chains, runVars
  <1>3. /\ live'.top = live.top /\ live'.iter = live.iter /\ live'.scope = live.scope
        /\ Walking = "body" =>
             live'.body = c /\ live'.arm = live.arm /\ live.arm = None /\ ~Branching(live.body)
        /\ Walking = "arm" => live'.arm = c /\ live'.body = live.body /\ live.arm # None
        /\ c.mark = "next" /\ c.i = live[Walking].i + 1 /\ c.pass = live[Walking].pass
        /\ c # None /\ live[Walking].mark = "next" /\ live[Walking].i <= Length[Walking]
        /\ live[Walking].i \notin plan.conclude[Walking]
    BY <1>2, PartsAre DEF SkipFacts, Walking, Branching
  <1>4. PassPlace'
    <2>1. Inv'
      BY InvIsInductive DEF Next, Walk
    <2> QED BY <1>1, <1>2, <1>3, <2>1 DEF PassPlace, InBody, Inside, runVars
  <1>5. /\ Origin(Snapshot') /\ Trail(Snapshot') = Trail(Snapshot)
        /\ Snapshot'.cut = Snapshot.cut /\ Snapshot.cut = TRUE
    BY <1>1, <1>3, <1>4, IdleOrigin DEF runVars
  <1>6. /\ InIterate(Snapshot) /\ InPass(Snapshot)
        /\ Snapshot.parts.body = live.body /\ Snapshot.parts.iter = live.iter
        /\ live.arm # None => Snapshot.parts.arm = live.arm /\ InArm(Snapshot)
    BY <1>1, PassSees DEF PassSeen
  <1>7. /\ InIterate(Snapshot') /\ InPass(Snapshot')
        /\ Snapshot'.parts.body = live'.body /\ Snapshot'.parts.iter = live.iter
    BY <1>3, <1>4, PassSeenAfter
  <1>8. Sound(Snapshot) /\ CursorsTrue(Snapshot.parts)
    BY DEF Path, Sound
  <1>9. CursorsTrue(Snapshot'.parts)
    BY <1>2, <1>3, <1>8, InChains, CursorsMoved
  <1>10. Begun(Snapshot) /\ ~Unstarted(Snapshot.parts)
    BY <1>1, <1>6 DEF Path, Turn, Begun
  <1>11. live.body.i \in 1..(BodyLen + 1) /\ (live.body.i # 1 \/ live.body.mark = "running")
    BY <1>1, <1>6, <1>10, PassNumbers DEF Unstarted, ChainCursor
  <1>12. CASE Walking = "body"
    <2>1. live.body.i \in 2..BodyLen
      BY <1>1, <1>3, <1>11, <1>12, Lengths, PassNumbers
    <2>2. ~InArm(Snapshot) /\ ~InArm(Snapshot')
      <3>1. ~InArm(Snapshot)
        BY <1>1, <1>3, <1>12, PassNumbers
      <3>2. InArm(Snapshot') <=> InArm(Snapshot)
        BY <1>2, <1>3, <1>6, <1>7, <1>12, PartsAre DEF InArm
      <3> QED BY <3>1, <3>2
    <2>3. ~Unstarted(Snapshot'.parts)
      BY <1>3, <1>7, <1>12, <2>1 DEF Unstarted
    <2>4. Running(Snapshot) = None /\ Running(Snapshot') = None
      BY <1>3, <1>6, <1>7, <1>12, RunningInPass
    <2>5. /\ Upcoming(Snapshot, TRUE) = Linear!BodyAfter(live.iter.pass, live.body.i - 1, TRUE)
          /\ Upcoming(Snapshot', TRUE) = Linear!BodyAfter(live.iter.pass, live.body.i, TRUE)
      <3>1. (live.body.i + 1) - 1 = live.body.i
        BY <2>1
      <3> QED BY <1>3, <1>6, <1>7, <1>10, <1>12, <2>2, <2>3, <3>1, UpcomingInPass
    <2>6. Linear!BodyAfter(live.iter.pass, live.body.i - 1, TRUE)
            = Linear!BodyAfter(live.iter.pass, live.body.i, TRUE)
      <3>1. /\ live.body.i - 1 \in 0..(BodyLen - 1) /\ live.body.i - 1 \in 0..BodyLen
            /\ (live.body.i - 1) + 1 = live.body.i /\ live.body.i \in 0..BodyLen
        BY <2>1
      <3>2. live.body.i \notin plan.conclude.body
        BY <1>3, <1>12
      <3>3. Linear!Onward(live.iter.pass, live.body.i - 1, TRUE)
              = Linear!Onward(live.iter.pass, live.body.i, TRUE)
        BY <3>1, <3>2, OnwardSkips
      <3> QED BY <3>1, <3>3, BodyAfterIs
    <2>7. Ahead(Snapshot')
      BY <1>5, <1>8, <2>4, <2>5, <2>6 DEF Ahead, Sound
    <2>8. Stays(Snapshot, Snapshot')
      BY <1>5, <2>4 DEF Stays
    <2>9. Turn'
      BY <1>1, <2>3, TurnElsewhere DEF InRound, Begun, runVars
    <2> QED BY <1>5, <1>9, <2>7, <2>8, <2>9 DEF Leads, Sound, Moves
  <1>13. CASE Walking = "arm"
    <2>1. /\ InArm(Snapshot) /\ InArm(Snapshot') /\ Snapshot.parts.arm = live.arm
          /\ Snapshot'.parts.arm = c /\ Snapshot'.parts.body = live.body
      BY <1>2, <1>3, <1>4, <1>6, <1>7, <1>13, PassSeenAfter
    <2>2. ~Unstarted(Snapshot'.parts)
      BY <1>6, <1>10, <2>1 DEF Unstarted
    <2>3. live.body.i = BranchAt /\ live.body.mark = "running"
      BY <1>1, <1>3, <1>13, PassNumbers DEF Branching
    <2>4. Running(Snapshot) = None /\ Running(Snapshot') = None
      BY <1>3, <1>6, <1>7, <1>13, <2>1, <2>3, RunningInPass
    <2>5. Upcoming(Snapshot, TRUE) = Upcoming(Snapshot', TRUE)
      BY <1>6, <1>7, <1>10, <2>1, <2>2, UpcomingInPass
    <2>6. Ahead(Snapshot')
      BY <1>5, <1>8, <2>4, <2>5 DEF Ahead, Sound
    <2>7. Stays(Snapshot, Snapshot')
      BY <1>5, <2>4 DEF Stays
    <2>8. Turn'
      BY <1>1, <2>2, TurnElsewhere DEF InRound, Begun, runVars
    <2> QED BY <1>5, <1>9, <2>6, <2>7, <2>8 DEF Leads, Sound, Moves
  <1> QED BY <1>2, <1>12, <1>13

LEMMA SkipLeads == ASSUME Inv, Path, SkipStep PROVE Leads
  <1> DEFINE c == [live[Walking] EXCEPT !.i = @ + 1]
  <1>1. SkipFacts(c)
    BY SkipIs
  <1> HIDE DEF c
  <1> QED BY <1>1, SkipTop, SkipInner

-----------------------------------------------------------------------------
(* A verb returns. *)

(* A verb of the top chain returns. *)
LEMMA TopVerbLeads == ASSUME Inv, Path, VerbReturns, Walking = "top" PROVE Leads
  <1>1. /\ status = "running" /\ InVerb /\ live.top # None /\ live.top \in ChainCursor("top")
        /\ plan \in Plans /\ cut \in BOOLEAN /\ root \in Seq(Promise!Steps)
    BY DEF VerbReturns, At, Inv, Held, Control, TypeOK, Registry
  <1>2. Bare(live) /\ live.top.i \in (1..TopLen) \ {IterAt} /\ live.top.mark = "running"
    BY <1>1, Lengths DEF InVerb, InBody, Walking, ChainCursor
  <1>3. Step = <<live.top.i, 0, 0, 0>> /\ Step \in Promise!Steps
    BY <1>1, TopStepTypes DEF Step, Inv
  <1>4. Snapshot.parts.top = live.top /\ Snapshot.root = root /\ Snapshot.cut = cut
    BY <1>1, Captured DEF Capture
  <1>5. root' = Append(root, Step) /\ UNCHANGED <<runVars, kept, disk>>
    BY DEF VerbReturns
  <1>6. root' \in Seq(Promise!Steps) /\ live.top.val = root
    BY <1>2, <1>3, <1>4, <1>5 DEF Inv, TypeOK, Good, Input, Trail, InIterate
  <1>7. Completes("top", live, root')
    BY <1>5, <1>6 DEF VerbReturns
  <1>8. /\ live'.top.i = live.top.i + 1 /\ live'.top.mark = "next" /\ live'.top # None
        /\ Bare(live') /\ pc' \in {"interrupted", "chain"}
    BY <1>1, <1>2, <1>6, <1>7, CompletesTop DEF Inv, TypeOK, Bare
  <1>9. /\ Snapshot'.parts.top = live'.top /\ Snapshot'.root = root' /\ Snapshot'.cut = cut
        /\ \A p \in Parts \ {"top"} : Snapshot'.parts[p] = Snapshot.parts[p]
    BY <1>2, <1>5, <1>8, Captured, PartsAre DEF Capture, Bare, runVars
  <1>10. Sound(Snapshot)
    BY DEF Path
  <1>11. CursorsTrue(Snapshot'.parts)
    <2>1. "top" \in Chains /\ Snapshot'.parts["top"].mark # "running"
      BY <1>8, <1>9 DEF Chains
    <2>2. CursorsTrue(Snapshot.parts)
      BY <1>10 DEF Sound
    <2> QED BY <1>9, <2>1, <2>2, CursorsMoved
  <1>12. ~InIterate(Snapshot) /\ Trail(Snapshot) = root /\ Running(Snapshot) = Step
    BY <1>2, <1>3, <1>4 DEF InIterate, Trail, Running
  <1>13. \A fast : Linear!Successors(root', fast) = {Linear!TopAfter(live.top.i, fast)}
    BY <1>1, <1>3, <1>5, AfterTop
  <1>14. live.top.i + 1 <= IterAt =>
           /\ Linear!Last(root')[1] = live.top.i
           /\ \A i \in DOMAIN root' : root'[i][1] < IterAt
    <2> SUFFICES ASSUME live.top.i + 1 <= IterAt
                 PROVE  /\ Linear!Last(root')[1] = live.top.i
                        /\ \A i \in DOMAIN root' : root'[i][1] < IterAt
        OBVIOUS
    <2>1. Linear!Last(root') = Step
      BY <1>1, <1>3, <1>5, LastIs
    <2>2. Before(Snapshot.parts) /\ Origin(Snapshot)
      BY <1>2, <1>4, <1>10 DEF Before, Sound
    <2>3. \A i \in DOMAIN Snapshot.root : Snapshot.root[i][1] < IterAt
      BY <2>2, Zenon DEF Origin
    <2>4. Step[1] < IterAt
      BY <1>2, <1>3
    <2>5. ASSUME NEW i \in DOMAIN root' PROVE root'[i][1] < IterAt
      <3>1. CASE i \in DOMAIN root
        BY <1>1, <1>4, <1>5, <2>3, <3>1
      <3>2. CASE i \notin DOMAIN root
        <4>1. root'[i] = Step
          BY <1>1, <1>3, <1>5, <3>2
        <4> QED BY <2>4, <4>1
      <3> QED BY <3>1, <3>2
    <2> QED BY <1>3, <2>1, <2>5
  <1>15. Sound(Snapshot') /\ Running(Snapshot') = None /\ Trail(Snapshot') = root'
    <2>1. live.top.i \in Nat
      BY <1>2
    <2> QED BY <1>8, <1>9, <1>11, <1>13, <1>14, <2>1, TopArrives
  <1>16. Does(Snapshot, Snapshot')
    BY <1>3, <1>4, <1>5, <1>9, <1>12, <1>15, NoneIsNoStep DEF Does
  <1>17. Turn'
    <2>1. Begun(Snapshot)
      BY <1>2 DEF Path, Turn, Bare
    <2>2. Begun(Snapshot')
      BY <1>9, <2>1, PartsAre DEF Begun, InPass, Unstarted
    <2> QED BY <1>5, <1>8, <2>2, TurnElsewhere DEF InRound, runVars
  <1> QED BY <1>15, <1>16, <1>17 DEF Leads, Moves

(* A step of the iterate's work is done: in its scope, or in the root. *)
LEMMA InnerWork ==
  ASSUME PassPlace, PassPlace', Path, NEW s \in Promise!Steps, s[1] = IterAt, s[3] > 0,
         plan' = plan, cut' = cut, kept' = kept,
         plan.scoped => root' = root /\ live'.scope = Append(live.scope, s),
         ~plan.scoped => root' = Append(root, s) /\ live'.scope = live.scope
  PROVE  /\ Trail(Snapshot') = Append(Trail(Snapshot), s) /\ Origin(Snapshot')
         /\ Trail(Snapshot) \in Seq(Promise!Steps)
  <1>1. PassFacts /\ Trail(Snapshot) = Here /\ Trail(Snapshot') = Here' /\ InIterate(Snapshot)
        /\ InIterate(Snapshot') /\ Snapshot'.parts.scope = live'.scope
        /\ Snapshot'.root = root' /\ Snapshot'.parts.iter = live'.iter /\ live'.iter # None
        /\ Snapshot.root = root /\ Snapshot.parts.scope = live.scope
        /\ Snapshot.parts.iter = live.iter /\ live.iter # None
    BY PassSees, PassSeenAfter DEF PassSeen
  <1>2. root \in Seq(Promise!Steps) /\ (plan.scoped => live.scope \in Seq(Promise!Steps))
    BY <1>1 DEF PassPlace, Inv, TypeOK, Registry, PassFacts, Entered
  <1>3. Here' = Append(Here, s) /\ Here \in Seq(Promise!Steps)
    <2>1. CASE plan.scoped
      <3>1. root \o live.scope \in Seq(Promise!Steps)
        BY <1>2, <2>1
      <3>2. Here = root \o live.scope /\ Here' = root \o Append(live.scope, s)
        BY <2>1 DEF Here
      <3> QED BY <1>2, <2>1, <3>1, <3>2, AppendedLast
    <2>2. CASE ~plan.scoped
      BY <1>2, <2>2 DEF Here
    <2> QED BY <2>1, <2>2
  <1>4. Linear!Last(Trail(Snapshot'))[3] > 0
    BY <1>1, <1>3, LastIs
  <1>5. Origin(Snapshot)
    BY DEF Path, Sound
  <1>6. ~Before(Snapshot'.parts) /\ Snapshot'.parts.top.mark # "next"
    BY <1>1 DEF InIterate, Before
  <1>7. plan.scoped => \A i \in DOMAIN Snapshot'.root : Snapshot'.root[i][1] < IterAt
    <2>1. plan.scoped => \A i \in DOMAIN Snapshot.root : Snapshot.root[i][1] < IterAt
      BY <1>1, <1>5, Zenon DEF Origin
    <2> QED BY <1>1, <2>1
  <1>8. Snapshot'.parts.scope # None =>
          \A i \in DOMAIN Snapshot'.parts.scope : Snapshot'.parts.scope[i][1] = IterAt
    <2>1. live.scope # None => \A i \in DOMAIN live.scope : live.scope[i][1] = IterAt
      <3>1. Snapshot.parts.scope # None =>
              \A i \in DOMAIN Snapshot.parts.scope : Snapshot.parts.scope[i][1] = IterAt
        BY <1>1, <1>5, Zenon DEF Origin
      <3> QED BY <1>1, <3>1
    <2>2. CASE plan.scoped
      <3>1. live.scope # None
        BY <1>1, <2>2 DEF PassFacts, Entered
      <3>2. ASSUME NEW i \in DOMAIN live'.scope PROVE live'.scope[i][1] = IterAt
        <4>0. live.scope \in Seq(Promise!Steps) /\ live'.scope = Append(live.scope, s)
          BY <1>2, <2>2
        <4>1. CASE i \in DOMAIN live.scope
          <5>1. live'.scope[i] = live.scope[i]
            BY <4>0, <4>1
          <5> QED BY <2>1, <3>1, <4>1, <5>1
        <4>2. CASE i \notin DOMAIN live.scope
          <5>1. live'.scope[i] = s
            BY <4>0, <4>2
          <5> QED BY <5>1
        <4> QED BY <4>1, <4>2
      <3> QED BY <1>1, <3>2
    <2>3. CASE ~plan.scoped
      BY <1>1, <2>1, <2>3
    <2> QED BY <2>2, <2>3
  <1>9. Origin(Snapshot')
    BY <1>1, <1>4, <1>6, <1>7, <1>8 DEF Origin
  <1> QED BY <1>1, <1>3, <1>9

(* A verb of the iterate returns: what it did, and how its chain moves. *)
LEMMA InnerVerbIs ==
  ASSUME Inv, VerbReturns, Walking # "top"
  PROVE  /\ PassPlace /\ PassPlace' /\ UNCHANGED <<plan, cut, kept, disk>>
         /\ pc' \in {"interrupted", "chain"} /\ Step \in Promise!Steps
         /\ plan.scoped => root' = root /\ live'.scope = Append(live.scope, Step)
         /\ ~plan.scoped => root' = Append(root, Step) /\ live'.scope = live.scope
         /\ live'.top = live.top /\ live'.iter = live.iter
         /\ Walking = "body" =>
              /\ live'.body.i = live.body.i + 1 /\ live'.body.mark = "next"
              /\ live'.body.pass = live.body.pass /\ live'.body # None /\ live'.arm = None
              /\ live.arm = None /\ live.body.mark = "running"
              /\ live.body.i <= BodyLen /\ live.body.i # BranchAt
         /\ Walking = "arm" =>
              /\ live'.arm.i = live.arm.i + 1 /\ live'.arm.mark = "next"
              /\ live'.arm.pass = live.arm.pass /\ live'.arm # None
              /\ live'.body = live.body /\ live'.branch = live.branch
              /\ live.arm # None /\ live.arm.mark = "running" /\ live.arm.i <= ArmLen
  <1> DEFINE reg == IF plan.scoped THEN [live EXCEPT !.scope = Append(@, Step)] ELSE live
  <1>1. /\ status = "running" /\ InVerb /\ InBody
    BY DEF VerbReturns, At, Inv, Held, Control, InVerb, Bare, Walking
  <1>2. PassFacts
    BY <1>1, PassOut
  <1>3. Step \in Promise!Steps
    BY <1>1, <1>2, BodyStepTypes, ArmStepTypes, InChains DEF Inv, PassFacts, Chains
  <1>4. /\ UNCHANGED <<runVars, kept, disk>>
        /\ root' = IF plan.scoped THEN root ELSE Append(root, Step)
        /\ Completes(Walking, reg, Append(live[Walking].val, Step))
    BY DEF VerbReturns
  <1>5. plan.scoped => live.scope \in Seq(Promise!Steps)
    BY <1>2 DEF PassFacts, Entered, Inv, TypeOK, Registry
  <1>6. /\ reg \in Registry /\ reg.top = live.top /\ reg.iter = live.iter
        /\ reg.body = live.body /\ reg.branch = live.branch /\ reg.arm = live.arm
        /\ reg.scope = IF plan.scoped THEN Append(live.scope, Step) ELSE live.scope
    <2>1. live \in Registry
      BY DEF Inv, TypeOK
    <2>2. CASE plan.scoped
      <3>1. reg = [live EXCEPT !.scope = Append(live.scope, Step)]
        BY <2>1, <2>2 DEF Registry
      <3>2. Append(live.scope, Step) \in Seq(Promise!Steps)
        BY <1>3, <1>5, <2>2
      <3> HIDE DEF reg
      <3> QED BY <2>1, <2>2, <3>1, <3>2 DEF Registry
    <2>3. CASE ~plan.scoped
      BY <2>1, <2>3
    <2> QED BY <2>2, <2>3
  <1> HIDE DEF reg
  <1>7. PassPlace
    BY <1>1 DEF PassPlace
  <1>8. Inv' /\ status' = "running"
    BY <1>1, <1>4, InvIsInductive DEF Next, Walk, runVars
  <1>9. CASE Walking = "body"
    <2>1. live.arm = None /\ live.body.i # BranchAt /\ live.body # None
          /\ live.body.i <= BodyLen /\ live.body \in ChainCursor("body")
          /\ live.body.mark = "running"
      BY <1>1, <1>2, <1>9, Lengths DEF Walking, InVerb, Bare, InBody, Inv, TypeOK, Registry
    <2>2. Append(live.body.val, Step) \in Seq(Promise!Steps)
      BY <1>3, <2>1 DEF ChainCursor
    <2>3. Completes("body", reg, Append(live.body.val, Step))
      BY <1>4, <1>9
    <2>4. reg.branch = None /\ reg.arm = None
      BY <1>2, <1>6, <2>1 DEF PassFacts, Paired
    <2>5. /\ pc' \in {"interrupted", "chain"}
          /\ live'.body.i = live.body.i + 1 /\ live'.body.mark = "next"
          /\ live'.body.pass = live.body.pass /\ live'.body # None
          /\ live'.top = live.top /\ live'.iter = live.iter /\ live'.scope = reg.scope
          /\ live'.arm = None
      BY <1>6, <2>1, <2>2, <2>3, <2>4, CompletesBody
    <2>6. PassPlace'
      BY <1>1, <1>8, <2>5 DEF PassPlace, InBody, Inside
    <2> QED BY <1>3, <1>4, <1>6, <1>7, <1>9, <2>1, <2>5, <2>6 DEF runVars
  <1>10. CASE Walking = "arm"
    <2>1. live.arm # None /\ live.arm.i <= ArmLen /\ live.arm \in ChainCursor("arm")
          /\ live.arm.mark = "running"
      BY <1>1, <1>10, Lengths DEF Walking, InVerb, Inv, TypeOK, Registry
    <2>2. Append(live.arm.val, Step) \in Seq(Promise!Steps)
      BY <1>3, <2>1 DEF ChainCursor
    <2>3. Completes("arm", reg, Append(live.arm.val, Step))
      BY <1>4, <1>10
    <2>4. /\ pc' \in {"interrupted", "chain"}
          /\ live'.arm.i = live.arm.i + 1 /\ live'.arm.mark = "next"
          /\ live'.arm.pass = live.arm.pass /\ live'.arm # None
          /\ live'.top = live.top /\ live'.iter = live.iter /\ live'.scope = reg.scope
          /\ live'.branch = live.branch /\ live'.body = live.body
      BY <1>6, <2>1, <2>2, <2>3, CompletesArm
    <2>5. PassPlace'
      BY <1>1, <1>8, <2>1, <2>4 DEF PassPlace, InBody, Inside, Branching
    <2> QED BY <1>3, <1>4, <1>6, <1>7, <1>10, <2>1, <2>4, <2>5 DEF runVars
  <1> QED BY <1>9, <1>10, InChains DEF Chains

(* A step of the iterate done leaves the other cursors alone. *)
LEMMA CursorsWorked ==
  ASSUME NEW l \in Chains, NEW d, NEW e, CursorsTrue(d.parts),
         \A c \in Chains \ {l} : e.parts[c] = d.parts[c], e.parts.iter = d.parts.iter,
         e.parts[l].mark = "running" => e.parts[l].i <= Length[l]
  PROVE  CursorsTrue(e.parts)
  BY DEF CursorsTrue, Chains

LEMMA BodyVerbLeads == ASSUME Inv, Path, VerbReturns, Walking = "body" PROVE Leads
  <1>1. /\ PassPlace /\ PassPlace' /\ UNCHANGED <<plan, cut, kept, disk>>
        /\ pc' \in {"interrupted", "chain"} /\ Step \in Promise!Steps
        /\ plan.scoped => root' = root /\ live'.scope = Append(live.scope, Step)
        /\ ~plan.scoped => root' = Append(root, Step) /\ live'.scope = live.scope
        /\ live'.top = live.top /\ live'.iter = live.iter
        /\ live'.body.i = live.body.i + 1 /\ live'.body.mark = "next"
        /\ live'.body.pass = live.body.pass /\ live'.arm = None
        /\ live.arm = None /\ live.body.mark = "running"
        /\ live.body.i <= BodyLen /\ live.body.i # BranchAt
    BY InnerVerbIs
  <1>2. /\ live.body.i \in (1..BodyLen) \ {BranchAt} /\ live.iter.pass \in 0..(MaxIters - 1)
        /\ live.body.pass = live.iter.pass
    BY <1>1, PassNumbers
  <1> DEFINE s == <<IterAt, live.iter.pass, live.body.i, 0>>
  <1>3. Step = s /\ s \in Promise!Steps /\ s[1] = IterAt /\ s[3] > 0
    BY <1>1, <1>2 DEF Step
  <1>4. /\ InIterate(Snapshot) /\ InPass(Snapshot) /\ Snapshot.parts.body = live.body
        /\ Snapshot.parts.top = live.top /\ Snapshot.parts.iter = live.iter
        /\ Snapshot.parts.arm = kept.arm /\ Snapshot.cut = cut
    BY <1>1, PassSees DEF PassSeen, Capture
  <1>5. /\ InIterate(Snapshot') /\ InPass(Snapshot') /\ Snapshot'.parts.body = live'.body
        /\ Snapshot'.parts.top = live'.top /\ Snapshot'.parts.iter = live'.iter
        /\ Snapshot'.parts.arm = kept'.arm /\ Snapshot'.cut = cut' /\ PassFacts'
        /\ InArm(Snapshot') <=> kept'.arm # None /\ kept'.arm.pass >= live'.iter.pass
    BY <1>1, PassSeenAfter DEF Capture
  <1>6. Running(Snapshot) = s
    BY <1>1, <1>2, <1>4, RunningInPass
  <1>7. Running(Snapshot') = None
    BY <1>1, <1>5, RunningInPass
  <1> HIDE DEF s
  <1>8. /\ Trail(Snapshot') = Append(Trail(Snapshot), s) /\ Origin(Snapshot')
        /\ Trail(Snapshot) \in Seq(Promise!Steps)
    BY <1>1, <1>3, InnerWork
  <1>9. CursorsTrue(Snapshot'.parts)
    <2>1. CursorsTrue(Snapshot.parts)
      BY DEF Path, Sound
    <2>2. /\ "body" \in Chains /\ Snapshot'.parts["body"].mark # "running"
          /\ \A c \in Chains \ {"body"} : Snapshot'.parts[c] = Snapshot.parts[c]
          /\ Snapshot'.parts.iter = Snapshot.parts.iter
      BY <1>1, <1>4, <1>5 DEF Chains
    <2> QED BY <2>1, <2>2, CursorsWorked
  <1>10. ~Unstarted(Snapshot'.parts) /\ ~InArm(Snapshot')
    <2>1. ~Branching(live'.body)
      BY <1>1 DEF Branching
    <2> QED BY <1>1, <1>2, <1>5, <2>1 DEF Unstarted, PassFacts
  <1>11. Ahead(Snapshot')
    <2>1. (live.body.i + 1) - 1 = live.body.i /\ live.body.i \in Nat \ {0}
      BY <1>2
    <2>2. \A fast : Upcoming(Snapshot', fast)
                      = Linear!BodyAfter(live.iter.pass, live.body.i, fast)
      BY <1>1, <1>5, <1>10, <2>1, UpcomingInPass
    <2>3. \A fast : Linear!Successors(Append(Trail(Snapshot), s), fast)
                      = Linear!BodyAfter(live.iter.pass, live.body.i, fast)
      BY <1>3, <1>8, <2>1, AfterBody DEF s
    <2> QED BY <1>8, <2>2, <2>3 DEF Ahead
  <1>12. Does(Snapshot, Snapshot')
    BY <1>1, <1>3, <1>4, <1>5, <1>6, <1>7, <1>8, NoneIsNoStep DEF Does
  <1>13. Turn'
    BY <1>1, <1>10, TurnElsewhere DEF InRound, Begun
  <1> QED BY <1>8, <1>9, <1>11, <1>12, <1>13 DEF Leads, Sound, Moves

LEMMA ArmVerbLeads == ASSUME Inv, Path, VerbReturns, Walking = "arm" PROVE Leads
  <1>1. /\ PassPlace /\ PassPlace' /\ UNCHANGED <<plan, cut, kept, disk>>
        /\ pc' \in {"interrupted", "chain"} /\ Step \in Promise!Steps
        /\ plan.scoped => root' = root /\ live'.scope = Append(live.scope, Step)
        /\ ~plan.scoped => root' = Append(root, Step) /\ live'.scope = live.scope
        /\ live'.top = live.top /\ live'.iter = live.iter
        /\ live'.arm.i = live.arm.i + 1 /\ live'.arm.mark = "next"
        /\ live'.arm.pass = live.arm.pass /\ live'.arm # None
        /\ live'.body = live.body /\ live'.branch = live.branch
        /\ live.arm # None /\ live.arm.mark = "running" /\ live.arm.i <= ArmLen
    BY InnerVerbIs
  <1>2. /\ live.arm.i \in 1..ArmLen /\ live.iter.pass \in 0..(MaxIters - 1)
        /\ live.arm.pass = live.iter.pass /\ live.body.i = BranchAt
        /\ live.body.mark = "running" /\ live.body.pass = live.iter.pass
        /\ BranchAt \in Nat \ {0}
    <2>1. live.body.i \in 1..(BodyLen + 1)
      BY <1>1, PassNumbers
    <2> QED BY <1>1, <2>1, PassNumbers DEF Branching
  <1>3. PICK n : n = IF live.branch.taken = "then" THEN live.arm.i ELSE ArmLen + live.arm.i
    OBVIOUS
  <1> DEFINE s == <<IterAt, live.iter.pass, BranchAt, n>>
  <1>4. Step = s /\ ArmStep(live) = s /\ s \in Promise!Steps /\ s[1] = IterAt /\ s[3] > 0
    BY <1>1, <1>2, <1>3 DEF Step, ArmStep
  <1>5. /\ InIterate(Snapshot) /\ InPass(Snapshot) /\ Snapshot.parts.body = live.body
        /\ Snapshot.parts.top = live.top /\ Snapshot.parts.iter = live.iter
        /\ Snapshot.parts.arm = live.arm /\ Snapshot.parts.branch = live.branch
        /\ Snapshot.cut = cut /\ InArm(Snapshot)
    BY <1>1, PassSees DEF PassSeen
  <1>6. /\ InIterate(Snapshot') /\ InPass(Snapshot') /\ Snapshot'.parts.body = live'.body
        /\ Snapshot'.parts.top = live'.top /\ Snapshot'.parts.iter = live'.iter
        /\ Snapshot'.parts.arm = live'.arm /\ Snapshot'.parts.branch = live'.branch
        /\ Snapshot'.cut = cut' /\ InArm(Snapshot')
    BY <1>1, PassSeenAfter
  <1>7. Running(Snapshot) = s
    <2>1. Running(Snapshot) = ArmStep(Snapshot.parts)
      BY <1>1, <1>2, <1>5, RunningInPass
    <2> QED BY <1>4, <1>5, <2>1 DEF ArmStep
  <1>8. Running(Snapshot') = None
    BY <1>1, <1>2, <1>6, RunningInPass
  <1>9. ArmStep(Snapshot'.parts) = <<IterAt, live.iter.pass, BranchAt, n + 1>>
    <2>1. ArmStep(Snapshot'.parts) =
            <<IterAt, live.iter.pass, BranchAt,
              IF live.branch.taken = "then" THEN live.arm.i + 1 ELSE ArmLen + (live.arm.i + 1)>>
      BY <1>1, <1>2, <1>6 DEF ArmStep
    <2> QED BY <1>2, <1>3, <2>1
  <1> HIDE DEF s
  <1>10. /\ Trail(Snapshot') = Append(Trail(Snapshot), s) /\ Origin(Snapshot')
         /\ Trail(Snapshot) \in Seq(Promise!Steps)
    BY <1>1, <1>4, InnerWork
  <1>11. CursorsTrue(Snapshot'.parts)
    <2>1. CursorsTrue(Snapshot.parts)
      BY DEF Path, Sound
    <2>2. /\ \A c \in Chains \ {"arm"} : Snapshot'.parts[c] = Snapshot.parts[c]
          /\ Snapshot'.parts.iter = Snapshot.parts.iter
      BY <1>1, <1>5, <1>6 DEF Chains
    <2>3. "arm" \in Chains /\ Snapshot'.parts["arm"].mark = "next"
      BY <1>1, <1>6 DEF Chains
    <2> QED BY <2>1, <2>2, <2>3, CursorsWorked
  <1>12. ~Unstarted(Snapshot'.parts)
    BY <1>1, <1>2, <1>6 DEF Unstarted
  <1>13. Ahead(Snapshot')
    <2>1. n \in Nat /\ (n \notin {0, ArmLen, 2 * ArmLen} <=> live.arm.i + 1 <= ArmLen)
      BY <1>2, <1>3
    <2>2. \A fast : Upcoming(Snapshot', fast) =
                      IF ~fast /\ live.arm.i + 1 <= ArmLen THEN {ArmStep(Snapshot'.parts)}
                      ELSE Linear!Onward(live.iter.pass, BranchAt, fast)
      BY <1>1, <1>6, <1>12, UpcomingInPass
    <2>3. \A fast \in BOOLEAN :
            Linear!Successors(Append(Trail(Snapshot), s), fast) =
              IF ~fast /\ n \notin {0, ArmLen, 2 * ArmLen}
                THEN {<<IterAt, live.iter.pass, BranchAt, n + 1>>}
              ELSE Linear!Onward(live.iter.pass, BranchAt, fast)
      BY <1>2, <1>4, <1>10, <2>1, AfterArm DEF s
    <2>4. {Snapshot'.cut, TRUE} \subseteq BOOLEAN
      BY <1>1, <1>6, PassNumbers
    <2> QED BY <1>9, <1>10, <2>1, <2>2, <2>3, <2>4 DEF Ahead
  <1>14. Does(Snapshot, Snapshot')
    BY <1>1, <1>4, <1>5, <1>6, <1>7, <1>8, <1>10, NoneIsNoStep DEF Does
  <1>15. Turn'
    BY <1>1, <1>12, TurnElsewhere DEF InRound, Begun
  <1> QED BY <1>10, <1>11, <1>13, <1>14, <1>15 DEF Leads, Sound, Moves

LEMMA VerbLeads == ASSUME Inv, Path, VerbReturns PROVE Leads
  BY TopVerbLeads, BodyVerbLeads, ArmVerbLeads, InChains DEF Chains

-----------------------------------------------------------------------------
(* The branch. *)

(* A step that changes nothing a checkpoint would see. *)
LEMMA QuietLeads ==
  ASSUME Inv, Path, Snapshot' = Snapshot, plan' = plan, pc # "chain" \/ Begun(Snapshot),
         pc' \notin InRound \cup {"merge", "rescue"}
  PROVE  Leads
  <1>1. Begun(Snapshot)
    BY DEF Path, Turn
  <1>2. Turn'
    BY <1>1, TurnElsewhere
  <1> QED BY <1>2, Stands DEF Leads

LEMMA StopsLead == ASSUME Inv, Path, VerbStops \/ LoopStops PROVE Leads
  <1>1. UNCHANGED <<plan, cut, live, kept, root>> /\ pc' = "interrupted" /\ pc # "chain"
    BY DEF VerbStops, LoopStops, AtHead, At, Goes, runVars
  <1>2. Snapshot' = Snapshot
    BY <1>1, SnapshotStands
  <1> QED BY <1>1, <1>2, QuietLeads DEF InRound

LEMMA TakeArmLeads == ASSUME Inv, Path, TakeArm PROVE Leads
  <1>1. UNCHANGED <<plan, cut, root>> /\ pc' \in {"chain", "when"} /\ pc = "choose"
        /\ status = "running"
    BY DEF TakeArm, At, Goes, runVars
  <1>2. CASE SavedArm
    <2>1. /\ live' = [live EXCEPT !.branch = kept.branch, !.arm = kept.arm]
          /\ kept' = [kept EXCEPT !.branch = None, !.arm = None]
      BY <1>2 DEF TakeArm
    <2>2. /\ live'.branch = kept.branch /\ live'.arm = kept.arm
          /\ live'.top = live.top /\ live'.iter = live.iter /\ live'.scope = live.scope
          /\ live'.body = live.body
          /\ kept'.branch = None /\ kept'.arm = None /\ kept'.top = kept.top
          /\ kept'.iter = kept.iter /\ kept'.scope = kept.scope /\ kept'.body = kept.body
      BY <2>1 DEF Inv, TypeOK, Registry
    <2>3. live.arm = None /\ live.branch = None /\ kept.branch # None /\ kept.arm # None
      BY <1>1, <1>2 DEF Inv, Held, Control, InBranch, Paired, SavedArm
    <2>4. Snapshot' = Snapshot
      BY <1>1, <2>2, <2>3, SnapshotSame, PartsAre DEF Capture
    <2> QED BY <1>1, <2>4, QuietLeads DEF InRound
  <1>3. CASE ~SavedArm
    <2>1. UNCHANGED <<live, kept>>
      BY <1>3 DEF TakeArm
    <2>2. Snapshot' = Snapshot
      BY <1>1, <2>1, SnapshotStands
    <2> QED BY <1>1, <2>2, QuietLeads DEF InRound
  <1> QED BY <1>2, <1>3

(* The branch's step of the body, as a checkpoint would see it. *)
LEMMA BranchSeen ==
  ASSUME Inv, Path, status = "running", InBody, Branching(live.body)
  PROVE  /\ PassPlace /\ BranchAt \in 2..BodyLen /\ live.iter.pass \in 0..(MaxIters - 1)
         /\ live.body.i = BranchAt /\ live.body.mark = "running"
         /\ live.body.pass = live.iter.pass /\ live.body # None
         /\ InIterate(Snapshot) /\ InPass(Snapshot) /\ ~Unstarted(Snapshot.parts)
         /\ Snapshot.parts.body = live.body /\ Snapshot.parts.iter = live.iter
         /\ Snapshot.parts.top = live.top /\ Snapshot.cut = cut /\ cut \in BOOLEAN
         /\ CursorsTrue(Snapshot.parts)
         /\ Running(Snapshot) = None =>
              \A fast \in {cut, TRUE} :
                Upcoming(Snapshot, fast) \subseteq Linear!Successors(Trail(Snapshot), fast)
  <1>1. PassPlace
    BY DEF PassPlace
  <1>2. /\ live.body.i \in 1..(BodyLen + 1) /\ live.iter.pass \in 0..(MaxIters - 1)
        /\ live.body.pass = live.iter.pass /\ live.body # None /\ cut \in BOOLEAN
    BY <1>1, PassNumbers
  <1>3. /\ InIterate(Snapshot) /\ InPass(Snapshot) /\ Snapshot.parts.body = live.body
        /\ Snapshot.parts.iter = live.iter /\ Snapshot.parts.top = live.top /\ Snapshot.cut = cut
    BY <1>1, PassSees DEF PassSeen
  <1>4. live.body.i = BranchAt /\ live.body.mark = "running"
    BY DEF Branching
  <1>5. CursorsTrue(Snapshot.parts) /\ Ahead(Snapshot)
    BY DEF Path, Sound
  <1>6. BranchAt \in 2..BodyLen
    BY <1>2, <1>4
  <1>7. ~Unstarted(Snapshot.parts)
    BY <1>3, <1>4 DEF Unstarted
  <1>8. Running(Snapshot) = None =>
          \A fast \in {cut, TRUE} :
            Upcoming(Snapshot, fast) \subseteq Linear!Successors(Trail(Snapshot), fast)
    BY <1>3, <1>5 DEF Ahead
  <1> QED BY <1>1, <1>2, <1>3, <1>4, <1>5, <1>6, <1>7, <1>8

LEMMA ChoosesLeads ==
  ASSUME Inv, Path, NEW taken \in {"then", "else"}, Chooses(taken) PROVE Leads
  <1> DEFINE b == Branch(taken)
             c == First(live.body.val, live.body.pass)
  <1>1. /\ status = "running" /\ pc = "when" /\ pc' = "chain"
        /\ live' = [live EXCEPT !.branch = b, !.arm = c]
        /\ UNCHANGED <<runVars, kept, root, disk>> /\ (taken = "then" \/ plan.orelse)
    BY DEF Chooses, At, Goes
  <1>2. /\ InBody /\ Branching(live.body) /\ live.arm = None
        /\ kept.arm # None => kept.arm.pass < live.iter.pass
    BY <1>1, Undecided DEF InBranch
  <1>3. /\ PassPlace /\ BranchAt \in 2..BodyLen /\ live.iter.pass \in 0..(MaxIters - 1)
        /\ live.body.i = BranchAt /\ live.body.mark = "running"
        /\ live.body.pass = live.iter.pass /\ live.body # None
        /\ InIterate(Snapshot) /\ InPass(Snapshot) /\ ~Unstarted(Snapshot.parts)
        /\ Snapshot.parts.body = live.body /\ Snapshot.parts.iter = live.iter
        /\ Snapshot.parts.top = live.top /\ Snapshot.cut = cut /\ cut \in BOOLEAN
        /\ CursorsTrue(Snapshot.parts)
        /\ Running(Snapshot) = None =>
             \A fast \in {cut, TRUE} :
               Upcoming(Snapshot, fast) \subseteq Linear!Successors(Trail(Snapshot), fast)
    BY <1>1, <1>2, BranchSeen
  <1>4. ~InArm(Snapshot)
    <2>1. PassSeen /\ Numbers
      BY <1>3, PassSees
    <2> QED BY <1>2, <1>3, <2>1 DEF PassSeen, Numbers
  <1>5. c.i = 1 /\ c.mark = "next" /\ c.pass = live.iter.pass /\ b.taken = taken
    BY <1>3 DEF First, Branch
  <1>6. c # None
    <2>1. live.body.val \in Seq(Promise!Steps)
      BY <1>3, PassNumbers DEF ChainCursor
    <2>2. c \in ChainCursor("arm")
      BY <1>3, <2>1, FirstTypes DEF Chains
    <2> QED BY <2>2, CursorIsNotNone DEF Chains
  <1> HIDE DEF b, c
  <1>7. /\ live'.branch = b /\ live'.arm = c /\ live'.top = live.top /\ live'.iter = live.iter
        /\ live'.scope = live.scope /\ live'.body = live.body
    BY <1>1 DEF Inv, TypeOK, Registry
  <1>8. PassPlace'
    <2>1. Inv'
      BY InvIsInductive DEF Next, Walk
    <2> QED BY <1>1, <1>2, <1>5, <1>7, <2>1 DEF PassPlace, InBody, Inside, runVars, Branching
  <1>9. /\ Origin(Snapshot') /\ Trail(Snapshot') = Trail(Snapshot)
        /\ Snapshot'.cut = Snapshot.cut
    BY <1>1, <1>3, <1>7, <1>8, IdleOrigin DEF runVars
  <1>10. /\ InIterate(Snapshot') /\ InPass(Snapshot') /\ InArm(Snapshot')
         /\ Snapshot'.parts.body = live.body /\ Snapshot'.parts.iter = live.iter
         /\ Snapshot'.parts.top = live.top
         /\ Snapshot'.parts.arm = c /\ Snapshot'.parts.branch = b
    BY <1>6, <1>7, <1>8, PassSeenAfter
  <1>11. Running(Snapshot) = None /\ Running(Snapshot') = None
    BY <1>3, <1>4, <1>5, <1>10, RunningInPass
  <1>12. ~Unstarted(Snapshot'.parts)
    BY <1>3, <1>10 DEF Unstarted
  <1>13. ASSUME NEW fast \in {cut, TRUE}
         PROVE  Upcoming(Snapshot', fast) \subseteq Upcoming(Snapshot, fast)
    <2>1. /\ Upcoming(Snapshot, fast) = Linear!BodyAfter(live.iter.pass, BranchAt - 1, fast)
          /\ Upcoming(Snapshot', fast) =
               IF ~fast /\ c.i <= ArmLen THEN {ArmStep(Snapshot'.parts)}
               ELSE Linear!Onward(live.iter.pass, BranchAt, fast)
      BY <1>3, <1>4, <1>10, <1>12, UpcomingInPass
    <2>2. CASE fast
      <3>0. fast \in BOOLEAN
        BY <1>3, Zenon
      <3>1. BranchAt # 0
        BY <1>3
      <3>2. Linear!Onward(live.iter.pass, BranchAt, fast)
              \subseteq Linear!BodyAfter(live.iter.pass, BranchAt - 1, fast)
        BY <2>2, <3>0, <3>1, BranchPassed
      <3> QED BY <2>1, <2>2, <3>2
    <2>3. CASE ~fast
      <3>1. ArmStep(Snapshot'.parts) =
              <<IterAt, live.iter.pass, BranchAt, IF taken = "then" THEN 1 ELSE ArmLen + 1>>
        BY <1>5, <1>10 DEF ArmStep
      <3>2. (BranchAt - 1) + 1 = BranchAt
        BY <1>3
      <3>3. ArmStep(Snapshot'.parts) \in Linear!BodyAfter(live.iter.pass, BranchAt - 1, fast)
        BY <1>1, <2>3, <3>1, <3>2 DEF Linear!BodyAfter
      <3> QED BY <1>5, <2>1, <2>3, <3>3
    <2> QED BY <2>2, <2>3
  <1>14. Ahead(Snapshot')
    BY <1>3, <1>9, <1>11, <1>13 DEF Ahead
  <1>15. CursorsTrue(Snapshot'.parts)
    BY <1>3, <1>5, <1>10, CursorsWorked DEF Chains
  <1>16. Stays(Snapshot, Snapshot')
    BY <1>9, <1>11 DEF Stays
  <1>17. Turn'
    BY <1>1, <1>12, TurnElsewhere DEF InRound, Begun, runVars
  <1> QED BY <1>9, <1>14, <1>15, <1>16, <1>17 DEF Leads, Sound, Moves

(* The branch's step ends: without an arm, or past one. *)
LEMMA BranchLeads ==
  ASSUME Inv, Path, Inv', status = "running", InBody, Branching(live.body), UNCHANGED <<runVars, kept, root>>,
         NEW reg \in Registry, reg.top = live.top, reg.iter = live.iter, reg.scope = live.scope,
         reg.body = live.body, reg.branch = None, reg.arm = None,
         NEW result \in Seq(Promise!Steps), Completes("body", reg, result),
         Running(Snapshot) = None,
         \A fast \in {cut, TRUE} :
           Linear!Onward(live.iter.pass, BranchAt, fast) \subseteq Upcoming(Snapshot, fast)
  PROVE  Leads
  <1>1. /\ PassPlace /\ BranchAt \in 2..BodyLen /\ live.iter.pass \in 0..(MaxIters - 1)
        /\ live.body.i = BranchAt /\ live.body.mark = "running"
        /\ live.body.pass = live.iter.pass /\ live.body # None
        /\ InIterate(Snapshot) /\ InPass(Snapshot) /\ ~Unstarted(Snapshot.parts)
        /\ Snapshot.parts.body = live.body /\ Snapshot.parts.iter = live.iter
        /\ Snapshot.parts.top = live.top /\ Snapshot.cut = cut /\ cut \in BOOLEAN
        /\ CursorsTrue(Snapshot.parts)
        /\ \A fast \in {cut, TRUE} :
             Upcoming(Snapshot, fast) \subseteq Linear!Successors(Trail(Snapshot), fast)
    BY BranchSeen
  <1>2. /\ pc' \in {"interrupted", "chain"}
        /\ live'.body.i = BranchAt + 1 /\ live'.body.mark = "next"
        /\ live'.body.pass = live.body.pass /\ live'.body # None
        /\ live'.top = live.top /\ live'.iter = live.iter /\ live'.scope = live.scope
        /\ live'.arm = None
    <2>1. reg.body # None /\ reg.body.i <= BodyLen
      BY <1>1
    <2> QED BY <1>1, <2>1, CompletesBody
  <1>3. PassPlace'
    BY <1>2 DEF PassPlace, InBody, Inside, runVars
  <1>4. /\ Origin(Snapshot') /\ Trail(Snapshot') = Trail(Snapshot)
        /\ Snapshot'.cut = Snapshot.cut
    BY <1>1, <1>2, <1>3, IdleOrigin DEF runVars
  <1>5. /\ InIterate(Snapshot') /\ InPass(Snapshot') /\ Snapshot'.parts.body = live'.body
        /\ Snapshot'.parts.top = live'.top /\ Snapshot'.parts.iter = live'.iter
        /\ Snapshot'.parts.arm = kept.arm /\ PassFacts'
        /\ InArm(Snapshot') <=> kept'.arm # None /\ kept'.arm.pass >= live'.iter.pass
    BY <1>2, <1>3, PassSeenAfter DEF Capture
  <1>6. ~Unstarted(Snapshot'.parts) /\ ~InArm(Snapshot')
    <2>1. ~Branching(live'.body)
      BY <1>1, <1>2 DEF Branching
    <2> QED BY <1>1, <1>2, <1>5, <2>1 DEF Unstarted, PassFacts
  <1>7. Running(Snapshot') = None
    BY <1>2, <1>5, RunningInPass
  <1>8. ASSUME NEW fast \in {cut, TRUE}
        PROVE  Upcoming(Snapshot', fast) = Linear!Onward(live.iter.pass, BranchAt, fast)
    <2>0. fast \in BOOLEAN
      BY <1>1, Zenon
    <2>1. (BranchAt + 1) - 1 = BranchAt /\ BranchAt \in 0..BodyLen /\ BranchAt + 1 # BranchAt
      BY <1>1
    <2>2. Upcoming(Snapshot', fast) = Linear!BodyAfter(live.iter.pass, BranchAt, fast)
      BY <1>2, <1>5, <1>6, <2>1, UpcomingInPass
    <2> QED BY <2>0, <2>1, <2>2, BodyAfterIs
  <1>9. Ahead(Snapshot')
    BY <1>1, <1>4, <1>8 DEF Ahead
  <1>10. CursorsTrue(Snapshot'.parts)
    <2> SUFFICES ASSUME NEW l \in Chains, Snapshot'.parts[l] # None,
                        Snapshot'.parts[l].mark = "running"
                 PROVE  Snapshot'.parts[l].i <= Length[l]
        BY <1>1, <1>2, <1>5 DEF CursorsTrue
    <2>1. CASE l = "top"
      BY <1>1, <1>2, <1>5, <2>1 DEF CursorsTrue, Chains
    <2>2. CASE l = "body"
      BY <1>2, <1>5, <2>2
    <2>3. CASE l = "arm"
      <3>1. live.arm # None \/ Snapshot.parts.arm = kept.arm
        BY <1>1, PassSees DEF PassSeen, Capture
      <3>2. CASE live.arm = None
        BY <1>1, <1>5, <2>3, <3>1, <3>2 DEF CursorsTrue, Chains
      <3>3. CASE live.arm # None
        BY <1>5, <2>3 DEF Path, KeptTrue, Chains
      <3> QED BY <3>2, <3>3
    <2> QED BY <2>1, <2>2, <2>3 DEF Chains
  <1>11. Stays(Snapshot, Snapshot')
    BY <1>4, <1>7 DEF Stays
  <1>12. Turn'
    BY <1>2, <1>6, TurnElsewhere DEF InRound, Begun, runVars
  <1> QED BY <1>4, <1>9, <1>10, <1>11, <1>12 DEF Leads, Sound, Moves

LEMMA ChoosesNoneLeads == ASSUME Inv, Path, ChoosesNone PROVE Leads
  <1>1. /\ status = "running" /\ pc = "when" /\ ~plan.orelse
        /\ Completes("body", live, live.body.val) /\ UNCHANGED <<runVars, kept, root, disk>>
    BY DEF ChoosesNone, At
  <1>2. /\ InBody /\ Branching(live.body) /\ live.arm = None /\ live.branch = None
        /\ kept.arm # None => kept.arm.pass < live.iter.pass
        /\ PassFacts
    BY <1>1, Undecided DEF InBranch
  <1>3. live \in Registry /\ live.body.val \in Seq(Promise!Steps) /\ Inv'
    BY <1>2, PassTypes, InvIsInductive DEF Inv, TypeOK, Next, Walk
  <1>4. /\ PassPlace /\ BranchAt \in 2..BodyLen /\ live.body.i = BranchAt
        /\ live.body.mark = "running" /\ live.body.pass = live.iter.pass
        /\ InIterate(Snapshot) /\ InPass(Snapshot) /\ ~Unstarted(Snapshot.parts)
        /\ Snapshot.parts.body = live.body /\ Snapshot.parts.iter = live.iter
        /\ cut \in BOOLEAN
    BY <1>1, <1>2, BranchSeen
  <1>5. ~InArm(Snapshot)
    <2>1. PassSeen /\ Numbers
      BY <1>4, PassSees
    <2> QED BY <1>2, <1>4, <2>1 DEF PassSeen, Numbers
  <1>6. Running(Snapshot) = None
    BY <1>4, <1>5, RunningInPass
  <1>7. ASSUME NEW fast \in {cut, TRUE}
        PROVE  Linear!Onward(live.iter.pass, BranchAt, fast) \subseteq Upcoming(Snapshot, fast)
    <2>1. fast \in BOOLEAN
      BY <1>4, Zenon
    <2>2. BranchAt # 0
      BY <1>4
    <2>3. Upcoming(Snapshot, fast) = Linear!BodyAfter(live.iter.pass, BranchAt - 1, fast)
      BY <1>4, <1>5, UpcomingInPass
    <2> QED BY <1>1, <2>1, <2>2, <2>3, BranchPassed
  <1> QED BY <1>1, <1>2, <1>3, <1>6, <1>7, BranchLeads

LEMMA EndArmLeads == ASSUME Inv, Path, EndArm PROVE Leads
  <1> DEFINE reg == [live EXCEPT !.branch = None, !.arm = None]
  <1>1. /\ status = "running" /\ live.arm # None /\ live.arm.i > ArmLen
        /\ Completes("body", reg, live.arm.val)
        /\ UNCHANGED <<runVars, kept, root, disk>>
    BY DEF EndArm, At, Walking
  <1>2. InBody /\ Branching(live.body)
    BY <1>1 DEF EndArm, At, Inv, Held, Control, Bare, InBody
  <1>3. PassFacts
    BY <1>1, <1>2, PassOut
  <1>4. /\ reg \in Registry /\ reg.top = live.top /\ reg.iter = live.iter
        /\ reg.scope = live.scope /\ reg.body = live.body
        /\ reg.branch = None /\ reg.arm = None
    BY DEF Inv, TypeOK, Registry
  <1> HIDE DEF reg
  <1>5. live.arm.val \in Seq(Promise!Steps) /\ Inv'
    BY <1>1, <1>3, PassTypes, InvIsInductive DEF Next, Walk
  <1>6. /\ PassPlace /\ BranchAt \in 2..BodyLen /\ live.body.i = BranchAt
        /\ live.body.mark = "running" /\ live.body.pass = live.iter.pass
        /\ InIterate(Snapshot) /\ InPass(Snapshot) /\ ~Unstarted(Snapshot.parts)
        /\ Snapshot.parts.body = live.body /\ Snapshot.parts.iter = live.iter
        /\ CursorsTrue(Snapshot.parts)
    BY <1>1, <1>2, BranchSeen
  <1>7. InArm(Snapshot) /\ Snapshot.parts.arm = live.arm
    BY <1>1, <1>6, PassSees DEF PassSeen
  <1>8. live.arm.i \in 1..(ArmLen + 1)
    BY <1>1, <1>6, PassNumbers
  <1>9. live.arm.mark # "running"
    <2>1. "arm" \in Chains /\ Snapshot.parts["arm"] = live.arm
      BY <1>7 DEF Chains
    <2> QED BY <1>1, <1>6, <1>8, <2>1, Lengths DEF CursorsTrue
  <1>10. Running(Snapshot) = None
    BY <1>6, <1>7, <1>9, RunningInPass
  <1>11. ~(live.arm.i <= ArmLen)
    BY <1>1, <1>8
  <1>12. \A fast : Upcoming(Snapshot, fast) = Linear!Onward(live.iter.pass, BranchAt, fast)
    BY <1>6, <1>7, <1>11, UpcomingInPass
  <1>13. \A fast \in {cut, TRUE} :
           Linear!Onward(live.iter.pass, BranchAt, fast) \subseteq Upcoming(Snapshot, fast)
    BY <1>12
  <1>14. UNCHANGED <<runVars, kept, root>>
    BY <1>1
  <1>15. Completes("body", reg, live.arm.val)
    BY <1>1
  <1> QED BY <1>1, <1>2, <1>4, <1>5, <1>10, <1>13, <1>14, <1>15, BranchLeads

-----------------------------------------------------------------------------
(* Between two passes. *)

(* Between two passes. *)
LEMMA UpcomingInLoop ==
  ASSUME NEW e, InIterate(e), e.parts.iter # None, ~InPass(e)
  PROVE  /\ \A fast : Upcoming(e, fast) = AtPass(e.parts.iter.pass, fast)
         /\ Running(e) = None
  BY DEF Upcoming, Running, InIterate

LEMMA PassEnds ==
  ASSUME NEW p \in Nat, NEW fast,
         fast = TRUE \/ (p > 0 /\ (p >= MaxIters \/ p >= plan.stop \/ plan.deadline))
  PROVE  Linear!TopAfter(IterAt, fast) \in AtPass(p, fast)
  <1>1. CASE p > 0
    <2>1. (p - 1) + 1 = p
      OBVIOUS
    <2> QED BY <1>1, <2>1 DEF AtPass, Linear!PassAfter
  <1>2. CASE ~(p > 0)
    BY <1>2 DEF AtPass
  <1> QED BY <1>1, <1>2

(* The iterate may end where the run stands. *)
LEMMA EndFollows ==
  ASSUME NEW e, Ahead(e), InIterate(e), e.parts.iter # None, ~InPass(e),
         NEW p \in Nat, p = e.parts.iter.pass, e.cut \in BOOLEAN,
         ~e.cut => p > 0 /\ (p >= MaxIters \/ p >= plan.stop \/ plan.deadline)
  PROVE  \A fast \in {e.cut, TRUE} :
           Linear!TopAfter(IterAt, fast) \in Linear!Successors(Trail(e), fast)
  <1> SUFFICES ASSUME NEW fast \in {e.cut, TRUE}
               PROVE  Linear!TopAfter(IterAt, fast) \in Linear!Successors(Trail(e), fast)
      OBVIOUS
  <1>1. fast = TRUE \/ ~e.cut
    BY Zenon
  <1>2. Linear!TopAfter(IterAt, fast) \in AtPass(p, fast)
    BY <1>1, PassEnds
  <1>3. Upcoming(e, fast) = AtPass(p, fast) /\ Running(e) = None
    BY UpcomingInLoop
  <1> QED BY <1>2, <1>3 DEF Ahead

LEMMA LoopNumbers ==
  ASSUME LoopPlace, Path
  PROVE  /\ live.iter \in IterCursor /\ live.iter.pass \in 0..MaxIters /\ live.iter # None
         /\ plan.stop \in Nat \ {0} /\ cut \in BOOLEAN
         /\ live.iter.done # "unknown" =>
              live.iter.done = IF live.iter.pass >= plan.stop THEN "yes" ELSE "no"
         /\ live.iter.done = "unknown" => live.iter.pass > 0
         /\ live.iter.done = "yes" => live.iter.pass >= plan.stop /\ live.iter.pass > 0
         /\ PassDone => ~SavedPass
         /\ Ahead(Snapshot) /\ CursorsTrue(Snapshot.parts)
  <1>1. LoopSeen /\ LoopFacts
    BY LoopSees
  <1>2. /\ live.iter \in IterCursor /\ live.iter.pass \in 0..MaxIters /\ live.iter # None
        /\ kept.body # None => kept.body.pass \in Nat
    BY <1>1, LoopTypes DEF LoopPlace, Numbers
  <1>3. plan.stop \in Nat \ {0} /\ cut \in BOOLEAN
    BY PlanTypes DEF LoopPlace, Inv, TypeOK
  <1>4. Ahead(Snapshot) /\ CursorsTrue(Snapshot.parts)
    BY DEF Path, Sound
  <1>5. \/ live.iter.done = "unknown" /\ live.iter.pass > 0
        \/ live.iter.done = (IF live.iter.pass >= plan.stop THEN "yes" ELSE "no")
    BY <1>1, <1>4 DEF LoopSeen, CursorsTrue
  <1>6. PassDone => ~SavedPass
    BY <1>2 DEF PassDone, SavedPass
  <1> QED BY <1>2, <1>3, <1>4, <1>5, <1>6

LEMMA LoopEndsLeads == ASSUME Inv, Path, LoopEnds PROVE Leads
  <1>1. /\ UNCHANGED <<runVars, live, kept, root, disk>> /\ pc' = "merge"
        /\ status = "running" /\ pc \in {"loop", "again"}
        /\ Bounded \/ (plan.deadline /\ pc = "again") \/ ShortcutEnds
    BY DEF LoopEnds, AtHead, At, Goes
  <1>2. LoopPlace /\ (pc = "again" => PassDone /\ live.iter.pass > 0)
    BY <1>1 DEF LoopPlace, Inv, Held, Control, Path, Turn
  <1>3. /\ live.iter.pass \in 0..MaxIters /\ cut \in BOOLEAN /\ Ahead(Snapshot)
        /\ PassDone => ~SavedPass
    BY <1>2, LoopNumbers
  <1>4. /\ InIterate(Snapshot) /\ live.iter # None /\ Snapshot.parts.iter = live.iter
        /\ Snapshot.cut = cut /\ (InPass(Snapshot) <=> SavedPass) /\ LoopFacts
    BY <1>2, LoopSees DEF LoopSeen
  <1>5. ~InPass(Snapshot)
    <2>1. CASE Bounded
      BY <1>3, <1>4, <2>1 DEF LoopFacts, SavedPass, Bounded
    <2>2. CASE pc = "again"
      BY <1>2, <1>3, <1>4, <2>2
    <2>3. CASE ShortcutEnds
      BY <1>4, <2>3 DEF ShortcutEnds
    <2> QED BY <1>1, <2>1, <2>2, <2>3
  <1>6. ~cut => live.iter.pass > 0 /\ (live.iter.pass >= MaxIters \/ plan.deadline)
    BY <1>1, <1>2, <1>3 DEF Bounded, ShortcutEnds
  <1>7. Snapshot' = Snapshot
    BY <1>1, SnapshotStands DEF runVars
  <1>8. \A fast \in {Snapshot.cut, TRUE} :
          Linear!TopAfter(IterAt, fast) \in Linear!Successors(Trail(Snapshot), fast)
    <2>1. live.iter.pass \in Nat
      BY <1>3
    <2> QED BY <1>3, <1>4, <1>5, <1>6, <2>1, EndFollows
  <1>9. Begun(Snapshot)
    BY <1>5 DEF Begun
  <1>10. Turn'
    BY <1>1, <1>4, <1>7, <1>8, <1>9, TurnAt DEF InRound, runVars
  <1> QED BY <1>7, <1>10, Stands DEF Leads

LEMMA SaveLeads == ASSUME Inv, Path, SaveReturns PROVE Leads
  <1>1. /\ UNCHANGED <<runVars, live, kept, root>> /\ status = "running" /\ pc = "saving"
        /\ pc' = IF live.iter.done = "yes" THEN "merge" ELSE "again"
    BY DEF SaveReturns, At, Goes, AfterVerdict
  <1>2. LoopPlace /\ PassDone /\ live.iter.pass > 0
    BY <1>1 DEF LoopPlace, Inv, Held, Control, Path, Turn
  <1>3. /\ live.iter.pass \in 0..MaxIters /\ cut \in BOOLEAN /\ Ahead(Snapshot)
        /\ ~SavedPass /\ (live.iter.done = "yes" => live.iter.pass >= plan.stop)
    BY <1>2, LoopNumbers
  <1>4. /\ InIterate(Snapshot) /\ live.iter # None /\ Snapshot.parts.iter = live.iter
        /\ Snapshot.cut = cut /\ ~InPass(Snapshot)
    BY <1>2, <1>3, LoopSees DEF LoopSeen
  <1>5. Snapshot' = Snapshot
    BY <1>1, SnapshotStands DEF runVars
  <1>6. ASSUME pc' = "merge"
        PROVE  \A fast \in {Snapshot.cut, TRUE} :
                 Linear!TopAfter(IterAt, fast) \in Linear!Successors(Trail(Snapshot), fast)
    <2>1. live.iter.pass \in Nat /\ live.iter.pass >= plan.stop
      BY <1>1, <1>3, <1>6
    <2> QED BY <1>2, <1>3, <1>4, <2>1, EndFollows
  <1>7. Turn'
    <2>1. Begun(Snapshot)
      BY <1>4 DEF Begun
    <2> QED BY <1>1, <1>2, <1>4, <1>5, <1>6, <2>1, TurnAt DEF runVars
  <1> QED BY <1>5, <1>7, Stands DEF Leads

(* The verdict changes, and no place. *)
LEMMA VerdictLeads ==
  ASSUME Inv, Path, Inv', LoopPlace, PassDone, live' = [live EXCEPT !.iter.done = Verdict],
         UNCHANGED <<runVars, kept, root>>, pc # "chain",
         pc' \in InRound => live.iter.pass > 0,
         pc' = "merge" => Verdict = "yes", pc' # "rescue", PassDone'
  PROVE  Leads
  <1>1. /\ live.iter \in IterCursor /\ live.iter.pass \in 0..MaxIters /\ live.iter # None
        /\ plan.stop \in Nat \ {0} /\ cut \in BOOLEAN /\ ~SavedPass
        /\ Ahead(Snapshot) /\ CursorsTrue(Snapshot.parts)
    BY LoopNumbers
  <1> DEFINE iter == [live.iter EXCEPT !.done = Verdict]
  <1>2. Verdict \in {"yes", "no"}
    BY DEF Verdict
  <1>3. /\ iter # None /\ iter.pass = live.iter.pass /\ iter.done = Verdict
    <2>1. iter \in IterCursor /\ iter.pass = live.iter.pass /\ iter.done = Verdict
      BY <1>1, <1>2 DEF IterCursor
    <2> QED BY <2>1, CursorIsNotNone
  <1>4. live' = [live EXCEPT !.iter = iter]
    BY <1>1 DEF Inv, TypeOK, Registry
  <1> HIDE DEF iter
  <1>5. /\ live'.iter = iter /\ live'.body = live.body /\ live'.top = live.top
        /\ live'.scope = live.scope /\ live'.arm = live.arm
    BY <1>4 DEF Inv, TypeOK, Registry
  <1>6. LoopPlace'
    BY <1>3, <1>5 DEF LoopPlace, InLoop, Inside, runVars
  <1>7. /\ Origin(Snapshot') /\ Trail(Snapshot') = Trail(Snapshot)
        /\ Snapshot'.cut = Snapshot.cut /\ Snapshot.cut = cut
    BY <1>5, <1>6, IdleOrigin DEF runVars
  <1>8. /\ InIterate(Snapshot) /\ Snapshot.parts.iter = live.iter /\ ~InPass(Snapshot)
        /\ Snapshot.parts.top = live.top /\ Snapshot.parts.body = kept.body
        /\ Snapshot.parts.arm = kept.arm
    BY <1>1, LoopSees DEF LoopSeen
  <1>9. /\ InIterate(Snapshot') /\ Snapshot'.parts.iter = iter /\ ~InPass(Snapshot')
        /\ Snapshot'.parts.top = live'.top /\ Snapshot'.parts.body = kept'.body
        /\ Snapshot'.parts.arm = kept'.arm
    <2>1. ~SavedPass'
      BY <1>1, <1>3, <1>5 DEF SavedPass, runVars
    <2> QED BY <1>5, <1>6, <2>1, LoopSeenAfter
  <1>10. Running(Snapshot) = None /\ Running(Snapshot') = None
    BY <1>1, <1>3, <1>8, <1>9, UpcomingInLoop
  <1>11. Ahead(Snapshot')
    <2>1. \A fast : Upcoming(Snapshot', fast) = Upcoming(Snapshot, fast)
      BY <1>1, <1>3, <1>8, <1>9, UpcomingInLoop
    <2> QED BY <1>1, <1>7, <1>10, <2>1 DEF Ahead
  <1>12. CursorsTrue(Snapshot'.parts)
    <2>1. \A l \in Chains : Snapshot'.parts[l] = Snapshot.parts[l]
      BY <1>5, <1>8, <1>9 DEF Chains, runVars
    <2>2. iter.done = (IF iter.pass >= plan.stop THEN "yes" ELSE "no")
      BY <1>3 DEF Verdict
    <2> QED BY <1>1, <1>9, <2>1, <2>2 DEF CursorsTrue
  <1>13. Stays(Snapshot, Snapshot')
    BY <1>7, <1>10 DEF Stays
  <1>14. ASSUME pc' = "merge"
         PROVE  \A fast \in {Snapshot'.cut, TRUE} :
                  Linear!TopAfter(IterAt, fast) \in Linear!Successors(Trail(Snapshot'), fast)
    <2>1. live.iter.pass \in Nat /\ live.iter.pass > 0 /\ live.iter.pass >= plan.stop
      BY <1>1, <1>14 DEF Verdict
    <2> QED BY <1>1, <1>3, <1>7, <1>9, <1>11, <2>1, EndFollows
  <1>15. Turn'
    <2>1. Begun(Snapshot')
      BY <1>9 DEF Begun
    <2>2. cut' = Snapshot'.cut
      BY <1>7 DEF runVars
    <2> QED BY <1>3, <1>5, <1>14, <2>1, <2>2, TurnAt DEF runVars
  <1> QED BY <1>7, <1>11, <1>12, <1>13, <1>15 DEF Leads, Sound, Moves

LEMMA VerdictsLead == ASSUME Inv, Path, Until \/ Recheck PROVE Leads
  <1>1. /\ status = "running" /\ pc \in {"until", "recheck"}
        /\ live' = [live EXCEPT !.iter.done = Verdict] /\ UNCHANGED <<runVars, kept, root, disk>>
        /\ \/ pc' = "saving" \/ pc' = AfterVerdict(Verdict, "again")
           \/ pc' = AfterVerdict(Verdict, "loop")
    BY DEF Until, Recheck, At, Goes
  <1>2. LoopPlace /\ PassDone /\ live.iter.pass > 0
    BY <1>1 DEF LoopPlace, Inv, Held, Control, Path, Turn
  <1>3. Inv'
    BY InvIsInductive DEF Next, Walk
  <1>4. pc' # "rescue" /\ (pc' = "merge" => Verdict = "yes")
    BY <1>1 DEF AfterVerdict
  <1>5. PassDone'
    <2>1. live'.iter.pass = live.iter.pass
      <3>1. live.iter \in IterCursor
        BY <1>2, LoopNumbers
      <3> QED BY <1>1, <3>1 DEF Inv, TypeOK, Registry, IterCursor
    <2> QED BY <1>1, <1>2, <2>1 DEF PassDone
  <1> QED BY <1>1, <1>2, <1>3, <1>4, <1>5, VerdictLeads

LEMMA StartPassLeads == ASSUME Inv, Path, StartPass PROVE Leads
  <1>1. /\ status = "running" /\ InLoop /\ live.iter.done = "no"
        /\ ~(live.iter.pass >= MaxIters) /\ ~ShortcutEnds
        /\ pc' = "chain" /\ pc \in {"loop", "again"} /\ UNCHANGED <<runVars, root, disk>>
    BY DEF StartPass, AtHead, At, Goes, Bounded, Inv, Held, Control
  <1>2. LoopPlace
    BY <1>1 DEF LoopPlace
  <1>3. Inv'
    BY InvIsInductive DEF Next, Walk
  <1>4. CASE SavedPass
    <2>1. live' = [live EXCEPT !.body = kept.body] /\ kept' = [kept EXCEPT !.body = None]
      BY <1>4 DEF StartPass
    <2>2. /\ live'.body = kept.body /\ live'.top = live.top /\ live'.iter = live.iter
          /\ live'.scope = live.scope /\ live'.branch = live.branch /\ live'.arm = live.arm
          /\ kept'.body = None /\ kept'.top = kept.top /\ kept'.iter = kept.iter
          /\ kept'.scope = kept.scope /\ kept'.branch = kept.branch /\ kept'.arm = kept.arm
          /\ live.body = None /\ kept.body # None
      BY <1>1, <1>4, <2>1 DEF Inv, TypeOK, Registry, InLoop, SavedPass
    <2>3. Snapshot' = Snapshot
      BY <1>1, <2>2, SnapshotSame, PartsAre DEF Capture, runVars
    <2> QED BY <1>1, <2>3, QuietLeads DEF InRound, runVars
  <1>5. CASE ~SavedPass
    <2> DEFINE body == First(live.iter.carry, live.iter.pass)
    <2>1. live' = [live EXCEPT !.body = body] /\ kept' = [kept EXCEPT !.body = @]
      BY <1>5 DEF StartPass
    <2>2. body # None /\ body.pass = live.iter.pass /\ body.i = 1 /\ body.mark = "next"
      <3>1. body \in ChainCursor("body")
        BY <1>2, LoopSees, LoopTypes, FirstTypes DEF Chains, LoopPlace
      <3> QED BY <3>1, CursorIsNotNone DEF Chains, First
    <2> HIDE DEF body
    <2>3. /\ live'.body = body /\ live'.top = live.top /\ live'.iter = live.iter
          /\ live'.scope = live.scope /\ live'.arm = live.arm /\ live.arm = None
          /\ live.iter # None /\ kept' = kept
      BY <1>1, <2>1 DEF Inv, TypeOK, Registry, InLoop
    <2>4. PassPlace'
      BY <1>1, <1>3, <2>2, <2>3 DEF PassPlace, InLoop, InBody, Inside, runVars
    <2>5. /\ Origin(Snapshot') /\ Trail(Snapshot') = Trail(Snapshot)
          /\ Snapshot'.cut = Snapshot.cut /\ Snapshot.cut = cut
      BY <1>1, <1>2, <2>3, <2>4, IdleOrigin DEF runVars
    <2>6. /\ InIterate(Snapshot) /\ Snapshot.parts.iter = live.iter /\ ~InPass(Snapshot)
          /\ Snapshot.parts.top = live.top /\ Snapshot.parts.arm = kept.arm
          /\ Ahead(Snapshot) /\ CursorsTrue(Snapshot.parts) /\ cut \in BOOLEAN
      BY <1>2, <1>5, LoopSees, LoopNumbers DEF LoopSeen
    <2>7. /\ InIterate(Snapshot') /\ Snapshot'.parts.iter = live.iter /\ InPass(Snapshot')
          /\ Snapshot'.parts.top = live.top /\ Snapshot'.parts.body = body
          /\ Snapshot'.parts.arm = kept.arm
      BY <2>3, <2>4, PassSeenAfter DEF Capture
    <2>8. Unstarted(Snapshot'.parts)
      BY <2>2, <2>7 DEF Unstarted
    <2>9. Running(Snapshot) = None /\ Running(Snapshot') = None
      BY <2>2, <2>3, <2>6, <2>7, UpcomingInLoop, RunningInPass
    <2>10. \A fast : Upcoming(Snapshot', fast) = Upcoming(Snapshot, fast)
      BY <2>3, <2>6, <2>7, <2>8, UpcomingInLoop, UpcomingInPass
    <2>11. Ahead(Snapshot')
      BY <2>5, <2>6, <2>9, <2>10 DEF Ahead
    <2>12. CursorsTrue(Snapshot'.parts)
      BY <2>2, <2>6, <2>7, CursorsWorked DEF Chains
    <2>13. Stays(Snapshot, Snapshot')
      BY <2>5, <2>9 DEF Stays
    <2>14. Turn'
      <3>1. cut' = FALSE /\ live'.body # None
        BY <1>1, <1>5, <2>2, <2>3, <2>6 DEF ShortcutEnds, runVars
      <3> QED BY <1>1, <3>1, TurnAt DEF InRound, runVars
    <2> QED BY <2>5, <2>11, <2>12, <2>13, <2>14 DEF Leads, Sound, Moves
  <1> QED BY <1>4, <1>5

LEMMA EndPassLeads == ASSUME Inv, Path, EndPass PROVE Leads
  <1> DEFINE iter == NextPass(live.iter, live.body.val)
  <1>1. /\ status = "running" /\ live.body # None /\ live.arm = None
        /\ live.body.i > BodyLen
        /\ pc' = "until" /\ UNCHANGED <<runVars, kept, root, disk>>
    BY DEF EndPass, At, Walking, Goes
  <1>2. live' = [live EXCEPT !.body = None, !.iter = iter]
    BY DEF EndPass
  <1>3. InBody
    BY <1>1 DEF EndPass, At, Inv, Held, Control, Bare
  <1>4. PassPlace
    BY <1>1, <1>3 DEF PassPlace
  <1>5. PassFacts /\ PassSeen /\ Numbers
    BY <1>4, PassSees
  <1>6. /\ live.body.i = BodyLen + 1 /\ live.iter.pass \in 0..(MaxIters - 1)
        /\ live.body.pass = live.iter.pass
    BY <1>1, <1>4, PassNumbers
  <1>7. /\ iter # None /\ iter.pass = live.iter.pass + 1 /\ iter.done = "unknown"
    <2>1. iter \in IterCursor
      BY <1>4, <1>5, PassTypes DEF NextPass, IterCursor, PassFacts, PassPlace
    <2> QED BY <2>1, CursorIsNotNone DEF NextPass
  <1> HIDE DEF iter
  <1>8. /\ live'.body = None /\ live'.iter = iter
        /\ live'.top = live.top /\ live'.scope = live.scope /\ live'.arm = live.arm
    BY <1>2 DEF Inv, TypeOK, Registry
  <1>9. LoopPlace'
    <2>1. Inv'
      BY InvIsInductive DEF Next, Walk
    <2> QED BY <1>1, <1>3, <1>7, <1>8, <2>1 DEF LoopPlace, InLoop, InBody, Inside, runVars
  <1>10. /\ Origin(Snapshot') /\ Trail(Snapshot') = Trail(Snapshot)
         /\ Snapshot'.cut = Snapshot.cut /\ Snapshot.cut = cut
    BY <1>1, <1>4, <1>8, <1>9, IdleOrigin DEF runVars
  <1>11. /\ InIterate(Snapshot) /\ InPass(Snapshot) /\ Snapshot.parts.body = live.body
         /\ Snapshot.parts.top = live.top /\ Snapshot.parts.iter = live.iter
         /\ Snapshot.parts.arm = kept.arm
    BY <1>1, <1>5 DEF PassSeen, Capture
  <1>12. /\ InIterate(Snapshot') /\ ~InPass(Snapshot') /\ Snapshot'.parts.body = kept.body
         /\ Snapshot'.parts.top = live.top /\ Snapshot'.parts.iter = iter
         /\ Snapshot'.parts.arm = kept.arm
    <2>1. ~SavedPass'
      BY <1>1, <1>5, <1>6, <1>7, <1>8 DEF SavedPass, PassFacts, Numbers
    <2> QED BY <1>1, <1>8, <1>9, <2>1, LoopSeenAfter
  <1>13. CursorsTrue(Snapshot.parts) /\ Ahead(Snapshot)
    BY DEF Path, Sound
  <1>14. live.body.mark # "running"
    <2>1. "body" \in Chains /\ Snapshot.parts["body"] = live.body
      BY <1>11 DEF Chains
    <2> QED BY <1>1, <1>6, <1>13, <2>1, Lengths DEF CursorsTrue
  <1>15. ~InArm(Snapshot) /\ ~Unstarted(Snapshot.parts)
    BY <1>1, <1>4, <1>6, <1>11, <1>14, PassNumbers DEF Branching, Unstarted
  <1>16. Running(Snapshot) = None /\ Running(Snapshot') = None
    BY <1>7, <1>11, <1>12, <1>14, UpcomingInLoop, RunningInPass
  <1>17. ASSUME NEW fast \in {cut, TRUE} PROVE Upcoming(Snapshot', fast) = Upcoming(Snapshot, fast)
    <2>0. fast \in BOOLEAN
      <3>1. cut \in BOOLEAN
        BY <1>4, PassNumbers
      <3> QED BY <3>1, Zenon
    <2>1. Upcoming(Snapshot, fast) = Linear!BodyAfter(live.iter.pass, BodyLen, fast)
      <3>1. (BodyLen + 1) - 1 = BodyLen
        OBVIOUS
      <3> QED BY <1>6, <1>11, <1>15, <3>1, UpcomingInPass
    <2>2. Linear!BodyAfter(live.iter.pass, BodyLen, fast)
            = Linear!Onward(live.iter.pass, BodyLen, fast)
      <3>1. BodyLen \in 0..BodyLen /\ BodyLen + 1 # BranchAt
        OBVIOUS
      <3> QED BY <2>0, <3>1, BodyAfterIs
    <2>3. Linear!Onward(live.iter.pass, BodyLen, fast) = Linear!PassAfter(live.iter.pass, fast)
      BY <2>0, OnwardEnds
    <2>4. Upcoming(Snapshot', fast) = AtPass(live.iter.pass + 1, fast)
      BY <1>7, <1>12, UpcomingInLoop
    <2>5. AtPass(live.iter.pass + 1, fast) = Linear!PassAfter(live.iter.pass, fast)
      <3>1. live.iter.pass + 1 > 0 /\ (live.iter.pass + 1) - 1 = live.iter.pass
        BY <1>6
      <3> QED BY <3>1 DEF AtPass
    <2> QED BY <2>1, <2>2, <2>3, <2>4, <2>5
  <1>18. Ahead(Snapshot')
    BY <1>10, <1>13, <1>16, <1>17 DEF Ahead
  <1>19. CursorsTrue(Snapshot'.parts)
    <2>1. ASSUME NEW l \in Chains, Snapshot'.parts[l] # None, Snapshot'.parts[l].mark = "running"
          PROVE  Snapshot'.parts[l].i <= Length[l]
      <3>1. Snapshot'.parts[l] = Snapshot.parts[l] \/ Snapshot'.parts[l] = kept[l]
        BY <1>11, <1>12 DEF Chains
      <3> QED BY <1>13, <2>1, <3>1 DEF CursorsTrue, Path, KeptTrue
    <2>2. Snapshot'.parts.iter.done = "unknown" /\ Snapshot'.parts.iter.pass > 0
      BY <1>6, <1>7, <1>12
    <2> QED BY <2>1, <2>2 DEF CursorsTrue
  <1>20. Stays(Snapshot, Snapshot')
    BY <1>10, <1>16 DEF Stays
  <1>21. Turn'
    <2>1. Begun(Snapshot')
      BY <1>12 DEF Begun
    <2>2. live'.iter.pass > 0
      BY <1>6, <1>7, <1>8
    <2> QED BY <1>1, <2>1, <2>2, TurnAt DEF runVars
  <1> QED BY <1>10, <1>18, <1>19, <1>20, <1>21 DEF Leads, Sound, Moves

LEMMA EnterLeads == ASSUME Inv, Path, EnterIterate PROVE Leads
  <1> DEFINE iter == IF kept.iter # None THEN kept.iter ELSE Started(live.top.val)
             scope == IF ~plan.scoped THEN None ELSE IF kept.scope # None THEN kept.scope ELSE <<>>
  <1>1. /\ status = "running" /\ pc = "enter" /\ Bare(live) /\ Inside(live) /\ live.top # None
        /\ live.top \in ChainCursor("top")
    BY DEF EnterIterate, At, Inv, Held, Control, TypeOK, Registry
  <1>2. /\ live' = [live EXCEPT !.iter = iter, !.scope = scope]
        /\ kept' = [kept EXCEPT !.iter = None, !.scope = None]
        /\ pc' = IF iter.done = "unknown" THEN "recheck" ELSE AfterVerdict(iter.done, "loop")
        /\ UNCHANGED <<runVars, root, disk>>
    BY DEF EnterIterate, Goes
  <1>3. /\ Snapshot.parts.top = live.top /\ Snapshot.parts.iter = kept.iter
        /\ Snapshot.parts.body = kept.body /\ Snapshot.parts.scope = kept.scope
        /\ Snapshot.parts.arm = kept.arm /\ Snapshot.parts.branch = kept.branch
        /\ Snapshot.root = root /\ Snapshot.cut = cut
    BY <1>1, Captured DEF Capture, Bare
  <1>4. /\ kept.iter = None => Bare(kept)
        /\ kept.iter # None => Fits(Snapshot.parts)
    BY <1>1, <1>3 DEF Inv, Good, Shape, Inside, Bare
  <1>5. /\ kept.iter = None =>
             iter = Started(live.top.val) /\ scope = IF plan.scoped THEN <<>> ELSE None
        /\ kept.iter # None => iter = kept.iter /\ scope = kept.scope
    BY <1>3, <1>4 DEF Fits, Bare
  <1>6. iter # None
    <2>1. Started(live.top.val) \in IterCursor
      BY <1>1 DEF Started, IterCursor, ChainCursor
    <2> QED BY <2>1, CursorIsNotNone
  <1> HIDE DEF iter, scope
  <1>7. /\ live'.iter = iter /\ live'.scope = scope /\ live'.top = live.top
        /\ live'.body = None /\ live'.branch = None /\ live'.arm = None
        /\ kept'.iter = None /\ kept'.scope = None /\ kept'.body = kept.body
        /\ kept'.branch = kept.branch /\ kept'.arm = kept.arm /\ kept'.top = kept.top
    BY <1>1, <1>2 DEF Inv, TypeOK, Registry, Bare
  <1>8. Begun(Snapshot) /\ InIterate(Snapshot) /\ Ahead(Snapshot) /\ CursorsTrue(Snapshot.parts)
        /\ Origin(Snapshot)
    BY <1>1, <1>3 DEF Path, Turn, Sound, InIterate, Inside
  <1>9. plan.stop \in Nat \ {0} /\ cut \in BOOLEAN
    BY PlanTypes DEF Inv, TypeOK
  <1>10. CASE kept.iter # None
    <2>1. iter = kept.iter /\ scope = kept.scope /\ kept.iter \in IterCursor
      BY <1>5, <1>10 DEF Inv, TypeOK, Registry
    <2>2. Snapshot' = Snapshot
      BY <1>2, <1>6, <1>7, <2>1, <1>1, SnapshotSame, PartsAre DEF Capture, Bare, runVars
    <2>3. /\ iter.pass \in Nat /\ (iter.done = "unknown" => iter.pass > 0)
          /\ iter.done = "yes" => iter.pass > 0 /\ iter.pass >= plan.stop
      <3>1. \/ iter.done = "unknown" /\ iter.pass > 0
            \/ iter.done = (IF iter.pass >= plan.stop THEN "yes" ELSE "no")
        BY <1>3, <1>8, <1>10, <2>1 DEF CursorsTrue
      <3> QED BY <1>9, <2>1, <3>1 DEF IterCursor
    <2>4. ASSUME pc' = "merge"
          PROVE  \A fast \in {Snapshot.cut, TRUE} :
                   Linear!TopAfter(IterAt, fast) \in Linear!Successors(Trail(Snapshot), fast)
      <3>1. iter.done = "yes"
        BY <1>2, <2>4 DEF AfterVerdict
      <3>2. ~InPass(Snapshot)
        BY <1>3, <1>4, <1>10, <2>1, <3>1 DEF InPass, Fits
      <3> QED BY <1>3, <1>6, <1>8, <1>9, <2>1, <2>3, <3>1, <3>2, EndFollows
    <2>5. Turn'
      <3>1. /\ pc' \in InRound => iter.done = "unknown"
            /\ pc' # "rescue"
        BY <1>2 DEF AfterVerdict, InRound
      <3> QED BY <1>2, <1>3, <1>7, <1>8, <2>2, <2>3, <2>4, <3>1, TurnAt DEF runVars
    <2> QED BY <2>2, <2>5, Stands DEF Leads
  <1>11. CASE kept.iter = None
    <2>1. /\ Bare(kept) /\ iter.pass = 0 /\ iter.done = "no" /\ pc' = "loop"
          /\ scope = IF plan.scoped THEN <<>> ELSE None
      <3>1. iter = Started(live.top.val) /\ Bare(kept)
            /\ scope = IF plan.scoped THEN <<>> ELSE None
        BY <1>4, <1>5, <1>11
      <3>2. iter.pass = 0 /\ iter.done = "no"
        BY <3>1 DEF Started
      <3> QED BY <1>2, <3>1, <3>2 DEF AfterVerdict
    <2>2. LoopPlace'
      <3>1. Inv'
        BY InvIsInductive DEF Next, Walk
      <3> QED BY <1>1, <1>2, <1>6, <1>7, <3>1 DEF LoopPlace, InLoop, Inside, runVars
    <2>3. /\ InIterate(Snapshot') /\ Snapshot'.parts.iter = iter
          /\ Snapshot'.parts.top = live.top /\ Snapshot'.parts.body = None
          /\ Snapshot'.parts.arm = None /\ Snapshot'.parts.scope = scope
          /\ Snapshot'.root = root /\ Snapshot'.cut = cut /\ Trail(Snapshot') = Here'
      BY <1>2, <1>7, <2>1, <2>2, LoopSeenAfter DEF Bare, runVars
    <2>4. ~InPass(Snapshot') /\ Snapshot.parts.iter = None /\ ~InPass(Snapshot)
          /\ Snapshot.parts.scope = None
      BY <1>3, <2>1, <2>3 DEF InPass, Bare
    <2>5. Trail(Snapshot) = root
      BY <1>3, <2>4 DEF Trail
    <2>6. Trail(Snapshot') = root
      <3>1. root \o <<>> = root
        BY DEF Inv, TypeOK
      <3> QED BY <1>2, <1>7, <2>1, <2>3, <3>1 DEF Here, runVars
    <2>7. Running(Snapshot) = None
      BY <1>8, <2>4 DEF Running, InIterate
    <2>8. Running(Snapshot') = None /\ \A fast : Upcoming(Snapshot', fast) = AtPass(0, fast)
      BY <1>6, <2>1, <2>3, <2>4, UpcomingInLoop
    <2>9. \A fast : Upcoming(Snapshot, fast) = AtPass(0, fast)
      BY <1>8, <2>4 DEF Upcoming
    <2>10. Ahead(Snapshot')
      BY <1>3, <1>8, <2>3, <2>5, <2>6, <2>7, <2>8, <2>9 DEF Ahead
    <2>11. CursorsTrue(Snapshot'.parts)
      <3>1. ASSUME NEW l \in Chains, Snapshot'.parts[l] # None,
                   Snapshot'.parts[l].mark = "running"
            PROVE  Snapshot'.parts[l].i <= Length[l]
        <4>1. l = "top"
          BY <2>3, <3>1 DEF Chains
        <4> QED BY <1>3, <1>8, <2>3, <3>1, <4>1 DEF CursorsTrue
      <3>2. ~(iter.pass >= plan.stop)
        BY <1>9, <2>1
      <3> QED BY <2>1, <2>3, <3>1, <3>2 DEF CursorsTrue
    <2>12. Origin(Snapshot')
      <3>1. Snapshot'.parts.scope = Snapshot.parts.scope \/ Snapshot'.parts.scope = <<>>
        BY <2>1, <2>3, <2>4
      <3> QED BY <1>3, <1>8, <2>3, <2>4, <2>5, <2>6, <3>1, OriginKept
    <2>13. Stays(Snapshot, Snapshot')
      BY <1>3, <2>3, <2>5, <2>6, <2>7, <2>8 DEF Stays
    <2>14. Turn'
      <3>1. Begun(Snapshot')
        BY <2>4 DEF Begun
      <3> QED BY <1>2, <2>1, <3>1, TurnElsewhere DEF InRound, runVars
    <2> QED BY <2>10, <2>11, <2>12, <2>13, <2>14 DEF Leads, Sound, Moves
  <1> QED BY <1>10, <1>11

LEMMA MergeLeads == ASSUME Inv, Path, Merge PROVE Leads
  <1> DEFINE reg == [live EXCEPT !.iter = None, !.scope = None]
  <1>1. /\ status = "running" /\ pc = "merge" /\ InLoop /\ PassDone
        /\ root' = (IF plan.scoped THEN root \o live.scope ELSE root)
        /\ Completes("top", reg, live.iter.carry)
        /\ UNCHANGED <<runVars, kept, disk>>
    BY DEF Merge, At, Inv, Held, Control
  <1>2. LoopPlace
    BY <1>1 DEF LoopPlace
  <1>3. LoopFacts /\ LoopSeen
    BY <1>2, LoopSees
  <1>4. ~SavedPass /\ CursorsTrue(Snapshot.parts)
    BY <1>1, <1>2, LoopNumbers
  <1>5. /\ reg \in Registry /\ reg.top = live.top /\ reg.iter = None /\ reg.scope = None
        /\ reg.body = None /\ reg.arm = None
        /\ live.iter.carry \in Seq(Promise!Steps)
    BY <1>3, LoopTypes DEF Registry, LoopFacts, InLoop
  <1> HIDE DEF reg
  <1>6. live.top # None /\ live.top.i = IterAt
    BY <1>3 DEF LoopFacts, InLoop, Inside
  <1>7. /\ live'.top.i = IterAt + 1 /\ live'.top.mark = "next" /\ live'.top # None
        /\ live'.iter = None /\ live'.scope = None /\ live'.body = None /\ live'.arm = None
        /\ pc' \in {"interrupted", "chain"}
    <2>1. reg.top # None /\ reg.top.i <= TopLen
      BY <1>5, <1>6
    <2> QED BY <1>1, <1>5, <1>6, <2>1, CompletesTop DEF Bare
  <1>8. /\ Snapshot'.parts.top = live'.top /\ Snapshot'.parts.iter = None
        /\ Snapshot'.parts.body = kept.body /\ Snapshot'.parts.arm = kept.arm
        /\ Snapshot'.root = root' /\ Snapshot'.cut = cut
    BY <1>1, <1>3, <1>7, Captured DEF Capture, LoopFacts, Emptied, runVars
  <1>9. CursorsTrue(Snapshot'.parts)
    BY <1>3, <1>4, <1>7, <1>8 DEF CursorsTrue, Chains, LoopSeen
  <1>10. root' = Trail(Snapshot)
    BY <1>1, <1>3 DEF LoopSeen, Here
  <1>11. \A fast \in {cut, TRUE} :
           Linear!TopAfter(IterAt, fast) \in Linear!Successors(root', fast)
    BY <1>1, <1>10 DEF Path, Turn
  <1>12. Sound(Snapshot') /\ Running(Snapshot') = None /\ Trail(Snapshot') = root'
    <2>1. IterAt \in Nat /\ ~(IterAt + 1 <= IterAt)
      OBVIOUS
    <2> QED BY <1>7, <1>8, <1>9, <1>11, <2>1, TopArrives
  <1>13. Running(Snapshot) = None /\ Snapshot.cut = cut
    BY <1>3, <1>4, UpcomingInLoop DEF LoopSeen
  <1>14. Stays(Snapshot, Snapshot')
    BY <1>8, <1>10, <1>12, <1>13 DEF Stays
  <1>15. Turn'
    <2>1. Begun(Snapshot')
      BY <1>8 DEF Begun, InPass
    <2> QED BY <1>1, <1>7, <2>1, TurnElsewhere DEF InRound, runVars
  <1> QED BY <1>12, <1>14, <1>15 DEF Leads, Moves

-----------------------------------------------------------------------------
(* The rescue. *)

(* The iterate's rescue, as a checkpoint would see it: LinearRun's GiveUp. *)
Within(d) ==
  \/ Running(d) # None /\ Running(d)[1] = IterAt
  \/ Linear!Last(Trail(d))[3] > 0
  \/ /\ Running(d) = None
     /\ \E fast \in {FALSE, d.cut} : Linear!TopStep(Linear!Last(Trail(d))[1], fast) = IterAt

GivesUp(d, e) ==
  /\ plan.rescue /\ Within(d)
  /\ \E n \in 0..Len(Trail(d)) :
       /\ IF plan.scoped
            THEN \A i \in 1..Len(Trail(d)) : Trail(d)[i][1] < IterAt <=> i <= n
            ELSE n = Len(Trail(d))
       /\ Trail(e) = Append(SubSeq(Trail(d), 1, n), Promise!Rescue)
  /\ Running(e) = None /\ e.cut = d.cut

LEMMA OriginWithin == ASSUME NEW d, Origin(d), InIterate(d) PROVE Within(d)
  <1>1. \/ Linear!Last(Trail(d))[3] > 0
        \/ \E fast \in {FALSE, d.cut} : Linear!TopStep(Linear!Last(Trail(d))[1], fast) = IterAt
    BY Zenon DEF Origin
  <1>2. Running(d) # None => Running(d)[1] = IterAt
    BY DEF Running, InIterate, ArmStep
  <1> QED BY <1>1, <1>2 DEF Within

(* The trail in an iterate with a scope: before it, and in it. *)
LEMMA ScopedTrail ==
  ASSUME NEW r \in Seq(Promise!Steps), NEW s \in Seq(Promise!Steps),
         \A i \in DOMAIN r : r[i][1] < IterAt, \A i \in DOMAIN s : s[i][1] = IterAt
  PROVE  /\ Len(r) \in 0..Len(r \o s) /\ SubSeq(r \o s, 1, Len(r)) = r
         /\ \A i \in 1..Len(r \o s) : (r \o s)[i][1] < IterAt <=> i <= Len(r)
  <1>1. Len(r) \in Nat /\ Len(s) \in Nat /\ Len(r \o s) = Len(r) + Len(s)
    OBVIOUS
  <1>2. \A i \in 1..Len(r \o s) : (r \o s)[i] = IF i <= Len(r) THEN r[i] ELSE s[i - Len(r)]
    OBVIOUS
  <1>3. SubSeq(r \o s, 1, Len(r)) = r
    OBVIOUS
  <1>4. ASSUME NEW i \in 1..Len(r \o s) PROVE (r \o s)[i][1] < IterAt <=> i <= Len(r)
    <2>1. CASE i <= Len(r)
      <3>1. i \in DOMAIN r /\ (r \o s)[i] = r[i]
        BY <1>1, <1>2, <2>1
      <3> QED BY <2>1, <3>1
    <2>2. CASE ~(i <= Len(r))
      <3>1. i - Len(r) \in DOMAIN s /\ (r \o s)[i] = s[i - Len(r)]
        BY <1>1, <1>2, <2>2
      <3>2. (r \o s)[i][1] = IterAt
        BY <3>1
      <3> QED BY <2>2, <3>2
    <2> QED BY <2>1, <2>2
  <1> QED BY <1>1, <1>3, <1>4

LEMMA RescueLeads ==
  ASSUME Inv, Path, RescueReturns
  PROVE  Sound(Snapshot') /\ GivesUp(Snapshot, Snapshot') /\ Turn'
  <1>1. /\ status = "running" /\ pc = "rescue" /\ Inside(live) /\ live.iter # None
        /\ live.top # None /\ live \in Registry /\ kept \in Registry
        /\ root' = Append(root, Promise!Rescue) /\ Completes("top", live, root')
        /\ UNCHANGED <<runVars, kept, disk>> /\ kept.iter = None /\ kept.scope = None
        /\ root \in Seq(Promise!Steps)
    BY DEF RescueReturns, At, Inv, Held, Control, Takeable, Inside, TypeOK
  <1>2. root' \in Seq(Promise!Steps)
    BY <1>1, RescueTypes
  <1>3. /\ live'.top.i = IterAt + 1 /\ live'.top.mark = "next" /\ live'.top # None
        /\ \/ /\ pc' = "interrupted"
              /\ live'.iter = live.iter /\ live'.body = live.body /\ live'.scope = live.scope
              /\ live'.branch = live.branch /\ live'.arm = live.arm
           \/ pc' = "chain" /\ Bare(live')
    <2>1. live.top.i = IterAt /\ live.top.i <= TopLen
      BY <1>1 DEF Inside
    <2> QED BY <1>1, <1>2, <2>1, CompletesTop
  <1>4. /\ Snapshot.parts.top = live.top /\ Snapshot.parts.iter = live.iter
        /\ Snapshot.parts.scope = live.scope /\ Snapshot.root = root /\ Snapshot.cut = cut
        /\ InIterate(Snapshot)
    BY <1>1, Captured DEF Capture, InIterate, Inside
  <1>5. live.scope # None <=> plan.scoped
    BY <1>1, <1>4 DEF Inv, Good, Shape, Inside, Fits
  <1>6. Sound(Snapshot) /\ plan.rescue /\ Begun(Snapshot) /\ KeptTrue
    BY <1>1 DEF Path, Turn
  <1>7. /\ Snapshot'.parts.top = live'.top /\ Snapshot'.root = root' /\ Snapshot'.cut = cut
        /\ \/ pc' = "interrupted" /\ Snapshot'.parts.iter = Snapshot.parts.iter
              /\ Snapshot'.parts.body = Snapshot.parts.body
              /\ Snapshot'.parts.arm = Snapshot.parts.arm
           \/ pc' = "chain" /\ Snapshot'.parts.iter = None
              /\ Snapshot'.parts.body = kept.body /\ Snapshot'.parts.arm = kept.arm
    BY <1>1, <1>3, Captured DEF Capture, Bare, runVars
  <1>8. CursorsTrue(Snapshot'.parts)
    BY <1>3, <1>6, <1>7 DEF CursorsTrue, Chains, Sound, KeptTrue
  <1>9. Begun(Snapshot')
    BY <1>6, <1>7 DEF Begun, InPass, Unstarted
  <1>10. Sound(Snapshot') /\ Running(Snapshot') = None /\ Trail(Snapshot') = root'
    <2>1. IterAt \in Nat /\ ~(IterAt + 1 <= IterAt)
      OBVIOUS
    <2>2. <<IterAt, MaxIters, 0, 0>> \in Promise!Steps /\ Promise!Rescue = <<IterAt, MaxIters, 0, 0>>
      BY RescueTypes DEF Promise!Rescue
    <2>3. \A fast : Linear!Successors(root', fast) = {Linear!TopAfter(IterAt, fast)}
      BY <1>1, <2>2, AfterTop
    <2> QED BY <1>3, <1>7, <1>8, <2>1, <2>3, TopArrives
  <1>11. Origin(Snapshot)
    BY <1>6 DEF Sound
  <1>12. \E n \in 0..Len(Trail(Snapshot)) :
           /\ IF plan.scoped
                THEN \A i \in 1..Len(Trail(Snapshot)) : Trail(Snapshot)[i][1] < IterAt <=> i <= n
                ELSE n = Len(Trail(Snapshot))
           /\ root' = Append(SubSeq(Trail(Snapshot), 1, n), Promise!Rescue)
    <2>1. CASE plan.scoped
      <3>1. live.scope \in Seq(Promise!Steps) /\ Trail(Snapshot) = root \o live.scope
        BY <1>1, <1>4, <1>5, <2>1 DEF Trail, Registry
      <3>2. \A i \in DOMAIN root : root[i][1] < IterAt
        BY <1>4, <1>11, <2>1 DEF Origin
      <3>3. \A i \in DOMAIN live.scope : live.scope[i][1] = IterAt
        BY <1>4, <1>5, <1>11, <2>1 DEF Origin
      <3>4. /\ Len(root) \in 0..Len(root \o live.scope)
            /\ SubSeq(root \o live.scope, 1, Len(root)) = root
            /\ \A i \in 1..Len(root \o live.scope) :
                 (root \o live.scope)[i][1] < IterAt <=> i <= Len(root)
        BY <1>1, <3>1, <3>2, <3>3, ScopedTrail
      <3> QED BY <1>1, <2>1, <3>1, <3>4
    <2>2. CASE ~plan.scoped
      <3>1. Trail(Snapshot) = root
        BY <1>4, <1>5, <2>2 DEF Trail
      <3>2. Len(root) \in 0..Len(root) /\ SubSeq(root, 1, Len(root)) = root
        BY <1>1
      <3> QED BY <1>1, <2>2, <3>1, <3>2
    <2> QED BY <2>1, <2>2
  <1>13. GivesUp(Snapshot, Snapshot')
    BY <1>4, <1>6, <1>7, <1>10, <1>11, <1>12, OriginWithin DEF GivesUp
  <1>14. Turn'
    <2>1. pc' \notin InRound \cup {"merge", "rescue"}
      BY <1>3 DEF InRound
    <2> QED BY <1>1, <1>9, <2>1, TurnElsewhere DEF runVars
  <1> QED BY <1>10, <1>13, <1>14

-----------------------------------------------------------------------------
(* The steps of LinearRun, and what stops a session or is beside the walk. *)

(* The refinement's variables after a step. *)
LEMMA SeenAfter ==
  /\ Trail(Snapshot)' = Trail(Snapshot') /\ Running(Snapshot)' = Running(Snapshot')
  /\ Saved(disk)' = Saved(disk') /\ Snapshot.cut = cut /\ Snapshot'.cut = cut'
  <1>1. Trail(Snapshot)' = Trail(Snapshot')
    BY DEF Trail, InIterate
  <1>2. Running(Snapshot)' = Running(Snapshot')
    BY DEF Running, InPass, InArm, ArmStep
  <1>3. Saved(disk)' = Saved(disk')
    BY DEF Saved, Trail, InIterate, Running, InPass, InArm, ArmStep
  <1> QED BY <1>1, <1>2, <1>3, Captured

LEMMA MovesAre ==
  ASSUME Moves(Snapshot, Snapshot'), UNCHANGED <<plan, disk>>,
         status # "finished", status' # "finished"
  PROVE  [Linear!Next]_(Linear!vars)
  <1>1. Saved(disk)' = Saved(disk)
    OBVIOUS
  <1>2. (status = "finished")' = (status = "finished")
    OBVIOUS
  <1>3. CASE Stays(Snapshot, Snapshot')
    BY <1>1, <1>2, <1>3, SeenAfter DEF Stays, Linear!vars
  <1>4. CASE Admits(Snapshot, Snapshot')
    <2>1. Linear!Admit
      BY <1>1, <1>2, <1>4, SeenAfter DEF Admits, Linear!Admit
    <2> QED BY <2>1 DEF Linear!Next
  <1>5. CASE Does(Snapshot, Snapshot')
    <2>1. Linear!Do
      BY <1>1, <1>2, <1>5, SeenAfter DEF Does, Linear!Do
    <2> QED BY <2>1 DEF Linear!Next
  <1> QED BY <1>3, <1>4, <1>5 DEF Moves

LEMMA SavesAre ==
  ASSUME Snapshot' = Snapshot, plan' = plan, disk' = Snapshot,
         status # "finished", status' # "finished"
  PROVE  Linear!Save
  <1>1. Saved(disk)' = [trail |-> Trail(Snapshot), admitted |-> Running(Snapshot), cut |-> cut]
    BY SeenAfter DEF Saved
  <1>2. (status = "finished")' = (status = "finished")
    OBVIOUS
  <1> QED BY <1>1, <1>2, SeenAfter DEF Linear!Save

LEMMA LosesAre ==
  ASSUME Snapshot' = disk, plan' = plan, disk' = disk,
         status # "finished", status' # "finished"
  PROVE  Linear!Lose
  <1>1. /\ Saved(disk).trail = Trail(disk) /\ Saved(disk).admitted = Running(disk)
        /\ Saved(disk).cut = disk.cut /\ Saved(disk)' = Saved(disk)
    BY DEF Saved
  <1>2. (status = "finished")' = (status = "finished")
    OBVIOUS
  <1> QED BY <1>1, <1>2, SeenAfter DEF Linear!Lose

LEMMA GivesUpAre ==
  ASSUME GivesUp(Snapshot, Snapshot'), UNCHANGED <<plan, disk, status>>
  PROVE  Linear!GiveUp
  <1>1. Saved(disk)' = Saved(disk) /\ (status = "finished")' = (status = "finished")
    OBVIOUS
  <1>2. Linear!InIterate
    BY SeenAfter DEF GivesUp, Within, Linear!InIterate
  <1>3. Linear!Rescue = Promise!Rescue
    BY DEF Linear!Rescue, Promise!Rescue
  <1> QED BY <1>1, <1>2, <1>3, SeenAfter DEF GivesUp, Linear!GiveUp

(* The path after a step, whose checkpoint is the old one or the run. *)
LEMMA PathAfter ==
  ASSUME Path, plan' = plan, Sound(Snapshot'), Turn', KeptTrue',
         disk' = disk \/ (disk' = Snapshot /\ Begun(Snapshot))
  PROVE  Path'
  <1> PICK d : d = disk'
      OBVIOUS
  <1>1. Sound(d) /\ Begun(d)
    BY DEF Path
  <1>2. Sound(d)' /\ Begun(d)'
    BY <1>1, SoundFixed DEF Begun, InPass, Unstarted
  <1>3. Sound(Snapshot)'
    BY SoundNow
  <1> QED BY <1>2, <1>3 DEF Path

LEMMA KeptAfter ==
  ASSUME KeptTrue, \A l \in Chains : kept'[l] = kept[l] \/ kept'[l] = None PROVE KeptTrue'
  BY DEF KeptTrue

(* The session stops at a checkpoint. *)
LEMMA StopIs == ASSUME NEW d \in Checkpoints, Stop(d) PROVE Snapshot' = d
  <1>1. live' = Nothing /\ kept' = d.parts /\ root' = d.root /\ cut' = d.cut
    BY DEF Stop
  <1>2. d.parts \in Registry
    BY DEF Checkpoints
  <1>3. \A p \in Parts : Capture(p)' = d.parts[p]
    BY <1>1, PartsAre DEF Capture, Nothing
  <1>4. d.parts = [p \in Parts |-> d.parts[p]]
    BY <1>2, PartsAre DEF Registry
  <1>5. [p \in Parts |-> Capture(p)'] = d.parts
    BY <1>3, <1>4
  <1>6. Snapshot' = [parts |-> [p \in Parts |-> Capture(p)'], root |-> root', cut |-> cut']
    BY DEF Snapshot
  <1> QED BY <1>1, <1>5, <1>6 DEF Checkpoints

LEMMA StopLeads ==
  ASSUME Inv, Path, status = "running", Stop(disk) \/ (Stop(Snapshot) /\ Begun(Snapshot))
  PROVE  Path' /\ Linear!Next
  <1>1. disk \in Checkpoints /\ Snapshot \in Checkpoints
    BY SnapshotTypes DEF Inv, TypeOK, Checkpoints
  <1>2. PICK d \in {disk, Snapshot} : Stop(d) /\ Sound(d) /\ Begun(d)
    BY DEF Path
  <1>3. /\ Snapshot' = d /\ disk' = d /\ kept' = d.parts /\ pc' = "chain" /\ plan' = plan
        /\ status' = "stopped"
    BY <1>1, <1>2, StopIs DEF Stop, Goes
  <1>4. Turn'
    BY <1>2, <1>3, TurnElsewhere DEF InRound
  <1>5. KeptTrue'
    BY <1>2, <1>3 DEF KeptTrue, Sound, CursorsTrue
  <1>6. Path'
    BY <1>2, <1>3, <1>4, <1>5, PathAfter
  <1>7. CASE d = disk
    BY <1>3, <1>6, <1>7, LosesAre DEF Linear!Next
  <1>8. CASE d = Snapshot
    BY <1>3, <1>6, <1>8, SavesAre DEF Linear!Next
  <1> QED BY <1>7, <1>8

(* A step that leaves what a checkpoint would see, and where the walk is. *)
LEMMA QuietPath ==
  ASSUME Path, Snapshot' = Snapshot, plan' = plan, Turn',
         \A l \in Chains : kept'[l] = kept[l] \/ kept'[l] = None,
         disk' = disk \/ (disk' = Snapshot /\ Begun(Snapshot))
  PROVE  Path'
  <1>1. Sound(Snapshot') /\ KeptTrue'
    BY KeptAfter DEF Path
  <1> QED BY <1>1, PathAfter

LEMMA TurnSame ==
  ASSUME Turn, Snapshot' = Snapshot, UNCHANGED <<plan, pc, live, cut>> PROVE Turn'
  <1>1. Begun(Snapshot') \/ (pc' = "chain" /\ ~cut' /\ live'.body # None)
    BY DEF Turn
  <1>2. pc' = "merge" => \A fast \in {cut', TRUE} :
          Linear!TopAfter(IterAt, fast) \in Linear!Successors(Trail(Snapshot'), fast)
    BY DEF Turn
  <1>3. pc' \in InRound => live'.iter.pass > 0
    BY DEF Turn, InRound
  <1>4. pc' = "rescue" => plan.rescue
    BY DEF Turn
  <1> QED BY <1>1, <1>2, <1>3, <1>4, TurnAt

LEMMA FailsLeads ==
  ASSUME Inv, Path, status = "running", pc # "chain", Fails(disk) \/ Fails(Snapshot)
  PROVE  Path' /\ [Linear!Next]_(Linear!vars)
  <1>1. Begun(Snapshot)
    BY DEF Path, Turn
  <1>2. CASE Stop(disk) \/ Stop(Snapshot)
    BY <1>1, <1>2, StopLeads
  <1>3. CASE /\ plan.rescue /\ pc' = "rescue" /\ (disk' = disk \/ disk' = Snapshot)
             /\ UNCHANGED <<runVars, live, kept, root>>
    <2>1. Snapshot' = Snapshot
      BY <1>3, SnapshotStands DEF runVars
    <2>2. Turn'
      BY <1>1, <1>3, <2>1, TurnAt DEF InRound, runVars
    <2>3. Path'
      BY <1>1, <1>3, <2>1, <2>2, QuietPath DEF runVars
    <2>4. [Linear!Next]_(Linear!vars)
      <3>1. plan' = plan /\ status # "finished" /\ status' # "finished"
        BY <1>3 DEF runVars
      <3>2. CASE disk' = disk
        BY <2>1, <3>1, <3>2, SameMoves, MovesAre
      <3>3. CASE disk' = Snapshot
        BY <2>1, <3>1, <3>3, SavesAre DEF Linear!Next
      <3> QED BY <1>3, <3>2, <3>3
    <2> QED BY <2>3, <2>4
  <1> QED BY <1>2, <1>3 DEF Fails, Goes

LEMMA FailuresLead ==
  ASSUME Inv, Path, \/ Raises \/ SaveUnacknowledged \/ RescueRaises
                    \/ HaltCommits \/ HaltCommitFails \/ CompletionFails \/ Crash
  PROVE  Path' /\ [Linear!Next]_(Linear!vars)
  <1>1. CASE Raises \/ SaveUnacknowledged
    <2>1. status = "running" /\ pc # "chain" /\ (Fails(disk) \/ Fails(Snapshot))
      BY <1>1 DEF Raises, SaveUnacknowledged, At
    <2> QED BY <2>1, FailsLeads
  <1>2. CASE RescueRaises \/ HaltCommits \/ HaltCommitFails \/ CompletionFails \/ Crash
    <2>1. /\ status = "running"
          /\ Stop(disk) \/ (Stop(Snapshot) /\ pc = "interrupted")
      BY <1>2 DEF RescueRaises, HaltCommits, HaltCommitFails, CompletionFails, Crash, TopEnds, At
    <2>2. pc = "interrupted" => Begun(Snapshot)
      BY DEF Path, Turn
    <2> QED BY <2>1, <2>2, StopLeads
  <1> QED BY <1>1, <1>2

(* The environment's actions. *)
LEMMA ResumeLeads == ASSUME Inv, Path, Resume PROVE Path' /\ [Linear!Next]_(Linear!vars)
  <1>1. /\ live = Nothing /\ pc = "chain" /\ status = "stopped" /\ status' = "running"
        /\ live' = [Nothing EXCEPT !.top = kept.top] /\ kept' = [kept EXCEPT !.top = None]
        /\ UNCHANGED <<plan, cut, pc, root, disk>>
    BY DEF Resume, Inv, Held
  <1>2. /\ live'.top = kept.top /\ Bare(live') /\ kept'.top = None
        /\ kept'.iter = kept.iter /\ kept'.body = kept.body /\ kept'.scope = kept.scope
        /\ kept'.branch = kept.branch /\ kept'.arm = kept.arm
    BY <1>1 DEF Nothing, Bare, Inv, TypeOK, Registry
  <1>3. Snapshot' = Snapshot
    <2>1. live.top = None /\ Bare(live)
      BY <1>1 DEF Nothing, Bare
    <2>2. \A p \in Parts : Capture(p)' = Capture(p)
      BY <1>2, <2>1, PartsAre DEF Capture, Bare
    <2> QED BY <1>1, <2>2, SnapshotSame
  <1>4. Begun(Snapshot)
    BY <1>1 DEF Path, Turn, Nothing
  <1>5. Turn'
    BY <1>1, <1>3, <1>4, TurnElsewhere DEF InRound
  <1>6. \A l \in Chains : kept'[l] = kept[l] \/ kept'[l] = None
    BY <1>2 DEF Chains
  <1>7. Path'
    BY <1>1, <1>3, <1>5, <1>6, QuietPath
  <1>8. [Linear!Next]_(Linear!vars)
    BY <1>1, <1>3, SameMoves, MovesAre
  <1> QED BY <1>7, <1>8

LEMMA CheckpointLeads ==
  ASSUME Inv, Path, Checkpoint PROVE Path' /\ [Linear!Next]_(Linear!vars)
  <1>1. /\ status = "running" /\ pc # "chain" /\ disk' = Snapshot
        /\ UNCHANGED <<runVars, pc, live, kept, root>>
    BY DEF Checkpoint, Awaits
  <1>2. Snapshot' = Snapshot
    BY <1>1, SnapshotStands DEF runVars
  <1>3. Begun(Snapshot)
    BY <1>1 DEF Path, Turn
  <1>4. Turn'
    BY <1>1, <1>2, TurnSame DEF Path, runVars
  <1>5. Path'
    BY <1>1, <1>2, <1>3, <1>4, QuietPath DEF runVars
  <1>6. [Linear!Next]_(Linear!vars)
    BY <1>1, <1>2, SavesAre DEF Linear!Next, runVars
  <1> QED BY <1>5, <1>6

LEMMA SetHaltLeads ==
  ASSUME Inv, Path, SetHalt \/ UNCHANGED vars PROVE Path' /\ [Linear!Next]_(Linear!vars)
  <1>1. UNCHANGED <<plan, status, cut, pc, live, kept, root, disk>>
    BY DEF SetHalt, vars, runVars
  <1>2. Snapshot' = Snapshot
    BY <1>1, SnapshotStands
  <1>3. Path'
    BY <1>1, <1>2, TurnSame, QuietPath DEF Path
  <1>4. UNCHANGED Linear!vars
    BY <1>1, <1>2, SeenAfter DEF Linear!vars
  <1> QED BY <1>3, <1>4

LEMMA FinishLeads ==
  ASSUME Inv, Path, Finish PROVE Path' /\ [Linear!Next]_(Linear!vars)
  <1>1. /\ status = "running" /\ pc = "chain" /\ Walking = "top" /\ live.top.i > TopLen
        /\ status' = "finished" /\ UNCHANGED <<plan, cut, pc, live, kept, root, disk>>
    BY DEF Finish, TopEnds, At
  <1>2. Snapshot' = Snapshot
    BY <1>1, SnapshotStands
  <1>3. Path'
    BY <1>1, <1>2, TurnSame, QuietPath DEF Path
  <1>4. live.top # None /\ live.top \in ChainCursor("top") /\ cut \in BOOLEAN
    BY <1>1 DEF Inv, TypeOK, Held, Registry
  <1>5. live.top.i = TopLen + 1 /\ Snapshot.parts.top = live.top
    BY <1>1, <1>4, Lengths, Captured DEF ChainCursor, Capture
  <1>6. CursorsTrue(Snapshot.parts) /\ Ahead(Snapshot)
    BY DEF Path, Sound
  <1>7. live.top.mark # "running"
    <2>1. "top" \in Chains /\ Snapshot.parts["top"] = live.top
      BY <1>5 DEF Chains
    <2> QED BY <1>4, <1>5, <1>6, <2>1, Lengths DEF CursorsTrue
  <1>8. ~InIterate(Snapshot) /\ Running(Snapshot) = None
    BY <1>5, <1>7 DEF InIterate, Running
  <1>9. Upcoming(Snapshot, cut) = {Linear!TopAfter(TopLen, cut)}
    <2>1. (TopLen + 1) - 1 = TopLen
      OBVIOUS
    <2> QED BY <1>5, <1>8, <2>1 DEF Upcoming
  <1>10. Linear!TopAfter(TopLen, cut) = Linear!End
    <2>1. Linear!TopStep(TopLen, cut) = TopLen + 1 /\ TopLen + 1 # IterAt
      BY <1>4, TopStepLast
    <2> QED BY <2>1 DEF Linear!TopAfter, Linear!End
  <1>11. Linear!End \in Linear!Successors(Trail(Snapshot), cut)
    BY <1>6, <1>8, <1>9, <1>10, Captured DEF Ahead
  <1>12. Linear!Return
    <2>1. Saved(disk)' = Saved(disk) /\ (status = "finished")' = TRUE
      BY <1>1
    <2> QED BY <1>1, <1>2, <1>8, <1>11, <2>1, SeenAfter DEF Linear!Return
  <1> QED BY <1>3, <1>12 DEF Linear!Next

LEMMA SignalLeads ==
  ASSUME Inv, Path, SetSignal PROVE Path' /\ [Linear!Next]_(Linear!vars)
  <1>1. /\ cut = FALSE /\ cut' = TRUE /\ status # "finished"
        /\ status = "running" => pc \in Awaits
        /\ UNCHANGED <<plan, status, pc, live, kept, root, disk>>
    BY DEF SetSignal, Inv, TypeOK
  <1>2. /\ Snapshot'.parts = Snapshot.parts /\ Snapshot'.root = Snapshot.root
        /\ Snapshot'.cut = TRUE /\ Snapshot.cut = FALSE
    BY <1>1 DEF Snapshot, Capture
  <1>3. /\ Trail(Snapshot') = Trail(Snapshot) /\ Running(Snapshot') = Running(Snapshot)
        /\ InIterate(Snapshot') <=> InIterate(Snapshot)
        /\ Begun(Snapshot') <=> Begun(Snapshot)
    BY <1>2 DEF Trail, InIterate, Running, InPass, InArm, Begun
  <1>4. Sound(Snapshot) /\ KeptTrue
    BY DEF Path
  <1>5. Ahead(Snapshot')
    <2>1. \A fast : Upcoming(Snapshot', fast) = Upcoming(Snapshot, fast)
      BY <1>2 DEF Upcoming, InIterate, InPass, InArm
    <2>2. Ahead(Snapshot)
      BY <1>4 DEF Sound
    <2>3. Running(Snapshot) = None =>
            Upcoming(Snapshot, TRUE) \subseteq Linear!Successors(Trail(Snapshot), TRUE)
      BY <2>2 DEF Ahead
    <2> QED BY <1>2, <1>3, <2>1, <2>3 DEF Ahead
  <1>6. Origin(Snapshot')
    <2>1. Origin(Snapshot)
      BY <1>4 DEF Sound
    <2> QED BY <1>2, <1>3, <2>1 DEF Origin
  <1>7. Sound(Snapshot')
    BY <1>2, <1>4, <1>5, <1>6 DEF Sound
  <1>8. status \in {"running", "stopped"}
    BY <1>1 DEF Inv, TypeOK
  <1>9. Begun(Snapshot) /\ pc # "merge"
    BY <1>1, <1>8 DEF Path, Turn, Awaits, Inv, Held, Nothing
  <1>10. Turn'
    BY <1>1, <1>3, <1>9, TurnAt DEF Path, Turn, InRound
  <1>11. KeptTrue'
    BY <1>1, <1>4, KeptAfter
  <1>12. Path'
    BY <1>1, <1>7, <1>10, <1>11, PathAfter
  <1>13. Linear!Signal
    <2>1. Saved(disk)' = Saved(disk) /\ (status = "finished")' = (status = "finished")
      BY <1>1
    <2> QED BY <1>1, <1>3, <2>1, SeenAfter DEF Linear!Signal
  <1> QED BY <1>12, <1>13 DEF Linear!Next

-----------------------------------------------------------------------------
(* FlowWalk implements LinearRun. *)

(* What a step of the walk proper leaves alone. *)
LEMMA WalkKeeps ==
  ASSUME Inv, \/ StartStep \/ SkipStep \/ VerbReturns \/ VerbStops
              \/ TakeArm \/ Chooses("then") \/ Chooses("else") \/ ChoosesNone \/ EndArm
              \/ EnterIterate \/ LoopEnds \/ LoopStops \/ StartPass \/ EndPass
              \/ Until \/ Recheck \/ Merge \/ RescueReturns
  PROVE  /\ status = "running" /\ UNCHANGED <<plan, status, disk>>
         /\ \A l \in Chains : kept'[l] = kept[l] \/ kept'[l] = None
  <1>1. kept \in Registry
    BY DEF Inv, TypeOK
  <1>2. CASE TakeArm \/ EnterIterate \/ StartPass
    <2>1. status = "running" /\ UNCHANGED <<plan, status, disk>>
      BY <1>2 DEF TakeArm, EnterIterate, StartPass, AtHead, At, runVars
    <2>2. \/ kept' = kept \/ kept' = [kept EXCEPT !.branch = None, !.arm = None]
          \/ kept' = [kept EXCEPT !.iter = None, !.scope = None]
          \/ kept' = [kept EXCEPT !.body = None] \/ kept' = [kept EXCEPT !.body = kept.body]
      BY <1>2 DEF TakeArm, EnterIterate, StartPass
    <2>3. \A l \in Chains : kept'[l] = kept[l] \/ kept'[l] = None
      BY <1>1, <2>2 DEF Registry, Chains
    <2> QED BY <2>1, <2>3
  <1>3. CASE \/ StartStep \/ SkipStep \/ VerbReturns \/ VerbStops
             \/ Chooses("then") \/ Chooses("else") \/ ChoosesNone \/ EndArm
             \/ LoopEnds \/ LoopStops \/ EndPass
             \/ Until \/ Recheck \/ Merge \/ RescueReturns
    <2>1. status = "running" /\ UNCHANGED <<plan, status, disk, kept>>
      BY <1>3 DEF StartStep, SkipStep, VerbReturns, VerbStops, Chooses, ChoosesNone, EndArm,
                  LoopEnds, LoopStops, EndPass, Until, Recheck, Merge, RescueReturns,
                  AtHead, At, runVars
    <2> QED BY <2>1
  <1> QED BY <1>2, <1>3

LEMMA SaveReturnsLeads ==
  ASSUME Inv, Path, SaveReturns PROVE Path' /\ [Linear!Next]_(Linear!vars)
  <1>1. /\ UNCHANGED <<runVars, live, kept, root>> /\ status = "running" /\ pc = "saving"
        /\ disk' = Snapshot
    BY DEF SaveReturns, At
  <1>2. Snapshot' = Snapshot
    BY <1>1, SnapshotStands DEF runVars
  <1>3. Begun(Snapshot) /\ Turn'
    BY <1>1, SaveLeads DEF Path, Turn, Leads
  <1>4. Path'
    BY <1>1, <1>2, <1>3, QuietPath DEF runVars
  <1>5. [Linear!Next]_(Linear!vars)
    BY <1>1, <1>2, SavesAre DEF Linear!Next, runVars
  <1> QED BY <1>4, <1>5

LEMMA RescueReturnsLeads ==
  ASSUME Inv, Path, RescueReturns PROVE Path' /\ [Linear!Next]_(Linear!vars)
  <1>1. /\ status = "running" /\ UNCHANGED <<plan, status, disk>>
        /\ \A l \in Chains : kept'[l] = kept[l] \/ kept'[l] = None
    BY WalkKeeps
  <1>2. Sound(Snapshot') /\ GivesUp(Snapshot, Snapshot') /\ Turn'
    BY RescueLeads
  <1>3. KeptTrue'
    BY <1>1, KeptAfter DEF Path
  <1>4. Path'
    BY <1>1, <1>2, <1>3, PathAfter
  <1>5. Linear!GiveUp
    BY <1>1, <1>2, GivesUpAre
  <1> QED BY <1>4, <1>5 DEF Linear!Next

LEMMA WalkLeads ==
  ASSUME Inv, Path, \/ StartStep \/ SkipStep \/ VerbReturns \/ VerbStops
                    \/ TakeArm \/ Chooses("then") \/ Chooses("else") \/ ChoosesNone \/ EndArm
                    \/ EnterIterate \/ LoopEnds \/ LoopStops \/ StartPass \/ EndPass
                    \/ Until \/ Recheck \/ Merge
  PROVE  Path' /\ [Linear!Next]_(Linear!vars)
  <1>1. /\ status = "running" /\ UNCHANGED <<plan, status, disk>>
        /\ \A l \in Chains : kept'[l] = kept[l] \/ kept'[l] = None
    BY WalkKeeps
  <1>2. Leads
    <2>1. CASE StartStep \/ SkipStep \/ VerbReturns \/ VerbStops \/ LoopStops
      BY <2>1, StartLeads, SkipLeads, VerbLeads, StopsLead
    <2>2. CASE TakeArm \/ Chooses("then") \/ Chooses("else") \/ ChoosesNone \/ EndArm
      BY <2>2, TakeArmLeads, ChoosesLeads, ChoosesNoneLeads, EndArmLeads
    <2>3. CASE EnterIterate \/ LoopEnds \/ StartPass \/ EndPass \/ Until \/ Recheck \/ Merge
      BY <2>3, EnterLeads, LoopEndsLeads, StartPassLeads, EndPassLeads, VerdictsLead, MergeLeads
    <2> QED BY <2>1, <2>2, <2>3
  <1>3. Sound(Snapshot') /\ Moves(Snapshot, Snapshot') /\ Turn'
    BY <1>2 DEF Leads
  <1>4. KeptTrue'
    BY <1>1, KeptAfter DEF Path
  <1>5. Path'
    BY <1>1, <1>3, <1>4, PathAfter
  <1>6. [Linear!Next]_(Linear!vars)
    BY <1>1, <1>3, MovesAre
  <1> QED BY <1>5, <1>6

LEMMA StepIsLinear == Inv /\ Path /\ [Next]_vars => Path' /\ [Linear!Next]_(Linear!vars)
  <1> SUFFICES ASSUME Inv, Path, [Next]_vars PROVE Path' /\ [Linear!Next]_(Linear!vars)
      OBVIOUS
  <1>1. CASE \/ StartStep \/ SkipStep \/ VerbReturns \/ VerbStops
             \/ TakeArm \/ Chooses("then") \/ Chooses("else") \/ ChoosesNone \/ EndArm
             \/ EnterIterate \/ LoopEnds \/ LoopStops \/ StartPass \/ EndPass
             \/ Until \/ Recheck \/ Merge
    BY <1>1, WalkLeads
  <1>2. CASE \/ Raises \/ SaveUnacknowledged \/ RescueRaises
             \/ HaltCommits \/ HaltCommitFails \/ CompletionFails \/ Crash
    BY <1>2, FailuresLead
  <1>3. CASE SaveReturns \/ RescueReturns \/ Finish
    BY <1>3, SaveReturnsLeads, RescueReturnsLeads, FinishLeads
  <1>4. CASE Resume \/ Checkpoint \/ SetHalt \/ SetSignal \/ UNCHANGED vars
    BY <1>4, ResumeLeads, CheckpointLeads, SetHaltLeads, SignalLeads
  <1> QED BY <1>1, <1>2, <1>3, <1>4 DEF Next, Walk

LEMMA InitIsLinear == Init => Path /\ Linear!Init
  <1> SUFFICES ASSUME Init PROVE Path /\ Linear!Init
      OBVIOUS
  <1>1. /\ plan \in Plans /\ status = "running" /\ cut = FALSE /\ pc = "chain"
        /\ live = Fresh.parts /\ kept = Nothing /\ root = <<>> /\ disk = Fresh
    BY DEF Init
  <1>2. /\ Fresh.parts = [Nothing EXCEPT !.top = First(<<>>, 0)]
        /\ Fresh.root = <<>> /\ Fresh.cut = FALSE
    BY DEF Fresh
  <1>3. First(<<>>, 0) # None
    <2>1. <<>> \in Seq(Promise!Steps) /\ 0 \in 0..MaxIters /\ "top" \in Chains
      BY DEF Chains
    <2> QED BY <2>1, FirstTypes, CursorIsNotNone
  <1>4. /\ live.top = First(<<>>, 0) /\ Bare(live) /\ kept.top = None /\ Bare(kept)
        /\ DOMAIN live = Parts /\ live = [p \in Parts |-> live[p]]
    BY <1>1, <1>2 DEF Nothing, Bare, Parts
  <1>5. Snapshot = disk
    <2>1. \A p \in Parts : Capture(p) = live[p]
      BY <1>3, <1>4, PartsAre DEF Capture, Bare
    <2>2. [p \in Parts |-> Capture(p)] = live
      BY <1>4, <2>1
    <2> QED BY <1>1, <2>2 DEF Snapshot, Fresh
  <1>6. /\ disk.parts.top.i = 0 + 1 /\ disk.parts.top.mark = "next" /\ Bare(disk.parts)
        /\ disk.root = <<>> /\ disk.cut = FALSE
    BY <1>1, <1>2, <1>4 DEF First
  <1>7. CursorsTrue(disk.parts)
    BY <1>6 DEF CursorsTrue, Bare, Chains
  <1>8. Linear!Last(<<>>) = <<0, 0, 0, 0>>
    BY DEF Linear!Last
  <1>9. \A fast : Linear!Successors(<<>>, fast) = {Linear!TopAfter(0, fast)}
    BY <1>8 DEF Linear!Successors
  <1>10. Sound(disk) /\ Running(disk) = None /\ Trail(disk) = <<>>
    <2>1. \A fast : Linear!TopStep(Linear!Last(disk.root)[1], fast) = Linear!TopStep(0, fast)
      BY <1>6, <1>8
    <2>2. \A i \in DOMAIN disk.root : disk.root[i][1] < IterAt
      BY <1>6
    <2>3. \A fast : Linear!TopAfter(0, fast) \in Linear!Successors(disk.root, fast)
      BY <1>6, <1>9
    <2>4. 0 \in Nat /\ disk.parts.top.i = 0 + 1 /\ disk.parts.top.mark = "next"
      BY <1>6
    <2>5. Sound(disk) /\ Running(disk) = None /\ Trail(disk) = disk.root
      BY <1>7, <2>1, <2>2, <2>3, <2>4, TopArrives
    <2> QED BY <1>6, <2>5
  <1>11. Begun(disk)
    BY <1>6 DEF Begun, InPass, Bare
  <1>12. Turn
    BY <1>1, <1>5, <1>11 DEF Turn
  <1>13. KeptTrue
    BY <1>4 DEF KeptTrue, Chains, Bare
  <1>14. Path
    BY <1>5, <1>10, <1>11, <1>12, <1>13 DEF Path
  <1>15. Linear!Init
    <2>1. Saved(disk) = [trail |-> <<>>, admitted |-> None, cut |-> FALSE]
      BY <1>6, <1>10 DEF Saved
    <2>2. plan \in Linear!Plan
      BY <1>1 DEF Promise!Plan, Linear!Plan
    <2> QED BY <1>1, <1>5, <1>10, <2>1, <2>2 DEF Linear!Init
  <1> QED BY <1>14, <1>15

(* Over any halts, crashes and resumes the run is one walk through the
   program: every action of the walk is a step of LinearRun, or none. *)
THEOREM RunsLinearly == Spec => RunIsLinear
  <1>1. Init => Inv /\ Path /\ Linear!Init
    BY InitInv, InitIsLinear
  <1>2. Inv /\ Path /\ [Next]_vars => Inv' /\ Path' /\ [Linear!Next]_(Linear!vars)
    BY InvIsInductive, StepIsLinear
  <1> QED BY <1>1, <1>2, PTL DEF Spec, RunIsLinear, Linear!Spec
=============================================================================
