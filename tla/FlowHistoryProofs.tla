--------------------------- MODULE FlowHistoryProofs ---------------------------
(***************************************************************************)
(* Proofs about FlowHistory, for any writers, trees, names and bounds.     *)
(***************************************************************************)
EXTENDS FlowHistory, WellFoundedInduction, TLAPS

(* A writer inside Flow.run owns a run nobody else owns. *)
RunsOwned ==
  /\ \A w \in Writers : pc[w] # "idle" =>
       run[w] \in Runs /\ log[run[w]].end = "running"
  /\ \A v, w \in Writers : (v # w /\ pc[v] # "idle" /\ pc[w] # "idle") => run[v] # run[w]
  /\ \A r \in Runs : log[r].end = "none" => log[r].moves = 0
  /\ \A i \in Built : log[commit[i].run].end # "none"

(* Whatever names a commit names one that was built. *)
NamesBuilt ==
  /\ objects \cap Ids \subseteq Built
  /\ \A r \in Refs : refs[r] # None => refs[r] \in Built
  /\ \A i \in Built : commit[i].parent # None => commit[i].parent \in Built
  /\ \A w \in Writers :
       /\ at[w] # None => at[w] \in Built
       /\ ctx[w].parent # None => ctx[w].parent \in Built
       /\ ctx[w].head # None => ctx[w].head \in Built

(* What the context of a run knows: before the head is loaded the run has
   built nothing; then its parent is its own last commit, or one of another
   run when nothing landed yet. *)
OwnParent(w) ==
  LET c == ctx[w]
      r == run[w] IN
  /\ ~c.loaded => log[r].moves = 0 /\ \A i \in Built : commit[i].run # r
  /\ c.loaded =>
       IF log[r].moves = 0
         THEN c.parent # None => commit[c.parent].run # r
         ELSE /\ c.parent # None
              /\ commit[c.parent].run = r
              /\ commit[c.parent].nth = log[r].moves

(* Where the run's first commit goes: onto the HEAD it expects, or onto the
   commit it checked out. *)
ForkOnlyOnce(w) ==
  ctx[w].loaded =>
    \/ ctx[w].parent = ctx[w].head
    \/ /\ log[run[w]].moves = 0 /\ log[run[w]].mode = "at"
       /\ ctx[w].parent = log[run[w]].from

Checkout(w) ==
  /\ pc[w] \in {"checkout", "continue"} => at[w] # None /\ ~ctx[w].loaded
  /\ pc[w] = "continue" => log[run[w]].mode = "at"

Moving(w) == pc[w] = "moving" =>
  /\ ctx[w].loaded /\ at[w] # None
  /\ commit[at[w]].run = run[w]
  /\ commit[at[w]].nth = log[run[w]].moves + 1
  /\ commit[at[w]].parent = ctx[w].parent

Tagging(w) == pc[w] \in {"readTag", "moveTag"} => at[w] # None /\ job[w].tags # <<>>

PositionAt(w) == OwnParent(w) /\ ForkOnlyOnce(w) /\ Checkout(w) /\ Moving(w) /\ Tagging(w)

Position == \A w \in Writers : pc[w] # "idle" => PositionAt(w)

IInv == TypeOK /\ RunsOwned /\ NamesBuilt /\ Position /\ RunsAreContiguous

-----------------------------------------------------------------------------
(* The start: nothing built, nobody running. *)
LEMMA InitInv == Init => IInv
  BY ConstantsAssumption
  DEF Init, IInv, TypeOK, RunsOwned, NamesBuilt, Position, RunsAreContiguous, Built,
      NoCtx, NoJob, NoLog, Refs, Tags, Kinds, Ids, Runs, Context, JobRecord, LogRecord,
      Places, Modes, Ends

-----------------------------------------------------------------------------
(***************************************************************************)
(* Types.  First what the ends of a run and of a save do to the locals.    *)
(***************************************************************************)
LocalTypes ==
  /\ pc \in [Writers -> Places]
  /\ at \in [Writers -> Ids \cup {None}]
  /\ job \in [Writers -> JobRecord]
  /\ log \in [Runs -> LogRecord]

LEMMA LeaveTypes ==
  ASSUME TypeOK, NEW w \in Writers, NEW where \in Places, Leave(w, where)
  PROVE  /\ pc' \in [Writers -> Places]
         /\ at' \in [Writers -> Ids \cup {None}]
         /\ job' \in [Writers -> JobRecord]
<1>1. NoJob \in JobRecord
  BY DEF NoJob, JobRecord, Kinds
<1> QED
  BY <1>1 DEF TypeOK, Leave

LEMMA EndRunTypes ==
  ASSUME TypeOK, NEW w \in Writers, NEW how \in Ends, EndRun(w, how)
  PROVE  LocalTypes'
<1>1. "idle" \in Places
  BY DEF Places
<1>2. log' \in [Runs -> LogRecord]
  BY DEF TypeOK, EndRun, LogRecord
<1> QED
  BY <1>1, <1>2, LeaveTypes DEF EndRun, LocalTypes

LEMMA SaveRaisesTypes ==
  ASSUME TypeOK, NEW w \in Writers, SaveRaises(w)
  PROVE  LocalTypes'
<1>1. "raised" \in Ends /\ "running" \in Places
  BY DEF Ends, Places
<1>2. CASE EndRun(w, "raised")
  BY <1>1, <1>2, EndRunTypes
<1>3. CASE Leave(w, "running") /\ UNCHANGED log
  BY <1>1, <1>3, LeaveTypes DEF LocalTypes, TypeOK
<1> QED
  BY <1>2, <1>3 DEF SaveRaises

LEMMA RefMovedTypes ==
  ASSUME TypeOK, NEW w \in Writers, NEW tags \in Seq(Tags), NEW moves \in Nat,
         run[w] \in Runs, RefMoved(w, tags, moves)
  PROVE  LocalTypes'
<1>0. log[run[w]] \in LogRecord /\ job[w] \in JobRecord
  BY DEF TypeOK
<1>1. /\ "returned" \in Ends
      /\ "running" \in Places /\ "idle" \in Places /\ "readTag" \in Places
  BY DEF Ends, Places
<1>2. CASE tags # <<>>
  <2>1. log' \in [Runs -> LogRecord]
    <3>1. log' = [log EXCEPT ![run[w]] = Landed(log[run[w]], moves, log[run[w]].end)]
      BY <1>2 DEF RefMoved
    <3>2. Landed(log[run[w]], moves, log[run[w]].end) \in LogRecord
      BY <1>0 DEF Landed, LogRecord
    <3> QED
      BY <3>1, <3>2 DEF TypeOK
  <2>2. job' \in [Writers -> JobRecord]
    <3>1. job' = [job EXCEPT ![w] = [kind |-> job[w].kind, tree |-> job[w].tree,
                                     tags |-> tags, old |-> None]]
      BY <1>2 DEF RefMoved
    <3>2. [kind |-> job[w].kind, tree |-> job[w].tree, tags |-> tags, old |-> None] \in JobRecord
      BY <1>0 DEF JobRecord
    <3> QED
      BY <3>1, <3>2 DEF TypeOK
  <2> QED
    BY <1>1, <1>2, <2>1, <2>2 DEF RefMoved, LocalTypes, TypeOK
<1>3. CASE tags = <<>> /\ job[w].kind = "ok"
  <2>1. log' \in [Runs -> LogRecord]
    <3>1. log' = [log EXCEPT ![run[w]] = Landed(log[run[w]], moves, log[run[w]].end)]
      BY <1>3 DEF RefMoved
    <3>2. Landed(log[run[w]], moves, log[run[w]].end) \in LogRecord
      BY <1>0, <1>1 DEF Landed, LogRecord
    <3> QED
      BY <3>1, <3>2 DEF TypeOK
  <2>2. Leave(w, "running")
    BY <1>3 DEF RefMoved
  <2> QED
    BY <1>1, <2>1, <2>2, LeaveTypes DEF LocalTypes
<1>4. CASE tags = <<>> /\ job[w].kind # "ok"
  <2>1. log' \in [Runs -> LogRecord]
    <3>1. log' = [log EXCEPT ![run[w]] = Landed(log[run[w]], moves, "returned")]
      BY <1>1, <1>4 DEF RefMoved
    <3>2. Landed(log[run[w]], moves, "returned") \in LogRecord
      BY <1>0, <1>1 DEF Landed, LogRecord
    <3> QED
      BY <3>1, <3>2 DEF TypeOK
  <2>2. Leave(w, "idle")
    BY <1>4 DEF RefMoved
  <2> QED
    BY <1>1, <2>1, <2>2, LeaveTypes DEF LocalTypes
<1> QED
  BY <1>2, <1>3, <1>4

LEMMA TypeStep == IInv /\ [Next]_vars => TypeOK'
<1> SUFFICES ASSUME IInv, [Next]_vars PROVE TypeOK'
  OBVIOUS
<1>t. TypeOK
  BY DEF IInv
<1>0. NoCtx \in Context
  BY DEF NoCtx, Context
<1>e. "raised" \in Ends /\ "died" \in Ends /\ "returned" \in Ends /\ "running" \in Ends
  BY DEF Ends
<1>p. \A x \in {"checkout", "continue", "running", "saving", "moving", "readTag", "moveTag"} :
        x \in Places
  BY DEF Places
<1>1. ASSUME NEW w \in Writers, NEW mode \in Modes, NEW target, BeginRun(w, mode, target),
             target \in Names \cup Ids \cup {None}
      PROVE  TypeOK'
  <2>1. PICK r \in Runs :
          /\ run' = [run EXCEPT ![w] = r]
          /\ log' = [log EXCEPT ![r] = [mode |-> mode, from |-> None, moves |-> 0, end |-> "running"]]
    BY <1>1 DEF BeginRun
  <2>2. /\ run' \in [Writers -> 0..MaxRuns]
        /\ log' \in [Runs -> LogRecord]
    BY <1>t, <1>e, <2>1, ConstantsAssumption DEF TypeOK, LogRecord, Runs
  <2>3. StartCommit(mode, target) \in Ids \cup {None}
    BY <1>t, <1>1, ConstantsAssumption DEF StartCommit, TypeOK, Modes, Refs, Tags
  <2>4. at' \in [Writers -> Ids \cup {None}] /\ pc' \in [Writers -> Places]
    BY <1>t, <1>1, <1>p, <2>3 DEF BeginRun, TypeOK
  <2> QED
    BY <1>t, <1>0, <1>1, <2>2, <2>4 DEF BeginRun, TypeOK, storeVars
<1>2. ASSUME NEW w \in Writers, CheckoutCorrupt(w) PROVE TypeOK'
  BY <1>t, <1>2, <1>e, EndRunTypes DEF CheckoutCorrupt, TypeOK, LocalTypes, storeVars
<1>b. ASSUME NEW w \in Writers, pc[w] = "checkout"
      PROVE  at[w] \in Ids /\ commit[at[w]] \in CommitRecord
  BY <1>t, <1>b DEF IInv, Position, PositionAt, Checkout, NamesBuilt, Built, TypeOK
<1>3. ASSUME NEW w \in Writers, SkipStateless(w) PROVE TypeOK'
  <2>1. at[w] \in Ids /\ commit[at[w]].parent \in Ids \cup {None}
    BY <1>3, <1>b DEF SkipStateless, CommitRecord
  <2>2. ctx' \in [Writers -> Context]
    <3>1. ctx' = [ctx EXCEPT ![w].head = IF ctx[w].head = None THEN at[w] ELSE ctx[w].head]
      BY <1>3 DEF SkipStateless
    <3>2. (IF ctx[w].head = None THEN at[w] ELSE ctx[w].head) \in Ids \cup {None}
      BY <1>t, <2>1 DEF TypeOK, Context
    <3>3. ctx \in [Writers -> Context]
      BY <1>t DEF TypeOK
    <3> QED
      BY <3>1, <3>2, <3>3 DEF Context
  <2>3. at' \in [Writers -> Ids \cup {None}] /\ pc' \in [Writers -> Places]
    BY <1>t, <1>p, <1>3, <2>1 DEF SkipStateless, TypeOK, Places
  <2> QED
    BY <1>t, <1>3, <2>2, <2>3 DEF SkipStateless, TypeOK, storeVars
<1>4. ASSUME NEW w \in Writers, CheckoutLatest(w) PROVE TypeOK'
  <2>1. at[w] \in Ids
    BY <1>4, <1>b DEF CheckoutLatest
  <2>2. ctx' \in [Writers -> Context]
    BY <1>t, <1>4, <2>1 DEF CheckoutLatest, ContinueLatest, Headed, TypeOK, Context
  <2>3. log' \in [Runs -> LogRecord]
    BY <1>t, <1>4, <2>1 DEF CheckoutLatest, TypeOK, LogRecord
  <2> QED
    BY <1>t, <1>4, <1>p, <2>2, <2>3, LeaveTypes DEF CheckoutLatest, TypeOK, storeVars
<1>5. ASSUME NEW w \in Writers, CheckoutAt(w) PROVE TypeOK'
  <2>1. CASE EndRun(w, "raised")
    BY <1>t, <1>5, <1>e, <2>1, EndRunTypes DEF CheckoutAt, TypeOK, LocalTypes, storeVars
  <2>2. CASE pc' = [pc EXCEPT ![w] = "continue"] /\ UNCHANGED <<at, job, log>>
    BY <1>t, <1>5, <1>p, <2>2 DEF CheckoutAt, TypeOK, storeVars
  <2> QED
    BY <1>t, <1>5, <2>1, <2>2 DEF CheckoutAt
<1>6. ASSUME NEW w \in Writers, ContinueFrom(w) PROVE TypeOK'
  <2>1. ctx' \in [Writers -> Context] /\ log' \in [Runs -> LogRecord]
    BY <1>t, <1>6 DEF ContinueFrom, Headed, TypeOK, Context, LogRecord, Refs
  <2> QED
    BY <1>t, <1>6, <1>p, <2>1, LeaveTypes DEF ContinueFrom, TypeOK, storeVars
<1>7. ASSUME NEW w \in Writers, NEW j \in Jobs(w), PutSnapshot(w, j) PROVE TypeOK'
  <2>1. j \in JobRecord
    <3>1. /\ <<>> \in Seq(Tags) /\ <<"complete">> \in Seq(Tags)
          /\ \A n \in Names : <<n>> \in Seq(Tags)
          /\ \A n, m \in Names : <<n, m>> \in Seq(Tags)
      BY DEF Tags
    <3>a. TagLists \subseteq Seq(Tags)
      <4> SUFFICES ASSUME NEW t \in TagLists PROVE t \in Seq(Tags)
        OBVIOUS
      <4>1. t = <<>> \/ (\E n \in Names : t = <<n>>) \/ (\E n, m \in Names : t = <<n, m>>)
        BY DEF TagLists
      <4> QED
        BY <3>1, <4>1
    <3>2. j.tags \in Seq(Tags)
      BY <1>7, <3>1, <3>a DEF Jobs, FinalTags
    <3>3. /\ j = [kind |-> j.kind, tree |-> j.tree, tags |-> j.tags, old |-> j.old]
          /\ j.kind \in Kinds /\ j.tree \in Trees \cup {EmptyTree} /\ j.old = None
      BY <1>7 DEF Jobs, Kinds
    <3> QED
      BY <3>2, <3>3 DEF JobRecord
  <2>2. job' \in [Writers -> JobRecord] /\ pc' \in [Writers -> Places]
    BY <1>t, <1>7, <1>p, <2>1 DEF PutSnapshot, TypeOK
  <2>3. j.tree \in Objects
    BY <2>1 DEF JobRecord, Objects
  <2>4. /\ objects' \subseteq Objects /\ fresh' \subseteq Objects
        /\ ctx' \in [Writers -> Context]
    <3>1. CASE j.tree \in ctx[w].written
      BY <1>t, <1>7, <3>1 DEF PutSnapshot, TypeOK
    <3>2. CASE j.tree \notin ctx[w].written
      <4>1. ctx' = [ctx EXCEPT ![w].written = @ \cup {j.tree}]
        BY <1>7, <3>2 DEF PutSnapshot
      <4>2. ctx' \in [Writers -> Context]
        BY <1>t, <2>3, <4>1 DEF TypeOK, Context
      <4> QED
        BY <1>t, <1>7, <2>3, <3>2, <4>2 DEF PutSnapshot, TypeOK
    <3> QED
      BY <3>1, <3>2
  <2> QED
    BY <1>t, <1>7, <2>2, <2>4 DEF PutSnapshot, TypeOK
<1>8. ASSUME NEW w \in Writers, LoadHead(w) PROVE TypeOK'
  <2>1. ctx' \in [Writers -> Context]
    BY <1>t, <1>8 DEF LoadHead, Headed, TypeOK, Context, Refs
  <2> QED
    BY <1>t, <1>8, <2>1 DEF LoadHead, TypeOK, storeVars
<1>9. ASSUME NEW w \in Writers, PutCommit(w) PROVE TypeOK'
  <2>1. PICK i \in Ids : /\ commit' = [commit EXCEPT ![i] = NewCommit(w)]
                         /\ objects' = objects \cup {i}
                         /\ fresh' = fresh \cup {i}
                         /\ at' = [at EXCEPT ![w] = i]
    BY <1>9 DEF PutCommit
  <2>2. run[w] \in Runs
    BY <1>9 DEF IInv, RunsOwned, PutCommit
  <2>3. NewCommit(w) \in CommitRecord
    BY <1>t, <2>2 DEF NewCommit, CommitRecord, TypeOK, JobRecord, Context, LogRecord
  <2> QED
    BY <1>t, <1>9, <1>p, <2>1, <2>3 DEF PutCommit, TypeOK, Objects
<1>10. ASSUME NEW w \in Writers, PutRefused(w) PROVE TypeOK'
  BY <1>t, <1>10, SaveRaisesTypes DEF PutRefused, TypeOK, LocalTypes, storeVars
<1>11. ASSUME NEW w \in Writers, MoveHead(w) PROVE TypeOK'
  <2>1. at[w] \in Ids /\ run[w] \in Runs
    BY <1>t, <1>11 DEF IInv, Position, PositionAt, Moving, RunsOwned, MoveHead, TypeOK
  <2>2. refs' \in [Refs -> Ids \cup {None}] /\ ctx' \in [Writers -> Context]
    BY <1>t, <1>11, <2>1 DEF MoveHead, Headed, TypeOK, Context
  <2>3. job[w].tags \in Seq(Tags) /\ log[run[w]].moves + 1 \in Nat
    BY <1>t, <2>1 DEF TypeOK, JobRecord, LogRecord
  <2> QED
    <3>1. LocalTypes'
      BY <1>t, <1>11, <2>1, <2>3, RefMovedTypes DEF MoveHead
    <3> QED
      BY <1>t, <1>11, <2>2, <3>1 DEF MoveHead, TypeOK, LocalTypes
<1>12. ASSUME NEW w \in Writers, HeadConflict(w) PROVE TypeOK'
  BY <1>t, <1>12, SaveRaisesTypes DEF HeadConflict, TypeOK, LocalTypes, storeVars
<1>13. ASSUME NEW w \in Writers, ReadTag(w) PROVE TypeOK'
  <2>1. Head(job[w].tags) \in Refs
    BY <1>t, <1>13 DEF ReadTag, IInv, Position, PositionAt, Tagging, TypeOK, JobRecord, Refs
  <2>2. job' \in [Writers -> JobRecord]
    BY <1>t, <1>13, <2>1 DEF ReadTag, TypeOK, JobRecord
  <2> QED
    BY <1>t, <1>13, <1>p, <2>2 DEF ReadTag, TypeOK, storeVars
<1>14. ASSUME NEW w \in Writers, MoveTag(w) PROVE TypeOK'
  <2>1. at[w] \in Ids /\ run[w] \in Runs /\ job[w].tags # <<>>
    BY <1>t, <1>14 DEF IInv, Position, PositionAt, Tagging, RunsOwned, MoveTag, TypeOK
  <2>2. refs' \in [Refs -> Ids \cup {None}]
    BY <1>t, <1>14, <2>1 DEF MoveTag, TypeOK
  <2>3. Tail(job[w].tags) \in Seq(Tags) /\ log[run[w]].moves \in Nat
    BY <1>t, <2>1 DEF TypeOK, JobRecord, LogRecord
  <2> QED
    <3>1. LocalTypes'
      BY <1>t, <1>14, <2>1, <2>3, RefMovedTypes DEF MoveTag
    <3> QED
      BY <1>t, <1>14, <2>2, <3>1 DEF MoveTag, TypeOK, LocalTypes
<1>15. ASSUME NEW w \in Writers, TagConflict(w) PROVE TypeOK'
  BY <1>t, <1>15, SaveRaisesTypes DEF TagConflict, TypeOK, LocalTypes, storeVars
<1>16. ASSUME NEW w \in Writers, DeleteHistory(w) PROVE TypeOK'
  <2>1. refs' \in [Refs -> Ids \cup {None}] /\ ctx' \in [Writers -> Context]
    BY <1>t, <1>0, <1>16 DEF DeleteHistory, RefsDeleted, TypeOK
  <2> QED
    BY <1>t, <1>16, <1>e, <2>1, EndRunTypes DEF DeleteHistory, TypeOK, LocalTypes
<1>17. ASSUME NEW w \in Writers, RunRaises(w) PROVE TypeOK'
  BY <1>t, <1>17, <1>e, EndRunTypes DEF RunRaises, TypeOK, LocalTypes, storeVars
<1>18. ASSUME NEW w \in Writers, StoreError(w) PROVE TypeOK'
  BY <1>t, <1>18, SaveRaisesTypes DEF StoreError, TypeOK, LocalTypes, storeVars
<1>19. ASSUME NEW w \in Writers, MoveHeadUnacknowledged(w) PROVE TypeOK'
  <2>1. at[w] \in Ids
    BY <1>t, <1>19 DEF IInv, Position, PositionAt, Moving, MoveHeadUnacknowledged, TypeOK
  <2>2. refs' \in [Refs -> Ids \cup {None}]
    BY <1>t, <1>19, <2>1 DEF MoveHeadUnacknowledged, TypeOK
  <2> QED
    BY <1>t, <1>19, <2>2, SaveRaisesTypes DEF MoveHeadUnacknowledged, TypeOK, LocalTypes
<1>20. ASSUME NEW w \in Writers, Crash(w) PROVE TypeOK'
  BY <1>t, <1>20, <1>e, EndRunTypes DEF Crash, TypeOK, LocalTypes, storeVars
<1>21. CASE Age
  BY <1>t, <1>21 DEF Age, TypeOK
<1>22. CASE Prune
  BY <1>t, <1>22 DEF Prune, Reach, TypeOK
<1>23. CASE UNCHANGED vars
  BY <1>t, <1>23 DEF vars, TypeOK
<1> QED
  BY <1>t, <1>1, <1>2, <1>3, <1>4, <1>5, <1>6, <1>7, <1>8, <1>9, <1>10, <1>11, <1>12, <1>13,
     <1>14, <1>15, <1>16, <1>17, <1>18, <1>19, <1>20, <1>21, <1>22, <1>23
  DEF Next, Step, Modes

-----------------------------------------------------------------------------
(***************************************************************************)
(* The inductive step.  First what the ends of a run and of a save leave   *)
(* of the locals and of the log.                                           *)
(***************************************************************************)
OthersKept(w) ==
  /\ \A v \in Writers \ {w} : pc'[v] = pc[v] /\ at'[v] = at[v] /\ job'[v] = job[v]
  /\ \A r \in Runs \ {run[w]} : log'[r] = log[r]

SameStart(w) ==
  log'[run[w]].mode = log[run[w]].mode /\ log'[run[w]].from = log[run[w]].from

(* The writer left a save or its run, or goes on in its run. *)
Left(w, moves) ==
  /\ OthersKept(w) /\ SameStart(w)
  /\ pc'[w] \in {"idle", "running"} /\ at'[w] = None
  /\ log'[run[w]].moves = moves
  /\ log'[run[w]].end # "none"
  /\ pc'[w] = "running" => log'[run[w]].end = log[run[w]].end

LEMMA EndRunLeaves ==
  ASSUME TypeOK, NEW w \in Writers, run[w] \in Runs, NEW how \in Ends \ {"none"}, EndRun(w, how)
  PROVE  Left(w, log[run[w]].moves) /\ pc'[w] = "idle"
  BY DEF TypeOK, LogRecord, EndRun, Leave, Left, OthersKept, SameStart

LEMMA SaveRaisesLeaves ==
  ASSUME TypeOK, NEW w \in Writers, run[w] \in Runs, log[run[w]].end = "running", SaveRaises(w)
  PROVE  Left(w, log[run[w]].moves)
<1>1. CASE EndRun(w, "raised")
  BY <1>1, EndRunLeaves DEF Ends
<1>2. CASE Leave(w, "running") /\ UNCHANGED log
  BY <1>2 DEF TypeOK, Leave, Left, OthersKept, SameStart
<1> QED
  BY <1>1, <1>2 DEF SaveRaises

LEMMA RefMovedLeaves ==
  ASSUME TypeOK, NEW w \in Writers, run[w] \in Runs, log[run[w]].end = "running",
         NEW tags \in Seq(Tags), NEW moves \in Nat, RefMoved(w, tags, moves)
  PROVE  \/ Left(w, moves)
         \/ /\ OthersKept(w) /\ SameStart(w)
            /\ pc'[w] = "readTag" /\ at'[w] = at[w]
            /\ job'[w].tags = tags /\ tags # <<>>
            /\ log'[run[w]].moves = moves
            /\ log'[run[w]].end = log[run[w]].end
<1> USE DEF OthersKept, SameStart
<1>1. CASE tags # <<>>
  BY <1>1 DEF RefMoved, Landed, TypeOK
<1>2. CASE tags = <<>> /\ job[w].kind = "ok"
  BY <1>2 DEF RefMoved, Landed, TypeOK, Leave, Left
<1>3. CASE tags = <<>> /\ job[w].kind # "ok"
  BY <1>3 DEF RefMoved, Landed, TypeOK, Leave, Left
<1> QED
  BY <1>1, <1>2, <1>3

LEMMA RunsOwnedStep == IInv /\ [Next]_vars => RunsOwned'
<1> SUFFICES ASSUME IInv, [Next]_vars PROVE RunsOwned'
  OBVIOUS
<1>t. TypeOK /\ RunsOwned
  BY DEF IInv
<1>o. ASSUME NEW w \in Writers, pc[w] # "idle"
      PROVE  run[w] \in Runs /\ log[run[w]].end = "running"
  BY <1>t, <1>o DEF RunsOwned
<1>l. ASSUME NEW w \in Writers, pc[w] # "idle", NEW m, Left(w, m), UNCHANGED <<commit, run>>
      PROVE  RunsOwned'
  <2>1. \A v \in Writers : pc'[v] # "idle" => run'[v] \in Runs /\ log'[run'[v]].end = "running"
    BY <1>t, <1>o, <1>l DEF RunsOwned, Left, OthersKept
  <2>2. \A v, u \in Writers : (v # u /\ pc'[v] # "idle" /\ pc'[u] # "idle") => run'[v] # run'[u]
    BY <1>t, <1>l DEF RunsOwned, Left, OthersKept
  <2>3. \A r \in Runs : log'[r].end = "none" => log[r].end = "none" /\ log'[r].moves = log[r].moves
    BY <1>l DEF Left, OthersKept
  <2>4. \A i \in Built : commit[i].run \in Runs
    BY <1>t DEF TypeOK, Built, CommitRecord
  <2> QED
    BY <1>t, <1>l, <2>1, <2>2, <2>3, <2>4 DEF RunsOwned, Built
<1>r. ASSUME NEW w \in Writers, pc[w] # "idle", SaveRaises(w), UNCHANGED <<commit, run>>
      PROVE  RunsOwned'
  BY <1>t, <1>o, <1>l, <1>r, SaveRaisesLeaves
<1>e. ASSUME NEW w \in Writers, pc[w] # "idle", NEW how \in Ends \ {"none"}, EndRun(w, how),
             UNCHANGED <<commit, run>>
      PROVE  RunsOwned'
  BY <1>t, <1>o, <1>l, <1>e, EndRunLeaves
<1>m. ASSUME NEW w \in Writers, pc[w] # "idle", NEW tags \in Seq(Tags), NEW m \in Nat,
             RefMoved(w, tags, m), UNCHANGED <<commit, run>>
      PROVE  RunsOwned'
  <2>1. CASE Left(w, m)
    BY <1>m, <1>l, <2>1
  <2>2. CASE ~Left(w, m)
    <3>1. /\ OthersKept(w) /\ pc'[w] = "readTag"
          /\ log'[run[w]].end = log[run[w]].end
      BY <1>t, <1>o, <1>m, <2>2, RefMovedLeaves
    <3>2. \A v \in Writers : pc'[v] # "idle" => run'[v] \in Runs /\ log'[run'[v]].end = "running"
      BY <1>t, <1>o, <1>m, <3>1 DEF RunsOwned, OthersKept
    <3>3. \A v, u \in Writers : (v # u /\ pc'[v] # "idle" /\ pc'[u] # "idle") => run'[v] # run'[u]
      BY <1>t, <1>m, <3>1 DEF RunsOwned, OthersKept
    <3>4. \A r \in Runs : log'[r].end = "none" => log[r].end = "none" /\ log'[r].moves = log[r].moves
      BY <1>o, <1>m, <3>1 DEF OthersKept
    <3>5. \A i \in Built : commit[i].run \in Runs
      BY <1>t DEF TypeOK, Built, CommitRecord
    <3> QED
      BY <1>t, <1>o, <1>m, <3>1, <3>2, <3>3, <3>4, <3>5 DEF RunsOwned, OthersKept, Built
  <2> QED
    BY <2>1, <2>2
<1> USE DEF TypeOK, RunsOwned, Built, LogRecord, CommitRecord, Runs
<1>1. ASSUME NEW w \in Writers, NEW mode \in Modes, NEW target, BeginRun(w, mode, target),
             target \in Names \cup Ids \cup {None}
      PROVE  RunsOwned'
  <2>1. PICK r \in Runs :
          /\ log[r].end = "none"
          /\ run' = [run EXCEPT ![w] = r]
          /\ log' = [log EXCEPT ![r] = [mode |-> mode, from |-> None, moves |-> 0, end |-> "running"]]
    BY <1>1 DEF BeginRun, NextRun
  <2>2. /\ pc[w] = "idle"
        /\ \A v \in Writers \ {w} : pc'[v] = pc[v] /\ run'[v] = run[v]
        /\ run'[w] = r /\ log'[r].end = "running"
        /\ \A q \in Runs \ {r} : log'[q] = log[q]
    BY <1>t, <1>1, <2>1 DEF BeginRun
  <2>3. \A v \in Writers \ {w} : pc[v] # "idle" => run[v] # r
    BY <1>t, <2>1 DEF BeginRun
  <2>4. \A i \in Built : commit[i].run \in Runs
    BY <1>t
  <2>5. UNCHANGED commit
    BY <1>1 DEF BeginRun, storeVars
  <2> HIDE DEF TypeOK, LogRecord, CommitRecord, Runs
  <2> QED
    BY <1>t, <2>2, <2>3, <2>4, <2>5
<1>2. ASSUME NEW w \in Writers, NEW j \in Jobs(w), PutSnapshot(w, j) PROVE RunsOwned'
  BY <1>t, <1>2 DEF PutSnapshot
<1>3. ASSUME NEW w \in Writers, SkipStateless(w) PROVE RunsOwned'
  BY <1>t, <1>3 DEF SkipStateless, storeVars
<1>4. ASSUME NEW w \in Writers, CheckoutLatest(w) PROVE RunsOwned'
  BY <1>t, <1>4 DEF CheckoutLatest, ContinueLatest, Headed, Leave, storeVars
<1>5. ASSUME NEW w \in Writers, ContinueFrom(w) PROVE RunsOwned'
  BY <1>t, <1>5 DEF ContinueFrom, Headed, Leave, storeVars
<1>6. ASSUME NEW w \in Writers, LoadHead(w) PROVE RunsOwned'
  BY <1>t, <1>6 DEF LoadHead, HeadUnknown, Headed, storeVars
<1>7. ASSUME NEW w \in Writers, PutCommit(w) PROVE RunsOwned'
  BY <1>t, <1>7 DEF PutCommit, NewCommit, NextId
<1>8. ASSUME NEW w \in Writers, ReadTag(w) PROVE RunsOwned'
  BY <1>t, <1>8 DEF ReadTag, storeVars
<1>9. ASSUME NEW w \in Writers, CheckoutCorrupt(w) PROVE RunsOwned'
  BY <1>e, <1>9 DEF CheckoutCorrupt, storeVars, Ends
<1>10. ASSUME NEW w \in Writers, DeleteHistory(w) PROVE RunsOwned'
  BY <1>e, <1>10 DEF DeleteHistory, storeVars, Ends
<1>11. ASSUME NEW w \in Writers, RunRaises(w) PROVE RunsOwned'
  BY <1>e, <1>11 DEF RunRaises, storeVars, Ends
<1>12. ASSUME NEW w \in Writers, Crash(w) PROVE RunsOwned'
  BY <1>e, <1>12 DEF Crash, storeVars, Ends
<1>13. ASSUME NEW w \in Writers, PutRefused(w) PROVE RunsOwned'
  BY <1>r, <1>13 DEF PutRefused, storeVars, InSave
<1>14. ASSUME NEW w \in Writers, HeadConflict(w) PROVE RunsOwned'
  BY <1>r, <1>14 DEF HeadConflict, storeVars, InSave
<1>15. ASSUME NEW w \in Writers, TagConflict(w) PROVE RunsOwned'
  BY <1>r, <1>15 DEF TagConflict, storeVars, InSave
<1>16. ASSUME NEW w \in Writers, StoreError(w) PROVE RunsOwned'
  BY <1>r, <1>16 DEF StoreError, storeVars, InSave
<1>17. ASSUME NEW w \in Writers, MoveHeadUnacknowledged(w) PROVE RunsOwned'
  BY <1>r, <1>17 DEF MoveHeadUnacknowledged, storeVars, InSave
<1>18. ASSUME NEW w \in Writers, CheckoutAt(w) PROVE RunsOwned'
  <2>1. CASE EndRun(w, "raised")
    BY <1>e, <1>18, <2>1 DEF CheckoutAt, storeVars, Ends
  <2>2. CASE pc' = [pc EXCEPT ![w] = "continue"] /\ UNCHANGED <<at, job, log>>
    BY <1>t, <1>18, <2>2 DEF CheckoutAt, storeVars
  <2> QED
    BY <1>18, <2>1, <2>2 DEF CheckoutAt
<1>19. ASSUME NEW w \in Writers, MoveHead(w) PROVE RunsOwned'
  <2>1. job[w].tags \in Seq(Tags) /\ log[run[w]].moves + 1 \in Nat
    BY <1>t, <1>o, <1>19 DEF MoveHead, JobRecord
  <2> QED
    BY <1>m, <1>19, <2>1 DEF MoveHead
<1>20. ASSUME NEW w \in Writers, MoveTag(w) PROVE RunsOwned'
  <2>1. job[w].tags # <<>>
    BY <1>20 DEF IInv, Position, PositionAt, Tagging, MoveTag
  <2>2. Tail(job[w].tags) \in Seq(Tags) /\ log[run[w]].moves \in Nat
    BY <1>t, <1>o, <1>20, <2>1 DEF MoveTag, JobRecord
  <2> QED
    BY <1>m, <1>20, <2>2 DEF MoveTag
<1>21. CASE Age
  BY <1>t, <1>21 DEF Age
<1>22. CASE Prune
  BY <1>t, <1>22 DEF Prune
<1>23. CASE UNCHANGED vars
  BY <1>t, <1>23 DEF vars
<1> QED
  BY <1>1, <1>2, <1>3, <1>4, <1>5, <1>6, <1>7, <1>8, <1>9, <1>10, <1>11, <1>12, <1>13, <1>14, <1>15, <1>16, <1>17, <1>18, <1>19, <1>20, <1>21, <1>22, <1>23
  DEF Next, Step, Modes

LEMMA NamesBuiltStep == IInv /\ [Next]_vars => NamesBuilt'
<1> SUFFICES ASSUME IInv, [Next]_vars PROVE NamesBuilt'
  OBVIOUS
<1>t. TypeOK /\ RunsOwned /\ NamesBuilt
  BY DEF IInv
<1>o. ASSUME NEW w \in Writers, pc[w] # "idle"
      PROVE  run[w] \in Runs /\ log[run[w]].end = "running"
  BY <1>t, <1>o DEF RunsOwned
<1>k. ASSUME UNCHANGED commit,
             objects' \cap Ids \subseteq Built,
             \A r \in Refs : refs'[r] # None => refs'[r] \in Built,
             \A v \in Writers :
               /\ at'[v] # None => at'[v] \in Built
               /\ ctx'[v].parent # None => ctx'[v].parent \in Built
               /\ ctx'[v].head # None => ctx'[v].head \in Built
      PROVE  NamesBuilt'
  BY <1>t, <1>k DEF NamesBuilt, Built
<1>b. \A v \in Writers : (pc[v] # "idle" /\ at[v] # None) => at[v] \in Built
  BY <1>t DEF NamesBuilt
<1>l. ASSUME NEW w \in Writers,
             \A v \in Writers \ {w} : at'[v] = at[v],
             at'[w] \in {None, at[w]}
      PROVE  \A v \in Writers : at'[v] # None => at'[v] \in Built
  BY <1>t, <1>l DEF NamesBuilt
<1>r. ASSUME NEW w \in Writers, pc[w] # "idle", SaveRaises(w) \/ \E how \in Ends : EndRun(w, how)
      PROVE  \A v \in Writers : at'[v] # None => at'[v] \in Built
  BY <1>t, <1>l, <1>r DEF SaveRaises, EndRun, Leave, TypeOK
<1>m. ASSUME NEW w \in Writers, pc[w] # "idle", NEW tags, NEW m, RefMoved(w, tags, m)
      PROVE  \A v \in Writers : at'[v] # None => at'[v] \in Built
  BY <1>t, <1>l, <1>m DEF RefMoved, Leave, TypeOK
<1>s. ASSUME NEW w \in Writers, pc[w] # "idle", SaveRaises(w) \/ \E how \in Ends : EndRun(w, how),
             UNCHANGED <<storeVars, ctx>>
      PROVE  NamesBuilt'
  BY <1>t, <1>k, <1>r, <1>s DEF NamesBuilt, storeVars
<1> USE DEF storeVars
<1>1. ASSUME NEW w \in Writers, NEW mode \in Modes, NEW target, BeginRun(w, mode, target),
             target \in Names \cup Ids \cup {None}
      PROVE  NamesBuilt'
  <2>1. LET start == StartCommit(mode, target) IN start # None => start \in Built
    BY <1>t, <1>1, ConstantsAssumption DEF StartCommit, NamesBuilt, Refs, Tags, Modes
  <2>2. at' = [at EXCEPT ![w] = StartCommit(mode, target)] /\ ctx' = [ctx EXCEPT ![w] = NoCtx]
    BY <1>1 DEF BeginRun
  <2>3. \A v \in Writers : at'[v] # None => at'[v] \in Built
    BY <1>t, <2>1, <2>2 DEF TypeOK, NamesBuilt
  <2>4. \A v \in Writers :
               /\ ctx'[v].parent # None => ctx'[v].parent \in Built
               /\ ctx'[v].head # None => ctx'[v].head \in Built
    BY <1>t, <2>2 DEF TypeOK, NamesBuilt, NoCtx
  <2> QED
    BY <1>t, <1>1, <1>k, <2>3, <2>4 DEF BeginRun, NamesBuilt
<1>2. ASSUME NEW w \in Writers, CheckoutCorrupt(w) PROVE NamesBuilt'
  BY <1>s, <1>2 DEF CheckoutCorrupt, Ends
<1>c. ASSUME NEW w \in Writers, pc[w] \in {"checkout", "continue"}
      PROVE  at[w] \in Built /\ at[w] \in Ids /\ ~ctx[w].loaded
  BY <1>t, <1>c DEF IInv, Position, PositionAt, Checkout, NamesBuilt, Built
<1>3. ASSUME NEW w \in Writers, SkipStateless(w) PROVE NamesBuilt'
  <2>1. /\ at' = [at EXCEPT ![w] = commit[at[w]].parent]
        /\ ctx' = [ctx EXCEPT ![w].head = IF ctx[w].head = None THEN at[w] ELSE ctx[w].head]
    BY <1>3 DEF SkipStateless
  <2>2. \A v \in Writers : at'[v] # None => at'[v] \in Built
    BY <1>t, <1>3, <1>c, <2>1 DEF TypeOK, NamesBuilt, SkipStateless
  <2>3. \A v \in Writers :
               /\ ctx'[v].parent # None => ctx'[v].parent \in Built
               /\ ctx'[v].head # None => ctx'[v].head \in Built
    <3>1. ctx \in [Writers -> Context] /\ at[w] \in Built
      BY <1>t, <1>3, <1>c DEF TypeOK, SkipStateless
    <3> QED
      BY <1>t, <3>1, <2>1 DEF NamesBuilt, Context
  <2> QED
    BY <1>t, <1>3, <1>k, <2>2, <2>3 DEF SkipStateless, NamesBuilt
<1>h. ASSUME NEW w \in Writers, NEW p \in Built \cup {None}, NEW h \in Built \cup {None},
             ctx' = [ctx EXCEPT ![w] = Headed(@, p, h)]
      PROVE  \A v \in Writers :
               /\ ctx'[v].parent # None => ctx'[v].parent \in Built
               /\ ctx'[v].head # None => ctx'[v].head \in Built
  BY <1>t, <1>h DEF TypeOK, NamesBuilt, Headed
<1>4. ASSUME NEW w \in Writers, CheckoutLatest(w) PROVE NamesBuilt'
  <2> DEFINE h == IF ctx[w].head = None THEN at[w] ELSE ctx[w].head
  <2>1. ctx' = [ctx EXCEPT ![w] = Headed(@, h, h)]
    BY <1>4 DEF CheckoutLatest, ContinueLatest
  <2>2. h \in Built
    BY <1>t, <1>4, <1>c DEF CheckoutLatest, NamesBuilt
  <2> HIDE DEF h
  <2>3. \A v \in Writers : at'[v] # None => at'[v] \in Built
    BY <1>t, <1>l, <1>4 DEF CheckoutLatest, Leave, TypeOK
  <2> QED
    <3>1. \A v \in Writers :
               /\ ctx'[v].parent # None => ctx'[v].parent \in Built
               /\ ctx'[v].head # None => ctx'[v].head \in Built
      BY <1>h, <2>1, <2>2
    <3> QED
      BY <1>t, <1>k, <1>4, <2>3, <3>1 DEF CheckoutLatest, NamesBuilt
<1>5. ASSUME NEW w \in Writers, CheckoutAt(w) PROVE NamesBuilt'
  <2>1. CASE EndRun(w, "raised")
    BY <1>s, <1>5, <2>1 DEF CheckoutAt, Ends
  <2>2. CASE UNCHANGED at
    BY <1>t, <1>k, <1>5, <2>2 DEF CheckoutAt, NamesBuilt
  <2> QED
    BY <1>5, <2>1, <2>2 DEF CheckoutAt
<1>6. ASSUME NEW w \in Writers, ContinueFrom(w) PROVE NamesBuilt'
  <2>1. refs["HEAD"] \in Built \cup {None} /\ at[w] \in Built
    BY <1>t, <1>6, <1>c DEF NamesBuilt, Refs, ContinueFrom
  <2>2. \A v \in Writers : at'[v] # None => at'[v] \in Built
    BY <1>t, <1>l, <1>6 DEF ContinueFrom, Leave, TypeOK
  <2> QED
    BY <1>t, <1>h, <1>k, <1>6, <2>1, <2>2 DEF ContinueFrom, NamesBuilt
<1>7. ASSUME NEW w \in Writers, NEW j \in Jobs(w), PutSnapshot(w, j) PROVE NamesBuilt'
  <2>1. j.tree \notin Ids
    BY ConstantsAssumption DEF Jobs
  <2>2. objects' \cap Ids \subseteq Built
    BY <1>t, <1>7, <2>1 DEF PutSnapshot, NamesBuilt
  <2>3. \A v \in Writers :
               /\ ctx'[v].parent # None => ctx'[v].parent \in Built
               /\ ctx'[v].head # None => ctx'[v].head \in Built
    BY <1>t, <1>7 DEF PutSnapshot, NamesBuilt, TypeOK, Context
  <2> QED
    BY <1>t, <1>k, <1>7, <2>2, <2>3 DEF PutSnapshot, NamesBuilt
<1>8. ASSUME NEW w \in Writers, LoadHead(w) PROVE NamesBuilt'
  <2>1. refs["HEAD"] \in Built \cup {None}
    BY <1>t DEF NamesBuilt, Refs
  <2> QED
    BY <1>t, <1>h, <1>k, <1>8, <2>1 DEF LoadHead, NamesBuilt
<1>9. ASSUME NEW w \in Writers, PutCommit(w) PROVE NamesBuilt'
  <2>1. PICK i \in Ids : /\ NextId(i)
                         /\ commit' = [commit EXCEPT ![i] = NewCommit(w)]
                         /\ objects' = objects \cup {i}
                         /\ at' = [at EXCEPT ![w] = i]
    BY <1>9 DEF PutCommit
  <2>2. NewCommit(w) # None
    BY <1>t, <1>o, <1>9, ConstantsAssumption
    DEF PutCommit, TypeOK, NewCommit, CommitRecord, JobRecord, Context, LogRecord
  <2>3. Built' = Built \cup {i}
    BY <1>t, <2>1, <2>2 DEF Built, TypeOK
  <2>4. \A j \in Built' : commit'[j].parent # None => commit'[j].parent \in Built'
    <3>1. ctx[w].parent # None => ctx[w].parent \in Built
      BY <1>t DEF NamesBuilt
    <3>2. commit'[i].parent = ctx[w].parent
      BY <1>t, <2>1 DEF NewCommit, TypeOK
    <3>3. \A j \in Built \ {i} : commit'[j] = commit[j]
      BY <1>t, <2>1 DEF Built, TypeOK
    <3> QED
      BY <1>t, <2>3, <3>1, <3>2, <3>3 DEF NamesBuilt
  <2>5. \A v \in Writers : at'[v] # None => at'[v] \in Built'
    BY <1>t, <2>1, <2>3 DEF NamesBuilt, TypeOK
  <2> QED
    BY <1>t, <1>9, <2>1, <2>3, <2>4, <2>5 DEF PutCommit, NamesBuilt
<1>10. ASSUME NEW w \in Writers, PutRefused(w) PROVE NamesBuilt'
  BY <1>s, <1>10 DEF PutRefused
<1>a. ASSUME NEW w \in Writers, pc[w] = "moving" PROVE at[w] \in Built
  BY <1>t, <1>a DEF IInv, Position, PositionAt, Moving, NamesBuilt
<1>11. ASSUME NEW w \in Writers, MoveHead(w) PROVE NamesBuilt'
  <2>1. at[w] \in Built /\ refs' = [refs EXCEPT !["HEAD"] = at[w]]
    BY <1>11, <1>a DEF MoveHead
  <2>2. \A r \in Refs : refs'[r] # None => refs'[r] \in Built
    BY <1>t, <2>1 DEF NamesBuilt, TypeOK
  <2>3. \A v \in Writers : at'[v] # None => at'[v] \in Built
    BY <1>m, <1>11 DEF MoveHead
  <2> QED
    BY <1>t, <1>h, <1>k, <1>11, <2>1, <2>2, <2>3 DEF MoveHead, NamesBuilt
<1>12. ASSUME NEW w \in Writers, HeadConflict(w) PROVE NamesBuilt'
  BY <1>s, <1>12 DEF HeadConflict
<1>13. ASSUME NEW w \in Writers, ReadTag(w) PROVE NamesBuilt'
  BY <1>t, <1>k, <1>13 DEF ReadTag, NamesBuilt
<1>14. ASSUME NEW w \in Writers, MoveTag(w) PROVE NamesBuilt'
  <2>1. at[w] \in Built
    BY <1>t, <1>14 DEF IInv, Position, PositionAt, Tagging, NamesBuilt, MoveTag
  <2>2. \A r \in Refs : refs'[r] # None => refs'[r] \in Built
    BY <1>t, <1>14, <2>1 DEF NamesBuilt, TypeOK, MoveTag
  <2>3. \A v \in Writers : at'[v] # None => at'[v] \in Built
    BY <1>m, <1>14 DEF MoveTag
  <2> QED
    BY <1>t, <1>k, <1>14, <2>2, <2>3 DEF MoveTag, NamesBuilt
<1>15. ASSUME NEW w \in Writers, TagConflict(w) PROVE NamesBuilt'
  BY <1>s, <1>15 DEF TagConflict
<1>16. ASSUME NEW w \in Writers, DeleteHistory(w) PROVE NamesBuilt'
  <2>1. \A v \in Writers : at'[v] # None => at'[v] \in Built
    BY <1>r, <1>16 DEF DeleteHistory, Ends
  <2>2. \A v \in Writers :
               /\ ctx'[v].parent # None => ctx'[v].parent \in Built
               /\ ctx'[v].head # None => ctx'[v].head \in Built
    BY <1>t, <1>16 DEF DeleteHistory, NamesBuilt, TypeOK, NoCtx
  <2>3. \A r \in Refs : refs'[r] = None
    BY <1>16 DEF DeleteHistory, RefsDeleted
  <2> QED
    BY <1>k, <1>16, <2>1, <2>2, <2>3 DEF DeleteHistory
<1>17. ASSUME NEW w \in Writers, RunRaises(w) PROVE NamesBuilt'
  BY <1>s, <1>17 DEF RunRaises, Ends
<1>18. ASSUME NEW w \in Writers, StoreError(w) PROVE NamesBuilt'
  BY <1>s, <1>18 DEF StoreError, InSave
<1>19. ASSUME NEW w \in Writers, MoveHeadUnacknowledged(w) PROVE NamesBuilt'
  <2>1. \A r \in Refs : refs'[r] # None => refs'[r] \in Built
    BY <1>t, <1>19, <1>a DEF MoveHeadUnacknowledged, NamesBuilt, TypeOK
  <2>2. \A v \in Writers : at'[v] # None => at'[v] \in Built
    BY <1>r, <1>19 DEF MoveHeadUnacknowledged
  <2> QED
    BY <1>t, <1>k, <1>19, <2>1, <2>2 DEF MoveHeadUnacknowledged, NamesBuilt
<1>20. ASSUME NEW w \in Writers, Crash(w) PROVE NamesBuilt'
  BY <1>s, <1>20 DEF Crash, Ends
<1>21. CASE Age
  BY <1>t, <1>k, <1>21 DEF Age, NamesBuilt
<1>22. CASE Prune
  BY <1>t, <1>k, <1>22 DEF Prune, Reach, NamesBuilt
<1>23. CASE UNCHANGED vars
  BY <1>t, <1>k, <1>23 DEF vars, NamesBuilt
<1> QED
  BY <1>1, <1>2, <1>3, <1>4, <1>5, <1>6, <1>7, <1>8, <1>9, <1>10, <1>11, <1>12, <1>13, <1>14,
     <1>15, <1>16, <1>17, <1>18, <1>19, <1>20, <1>21, <1>22, <1>23
  DEF Next, Step, Modes

(* One new commit, the rest kept: what PutCommit does to the commits. *)
LEMMA PutCommitBuilds ==
  ASSUME IInv, NEW w \in Writers, PutCommit(w)
  PROVE  \E i \in Ids \ Built :
           /\ Built' = Built \cup {i}
           /\ \A j \in Built : commit'[j] = commit[j]
           /\ commit'[i] = NewCommit(w)
           /\ at' = [at EXCEPT ![w] = i]
<1>t. TypeOK /\ run[w] \in Runs
  BY DEF IInv, RunsOwned, PutCommit
<1>1. PICK i \in Ids : /\ NextId(i)
                       /\ commit' = [commit EXCEPT ![i] = NewCommit(w)]
                       /\ at' = [at EXCEPT ![w] = i]
  BY DEF PutCommit
<1>2. NewCommit(w) # None
  BY <1>t, ConstantsAssumption
  DEF PutCommit, TypeOK, NewCommit, CommitRecord, JobRecord, Context, LogRecord
<1> QED
  BY <1>t, <1>1, <1>2 DEF Built, TypeOK, NextId

LEMMA ContiguousStep == IInv /\ [Next]_vars => RunsAreContiguous'
<1> SUFFICES ASSUME IInv, [Next]_vars PROVE RunsAreContiguous'
  OBVIOUS
<1>t. TypeOK /\ NamesBuilt /\ RunsAreContiguous
  BY DEF IInv
<1>1. CASE UNCHANGED commit
  BY <1>t, <1>1 DEF RunsAreContiguous, Built
<1>2. ASSUME NEW w \in Writers, PutCommit(w) PROVE RunsAreContiguous'
  <2>1. PICK i \in Ids \ Built :
          /\ Built' = Built \cup {i}
          /\ \A j \in Built : commit'[j] = commit[j]
          /\ commit'[i] = NewCommit(w)
    BY <1>2, PutCommitBuilds
  <2>2. /\ ctx[w].loaded /\ OwnParent(w)
        /\ log[run[w]].moves \in Nat
        /\ ctx[w].parent # None => ctx[w].parent \in Built
    BY <1>t, <1>2 DEF IInv, Position, PositionAt, RunsOwned, PutCommit, NamesBuilt, TypeOK, LogRecord
  <2>3. /\ commit'[i].parent = ctx[w].parent /\ commit'[i].run = run[w]
        /\ commit'[i].nth = log[run[w]].moves + 1
    BY <2>1 DEF NewCommit
  <2>4. ASSUME NEW j \in Built PROVE commit[j].parent # None => commit[j].parent \in Built
    BY <1>t DEF NamesBuilt
  <2>5. LET c == commit'[i] IN
        IF c.nth = 1
          THEN c.parent # None => commit'[c.parent].run # c.run
          ELSE /\ c.parent # None
               /\ commit'[c.parent].run = c.run
               /\ commit'[c.parent].nth + 1 = c.nth
    BY <2>1, <2>2, <2>3 DEF OwnParent
  <2>6. ASSUME NEW j \in Built
        PROVE  LET c == commit'[j] IN
               IF c.nth = 1
                 THEN c.parent # None => commit'[c.parent].run # c.run
                 ELSE /\ c.parent # None
                      /\ commit'[c.parent].run = c.run
                      /\ commit'[c.parent].nth + 1 = c.nth
    BY <1>t, <2>1, <2>4 DEF RunsAreContiguous
  <2> QED
    BY <2>1, <2>5, <2>6 DEF RunsAreContiguous
<1>3. (\E w \in Writers : PutCommit(w)) \/ UNCHANGED commit
  BY DEF Next, Step, BeginRun, CheckoutCorrupt, SkipStateless, CheckoutLatest, CheckoutAt,
         ContinueFrom, PutSnapshot, LoadHead, PutRefused, MoveHead, HeadConflict, ReadTag,
         MoveTag, TagConflict, DeleteHistory, RunRaises, StoreError, MoveHeadUnacknowledged,
         Crash, Age, Prune, vars, storeVars
<1> QED
  BY <1>1, <1>2, <1>3

(* A writer that does not move keeps its position, whatever another does. *)
Kept(v) ==
  /\ pc'[v] = pc[v] /\ at'[v] = at[v] /\ job'[v] = job[v]
  /\ ctx'[v] = ctx[v] /\ run'[v] = run[v]
  /\ log'[run[v]] = log[run[v]]

LEMMA OtherPosition ==
  ASSUME IInv, NEW v \in Writers, pc[v] # "idle", Kept(v),
         \A i \in Built : i \in Built' /\ commit'[i] = commit[i],
         \A i \in Built' \ Built : commit'[i].run # run[v]
  PROVE  PositionAt(v)'
<1>1. PositionAt(v)
  BY DEF IInv, Position
<1>2. /\ at[v] # None => at[v] \in Built
      /\ ctx[v].parent # None => ctx[v].parent \in Built
  BY DEF IInv, NamesBuilt
<1>3. OwnParent(v)' /\ ForkOnlyOnce(v)'
  BY <1>1, <1>2 DEF Kept, PositionAt, OwnParent, ForkOnlyOnce
<1>4. Checkout(v)' /\ Moving(v)' /\ Tagging(v)'
  BY <1>1, <1>2 DEF Kept, PositionAt, Checkout, Moving, Tagging
<1> QED
  BY <1>3, <1>4 DEF PositionAt

LEMMA PositionStep == IInv /\ [Next]_vars => Position'
<1> SUFFICES ASSUME IInv, [Next]_vars PROVE Position'
  OBVIOUS
<1>t. TypeOK /\ RunsOwned /\ NamesBuilt
  BY DEF IInv
<1>o. ASSUME NEW w \in Writers, pc[w] # "idle"
      PROVE  /\ run[w] \in Runs /\ log[run[w]].end = "running"
             /\ OwnParent(w) /\ ForkOnlyOnce(w) /\ Checkout(w) /\ Moving(w) /\ Tagging(w)
             /\ \A v \in Writers \ {w} : pc[v] # "idle" => run[v] # run[w] /\ run[v] \in Runs
  BY <1>t, <1>o DEF RunsOwned, IInv, Position, PositionAt
(* The commits are kept: what is left is the writer that moves. *)
<1>w. ASSUME NEW w \in Writers, UNCHANGED commit,
             \A v \in Writers \ {w} : pc'[v] # "idle" => pc[v] # "idle" /\ Kept(v),
             pc'[w] # "idle" => PositionAt(w)'
      PROVE  Position'
  BY <1>w, OtherPosition DEF Position, Built
(* The same, for a writer that moves inside its run. *)
<1>v. ASSUME NEW w \in Writers, pc[w] # "idle", UNCHANGED <<commit, run>>, OthersKept(w),
             \A v \in Writers \ {w} : ctx'[v] = ctx[v],
             pc'[w] # "idle" => PositionAt(w)'
      PROVE  Position'
  <2>1. ASSUME NEW v \in Writers \ {w}, pc'[v] # "idle" PROVE pc[v] # "idle" /\ Kept(v)
    BY <1>o, <1>v, <2>1 DEF OthersKept, Kept
  <2> QED
    BY <1>v, <1>w, <2>1
(* The run goes on where it was, its context as it was. *)
<1>k. ASSUME NEW w \in Writers, pc[w] # "idle", UNCHANGED <<commit, run>>, SameStart(w),
             log'[run[w]].moves = log[run[w]].moves,
             ctx'[w].parent = ctx[w].parent /\ ctx'[w].head = ctx[w].head
               /\ ctx'[w].loaded = ctx[w].loaded
      PROVE  OwnParent(w)' /\ ForkOnlyOnce(w)'
  <2>1. OwnParent(w) /\ ForkOnlyOnce(w)
    BY <1>o, <1>k
  <2>2. OwnParent(w)'
    BY <1>k, <2>1 DEF OwnParent, Built
  <2>3. ForkOnlyOnce(w)'
    BY <1>k, <2>1 DEF SameStart, ForkOnlyOnce
  <2> QED
    BY <2>2, <2>3
<1>l. ASSUME NEW w \in Writers, pc[w] # "idle", UNCHANGED <<commit, run, ctx>>,
             Left(w, log[run[w]].moves)
      PROVE  Position'
  <2>1. OwnParent(w)' /\ ForkOnlyOnce(w)'
    BY <1>k, <1>l DEF Left
  <2>2. Checkout(w)' /\ Moving(w)' /\ Tagging(w)'
    BY <1>l DEF Left, Checkout, Moving, Tagging
  <2> QED
    BY <1>v, <1>l, <2>1, <2>2 DEF Left, PositionAt
<1>r. ASSUME NEW w \in Writers, pc[w] # "idle", SaveRaises(w), UNCHANGED <<commit, run, ctx>>
      PROVE  Position'
  BY <1>t, <1>o, <1>l, <1>r, SaveRaisesLeaves
<1>e. ASSUME NEW w \in Writers, pc[w] # "idle", NEW how \in Ends \ {"none"}, EndRun(w, how),
             UNCHANGED <<commit, run>>, \A v \in Writers \ {w} : ctx'[v] = ctx[v]
      PROVE  Position'
  BY <1>t, <1>o, <1>v, <1>e, EndRunLeaves DEF Left
(* The context takes up a head that the run did not build. *)
<1>h. ASSUME NEW w \in Writers, pc[w] # "idle", ~ctx[w].loaded,
             NEW p \in Built \cup {None}, NEW h \in Built \cup {None},
             ctx' = [ctx EXCEPT ![w] = Headed(@, p, h)],
             UNCHANGED <<commit, run>>, log'[run[w]].moves = log[run[w]].moves
      PROVE  OwnParent(w)' /\ ctx'[w].parent = p /\ ctx'[w].head = h /\ log'[run[w]].moves = 0
  <2>1. log[run[w]].moves = 0 /\ \A i \in Built : commit[i].run # run[w]
    BY <1>o, <1>h DEF OwnParent
  <2>2. ctx'[w] = Headed(ctx[w], p, h)
    BY <1>t, <1>h DEF TypeOK
  <2> QED
    BY <1>h, <2>1, <2>2 DEF OwnParent, Headed
<1> USE DEF storeVars
<1>1. ASSUME NEW w \in Writers, NEW mode \in Modes, NEW target, BeginRun(w, mode, target)
      PROVE  Position'
  <2>1. PICK r \in Runs :
          /\ log[r].end = "none"
          /\ run' = [run EXCEPT ![w] = r]
          /\ log' = [log EXCEPT ![r] = [mode |-> mode, from |-> None, moves |-> 0, end |-> "running"]]
    BY <1>1 DEF BeginRun, NextRun
  <2>2. /\ run'[w] = r /\ ctx'[w] = NoCtx
        /\ log'[r] = [mode |-> mode, from |-> None, moves |-> 0, end |-> "running"]
        /\ pc'[w] \in {"running", "checkout"}
        /\ pc'[w] = "checkout" => at'[w] # None
    BY <1>t, <1>1, <2>1 DEF BeginRun, TypeOK
  <2>3. ASSUME NEW v \in Writers \ {w}, pc'[v] # "idle" PROVE pc[v] # "idle" /\ Kept(v)
    <3>1. pc[v] # "idle" /\ run[v] \in Runs /\ run[v] # r
      BY <1>t, <1>1, <1>o, <2>1, <2>3 DEF BeginRun, TypeOK
    <3> QED
      BY <1>t, <1>1, <2>1, <3>1 DEF BeginRun, TypeOK, Kept
  <2>4. PositionAt(w)'
    <3>1. \A i \in Built : commit[i].run # r
      BY <1>t, <2>1 DEF RunsOwned
    <3>2. OwnParent(w)'
      BY <1>1, <2>2, <3>1 DEF BeginRun, NoCtx, OwnParent, Built
    <3> QED
      BY <2>2, <3>2 DEF NoCtx, PositionAt, ForkOnlyOnce, Checkout, Moving, Tagging
  <2> QED
    BY <1>1, <1>w, <2>3, <2>4 DEF BeginRun
<1>2. ASSUME NEW w \in Writers, CheckoutCorrupt(w) PROVE Position'
  BY <1>e, <1>2 DEF CheckoutCorrupt, Ends
<1>3. ASSUME NEW w \in Writers, SkipStateless(w) PROVE Position'
  <2>1. /\ ~ctx[w].loaded /\ ~ctx'[w].loaded
        /\ \A v \in Writers \ {w} : ctx'[v] = ctx[v]
    BY <1>t, <1>o, <1>3 DEF SkipStateless, Checkout, TypeOK, Context
  <2>2. PositionAt(w)'
    <3>1. OwnParent(w)' /\ ForkOnlyOnce(w)'
      BY <1>o, <1>3, <2>1 DEF SkipStateless, OwnParent, ForkOnlyOnce, Built
    <3>2. Checkout(w)' /\ Moving(w)' /\ Tagging(w)'
      BY <1>t, <1>3, <2>1 DEF SkipStateless, TypeOK, Checkout, Moving, Tagging
    <3> QED
      BY <3>1, <3>2 DEF PositionAt
  <2> QED
    BY <1>t, <1>v, <1>3, <2>1, <2>2 DEF SkipStateless, OthersKept, TypeOK
<1>4. ASSUME NEW w \in Writers, CheckoutLatest(w) PROVE Position'
  <2> DEFINE h == IF ctx[w].head = None THEN at[w] ELSE ctx[w].head
  <2>1. ctx' = [ctx EXCEPT ![w] = Headed(@, h, h)]
    BY <1>4 DEF CheckoutLatest, ContinueLatest
  <2>2. h \in Built /\ ~ctx[w].loaded
    BY <1>t, <1>o, <1>4 DEF CheckoutLatest, NamesBuilt, Checkout
  <2> HIDE DEF h
  <2>3. /\ pc'[w] = "running" /\ OthersKept(w)
        /\ log'[run[w]].moves = log[run[w]].moves
        /\ \A v \in Writers \ {w} : ctx'[v] = ctx[v]
    BY <1>t, <1>o, <1>4, <2>1 DEF CheckoutLatest, Leave, OthersKept, TypeOK, LogRecord
  <2>4. OwnParent(w)' /\ ForkOnlyOnce(w)'
    <3>1. OwnParent(w)' /\ ctx'[w].parent = h /\ ctx'[w].head = h
      BY <1>h, <1>4, <2>1, <2>2, <2>3 DEF CheckoutLatest
    <3> QED
      BY <3>1 DEF ForkOnlyOnce
  <2> QED
    BY <1>v, <1>4, <2>3, <2>4 DEF CheckoutLatest, PositionAt, Checkout, Moving, Tagging
<1>5. ASSUME NEW w \in Writers, CheckoutAt(w) PROVE Position'
  <2>1. CASE EndRun(w, "raised")
    BY <1>e, <1>5, <2>1 DEF CheckoutAt, Ends
  <2>2. CASE pc' = [pc EXCEPT ![w] = "continue"] /\ UNCHANGED <<at, job, log>>
    <3>1. OwnParent(w)' /\ ForkOnlyOnce(w)'
      BY <1>k, <1>5, <2>2 DEF CheckoutAt, SameStart
    <3>2. Checkout(w)' /\ Moving(w)' /\ Tagging(w)'
      BY <1>t, <1>o, <1>5, <2>2 DEF CheckoutAt, TypeOK, Checkout, Moving, Tagging
    <3> QED
      BY <1>t, <1>v, <1>5, <2>2, <3>1, <3>2 DEF CheckoutAt, OthersKept, TypeOK, PositionAt
  <2> QED
    BY <1>5, <2>1, <2>2 DEF CheckoutAt
<1>6. ASSUME NEW w \in Writers, ContinueFrom(w) PROVE Position'
  <2>1. ctx' = [ctx EXCEPT ![w] = Headed(@, at[w], refs["HEAD"])]
    BY <1>6 DEF ContinueFrom
  <2>2. at[w] \in Built /\ ~ctx[w].loaded /\ log[run[w]].mode = "at"
    BY <1>t, <1>o, <1>6 DEF ContinueFrom, NamesBuilt, Checkout
  <2>3. /\ pc'[w] = "running" /\ OthersKept(w)
        /\ log'[run[w]].moves = log[run[w]].moves
        /\ log'[run[w]].mode = log[run[w]].mode /\ log'[run[w]].from = at[w]
        /\ \A v \in Writers \ {w} : ctx'[v] = ctx[v]
    BY <1>t, <1>o, <1>6, <2>1 DEF ContinueFrom, Leave, OthersKept, TypeOK, LogRecord
  <2>4. OwnParent(w)' /\ ForkOnlyOnce(w)'
    <3> DEFINE head == refs["HEAD"]
               start == at[w]
    <3>1. /\ ctx' = [ctx EXCEPT ![w] = Headed(@, start, head)]
          /\ start \in Built \cup {None} /\ head \in Built \cup {None}
          /\ pc[w] # "idle" /\ UNCHANGED <<commit, run>>
      BY <1>t, <1>6, <2>1, <2>2 DEF ContinueFrom, NamesBuilt, Refs
    <3>2. log'[run[w]].from = start
      BY <2>3
    <3> HIDE DEF head, start
    <3>3. OwnParent(w)' /\ ctx'[w].parent = start /\ log'[run[w]].moves = 0
      BY <1>h, <2>2, <2>3, <3>1
    <3> QED
      BY <1>6, <2>2, <2>3, <3>2, <3>3 DEF ContinueFrom, ForkOnlyOnce
  <2> QED
    BY <1>v, <1>6, <2>3, <2>4 DEF ContinueFrom, PositionAt, Checkout, Moving, Tagging
<1>7. ASSUME NEW w \in Writers, NEW j \in Jobs(w), PutSnapshot(w, j) PROVE Position'
  <2>1. /\ ctx'[w].parent = ctx[w].parent /\ ctx'[w].head = ctx[w].head
        /\ ctx'[w].loaded = ctx[w].loaded
        /\ \A v \in Writers \ {w} : ctx'[v] = ctx[v]
    BY <1>t, <1>7 DEF PutSnapshot, TypeOK, Context
  <2>2. OwnParent(w)' /\ ForkOnlyOnce(w)'
    BY <1>k, <1>7, <2>1 DEF PutSnapshot, SameStart
  <2>3. pc'[w] = "saving" /\ OthersKept(w)
    BY <1>t, <1>7 DEF PutSnapshot, TypeOK, OthersKept
  <2> QED
    BY <1>v, <1>7, <2>1, <2>2, <2>3 DEF PutSnapshot, PositionAt, Checkout, Moving, Tagging
<1>8. ASSUME NEW w \in Writers, LoadHead(w) PROVE Position'
  <2>1. refs["HEAD"] \in Built \cup {None} /\ ~ctx[w].loaded
    BY <1>t, <1>8 DEF NamesBuilt, Refs, LoadHead, HeadUnknown
  <2>2. ctx' = [ctx EXCEPT ![w] = Headed(@, refs["HEAD"], refs["HEAD"])]
    BY <1>8 DEF LoadHead
  <2>3. OwnParent(w)' /\ ForkOnlyOnce(w)'
    <3> DEFINE head == refs["HEAD"]
    <3>1. OwnParent(w)' /\ ctx'[w].parent = head /\ ctx'[w].head = head
      <4> HIDE DEF head
      <4>1. ctx' = [ctx EXCEPT ![w] = Headed(@, head, head)] /\ head \in Built \cup {None}
        BY <2>1, <2>2 DEF head
      <4> QED
        BY <1>h, <1>8, <2>1, <4>1 DEF LoadHead
    <3> QED
      BY <3>1 DEF ForkOnlyOnce
  <2>4. /\ pc'[w] = "saving" /\ OthersKept(w)
        /\ \A v \in Writers \ {w} : ctx'[v] = ctx[v]
    BY <1>t, <1>8, <2>2 DEF LoadHead, OthersKept, TypeOK
  <2> QED
    BY <1>v, <1>8, <2>3, <2>4 DEF LoadHead, PositionAt, Checkout, Moving, Tagging
<1>9. ASSUME NEW w \in Writers, PutCommit(w) PROVE Position'
  <2>1. PICK i \in Ids \ Built :
          /\ Built' = Built \cup {i}
          /\ \A j \in Built : commit'[j] = commit[j]
          /\ commit'[i] = NewCommit(w)
          /\ at' = [at EXCEPT ![w] = i]
    BY <1>9, PutCommitBuilds
  <2>2. /\ pc[w] = "saving" /\ pc' = [pc EXCEPT ![w] = "moving"]
        /\ UNCHANGED <<ctx, job, run, log>>
        /\ ctx[w].loaded
    BY <1>9 DEF PutCommit
  <2>3. /\ commit'[i].parent = ctx[w].parent /\ commit'[i].run = run[w]
        /\ commit'[i].nth = log[run[w]].moves + 1
    BY <2>1 DEF NewCommit
  <2>4. at'[w] = i /\ i # None /\ pc'[w] = "moving"
    BY <1>t, <2>1, <2>2, ConstantsAssumption DEF TypeOK
  <2>5. PositionAt(w)'
    <3>1. ctx[w].parent # None => ctx[w].parent \in Built
      BY <1>t DEF NamesBuilt
    <3>2. OwnParent(w)' /\ ForkOnlyOnce(w)'
      BY <1>o, <2>1, <2>2, <3>1 DEF OwnParent, ForkOnlyOnce
    <3>3. Checkout(w)' /\ Moving(w)' /\ Tagging(w)'
      BY <2>2, <2>3, <2>4 DEF Checkout, Moving, Tagging
    <3> QED
      BY <3>2, <3>3 DEF PositionAt
  <2>6. ASSUME NEW v \in Writers \ {w}, pc'[v] # "idle" PROVE PositionAt(v)'
    <3>1. pc[v] # "idle" /\ Kept(v)
      BY <1>t, <2>1, <2>2, <2>6 DEF TypeOK, Kept
    <3>2. \A j \in Built' \ Built : commit'[j].run # run[v]
      BY <1>o, <2>1, <2>2, <2>3, <3>1
    <3> QED
      BY <2>1, <3>1, <3>2, OtherPosition
  <2> QED
    BY <2>5, <2>6 DEF Position
<1>10. ASSUME NEW w \in Writers, PutRefused(w) PROVE Position'
  BY <1>r, <1>10 DEF PutRefused
<1>m. ASSUME NEW w \in Writers, pc[w] # "idle", NEW tags \in Seq(Tags), NEW m \in Nat,
             RefMoved(w, tags, m), UNCHANGED <<commit, run>>, at[w] # None,
             \A v \in Writers \ {w} : ctx'[v] = ctx[v],
             (log'[run[w]].moves = m /\ SameStart(w)) => OwnParent(w)' /\ ForkOnlyOnce(w)'
      PROVE  Position'
  <2>1. CASE Left(w, m)
    BY <1>v, <1>m, <2>1 DEF Left, PositionAt, Checkout, Moving, Tagging
  <2>2. CASE ~Left(w, m)
    <3>1. /\ OthersKept(w) /\ SameStart(w)
          /\ pc'[w] = "readTag" /\ at'[w] = at[w]
          /\ job'[w].tags = tags /\ tags # <<>>
          /\ log'[run[w]].moves = m
      BY <1>t, <1>o, <1>m, <2>2, RefMovedLeaves
    <3> QED
      BY <1>v, <1>m, <3>1 DEF PositionAt, Checkout, Moving, Tagging
  <2> QED
    BY <2>1, <2>2
<1>11. ASSUME NEW w \in Writers, MoveHead(w) PROVE Position'
  <2>1. /\ at[w] # None /\ commit[at[w]].run = run[w]
        /\ commit[at[w]].nth = log[run[w]].moves + 1
    BY <1>o, <1>11 DEF MoveHead, Moving
  <2>2. job[w].tags \in Seq(Tags) /\ log[run[w]].moves \in Nat
    BY <1>t, <1>o, <1>11 DEF MoveHead, TypeOK, JobRecord, LogRecord
  <2>3. ctx'[w] = Headed(ctx[w], at[w], at[w]) /\ \A v \in Writers \ {w} : ctx'[v] = ctx[v]
    BY <1>t, <1>11 DEF MoveHead, TypeOK
  <2>4. ASSUME log'[run[w]].moves = log[run[w]].moves + 1 PROVE OwnParent(w)' /\ ForkOnlyOnce(w)'
    BY <1>11, <2>1, <2>2, <2>3, <2>4 DEF MoveHead, Headed, OwnParent, ForkOnlyOnce
  <2> QED
    BY <1>m, <1>11, <2>1, <2>2, <2>3, <2>4 DEF MoveHead
<1>12. ASSUME NEW w \in Writers, HeadConflict(w) PROVE Position'
  BY <1>r, <1>12 DEF HeadConflict
<1>13. ASSUME NEW w \in Writers, ReadTag(w) PROVE Position'
  <2>1. OwnParent(w)' /\ ForkOnlyOnce(w)'
    BY <1>k, <1>13 DEF ReadTag, SameStart
  <2>2. job'[w].tags = job[w].tags /\ at'[w] = at[w] /\ pc'[w] = "moveTag" /\ OthersKept(w)
    BY <1>t, <1>13 DEF ReadTag, TypeOK, JobRecord, OthersKept
  <2>3. Checkout(w)' /\ Moving(w)' /\ Tagging(w)'
    BY <1>o, <1>13, <2>2 DEF ReadTag, Checkout, Moving, Tagging
  <2> QED
    BY <1>v, <1>13, <2>1, <2>2, <2>3 DEF ReadTag, PositionAt
<1>14. ASSUME NEW w \in Writers, MoveTag(w) PROVE Position'
  <2>1. at[w] # None /\ job[w].tags # <<>>
    BY <1>o, <1>14 DEF MoveTag, Tagging
  <2>2. Tail(job[w].tags) \in Seq(Tags) /\ log[run[w]].moves \in Nat
    BY <1>t, <1>o, <1>14, <2>1 DEF MoveTag, TypeOK, JobRecord, LogRecord
  <2>3. ASSUME log'[run[w]].moves = log[run[w]].moves, SameStart(w)
        PROVE  OwnParent(w)' /\ ForkOnlyOnce(w)'
    BY <1>k, <1>14, <2>3 DEF MoveTag
  <2> QED
    BY <1>m, <1>14, <2>1, <2>2, <2>3 DEF MoveTag
<1>15. ASSUME NEW w \in Writers, TagConflict(w) PROVE Position'
  BY <1>r, <1>15 DEF TagConflict
<1>16. ASSUME NEW w \in Writers, DeleteHistory(w) PROVE Position'
  BY <1>t, <1>e, <1>16 DEF DeleteHistory, Ends, TypeOK
<1>17. ASSUME NEW w \in Writers, RunRaises(w) PROVE Position'
  BY <1>e, <1>17 DEF RunRaises, Ends
<1>18. ASSUME NEW w \in Writers, StoreError(w) PROVE Position'
  BY <1>r, <1>18 DEF StoreError, InSave
<1>19. ASSUME NEW w \in Writers, MoveHeadUnacknowledged(w) PROVE Position'
  BY <1>r, <1>19 DEF MoveHeadUnacknowledged
<1>20. ASSUME NEW w \in Writers, Crash(w) PROVE Position'
  BY <1>e, <1>20 DEF Crash, Ends
<1>u. ASSUME UNCHANGED <<commit, ctx, pc, at, job, run, log>> PROVE Position'
  BY <1>t, <1>u DEF IInv, Position, PositionAt, OwnParent, ForkOnlyOnce, Checkout, Moving, Tagging, Built
<1>21. CASE Age
  BY <1>u, <1>21 DEF Age
<1>22. CASE Prune
  BY <1>u, <1>22 DEF Prune
<1>23. CASE UNCHANGED vars
  BY <1>u, <1>23 DEF vars
<1> QED
  BY <1>1, <1>2, <1>3, <1>4, <1>5, <1>6, <1>7, <1>8, <1>9, <1>10, <1>11, <1>12, <1>13, <1>14,
     <1>15, <1>16, <1>17, <1>18, <1>19, <1>20, <1>21, <1>22, <1>23
  DEF Next, Step, Modes

-----------------------------------------------------------------------------
LEMMA Inductive == IInv /\ [Next]_vars => IInv'
  BY TypeStep, RunsOwnedStep, NamesBuiltStep, PositionStep, ContiguousStep DEF IInv

(* Every variable keeps its type, for any writers, names and bounds. *)
THEOREM TypeCorrect == Spec => []TypeOK
  BY InitInv, Inductive, PTL DEF Spec, IInv

(* Every history is one line per run, for any number of writers that race,
   stop at any call to the store, prune or delete. *)
THEOREM Contiguous == Spec => []RunsAreContiguous
  BY InitInv, Inductive, PTL DEF Spec, IInv
LEMMA HeadStepHolds == IInv /\ [Next]_vars => [HeadStep]_vars
<1> SUFFICES ASSUME IInv, Next PROVE HeadStep
  BY DEF vars
<1>t. TypeOK
  BY DEF IInv
<1>1. ASSUME NEW w \in Writers, pc[w] = "moving", refs' = [refs EXCEPT !["HEAD"] = at[w]],
             CanSet("HEAD", at[w], ctx[w].head)
      PROVE  HeadStep
  <2>1. /\ ForkOnlyOnce(w) /\ ctx[w].loaded
        /\ commit[at[w]].run = run[w]
        /\ commit[at[w]].nth = log[run[w]].moves + 1
        /\ commit[at[w]].parent = ctx[w].parent
    BY <1>1 DEF IInv, Position, PositionAt, Moving
  <2>2. refs'["HEAD"] = at[w] /\ refs["HEAD"] = ctx[w].head
    BY <1>t, <1>1 DEF TypeOK, Refs, CanSet
  <2> QED
    BY <2>1, <2>2 DEF ForkOnlyOnce, HeadStep
<1>2. ASSUME NEW w \in Writers, MoveTag(w) PROVE refs'["HEAD"] = refs["HEAD"]
  <2>1. Head(job[w].tags) \in Tags
    BY <1>t, <1>2 DEF IInv, Position, PositionAt, Tagging, MoveTag, TypeOK, JobRecord
  <2>2. "HEAD" \notin Tags
    BY ConstantsAssumption DEF Tags
  <2> QED
    BY <1>t, <1>2, <2>1, <2>2 DEF MoveTag, TypeOK, Refs
<1>3. ASSUME NEW w \in Writers, DeleteHistory(w) PROVE HeadStep
  BY <1>3 DEF DeleteHistory, RefsDeleted, Refs, HeadStep
<1>4. \/ UNCHANGED refs
      \/ \E w \in Writers : \/ MoveHead(w) \/ MoveHeadUnacknowledged(w)
                            \/ MoveTag(w) \/ DeleteHistory(w)
  BY DEF Next, Step, BeginRun, CheckoutCorrupt, SkipStateless, CheckoutLatest, CheckoutAt,
         ContinueFrom, PutSnapshot, LoadHead, PutCommit, PutRefused, HeadConflict, ReadTag,
         TagConflict, RunRaises, StoreError, Crash, Age, Prune, storeVars
<1> QED
  BY <1>1, <1>2, <1>3, <1>4 DEF MoveHead, MoveHeadUnacknowledged, HeadStep

(* HEAD only moves onto a child of where it stood, or onto the first commit
   of a run resumed by name or hash, or away with the whole history. *)
THEOREM HeadForward == Spec => HeadMovesForward
  BY InitInv, Inductive, HeadStepHolds, PTL DEF Spec, HeadMovesForward

-----------------------------------------------------------------------------
(***************************************************************************)
(* Lines.  Line is a recursive function on ids; since a parent is always   *)
(* an earlier commit, it has one value, the least set closed upward.  The  *)
(* induction is the least counterexample of a set of naturals.             *)
(***************************************************************************)
LEMMA LeastOf ==
  ASSUME NEW T \in SUBSET Nat, T # {}
  PROVE  \E m \in T : \A k \in T : ~ (k < m)
<1> DEFINE R == OpToRel(<, Nat)
<1>1. IsWellFoundedOn(R, Nat)
  BY NatLessThanWellFounded
<1>2. \A x, y \in Nat : y < x => <<y, x>> \in R
  BY DEF OpToRel
<1> HIDE DEF R
<1>3. \E x \in T : \A y \in T : ~ (<<y, x>> \in R)
  BY <1>1, WFMin
<1> QED
  BY <1>2, <1>3

Before(c, j) == IF c[j] = None \/ c[j].parent = None THEN {} ELSE {c[j].parent}
Upward(c, S) == \A j \in S : Before(c, j) \subseteq S
Ancestry(c) == \A j \in Ids : Before(c, j) \subseteq 1..(j - 1)

LineIn(c, i) ==
  LET line[j \in Ids] ==
        {j} \cup (IF c[j] = None \/ c[j].parent = None THEN {} ELSE line[c[j].parent])
  IN IF i = None THEN {} ELSE line[i]

LEMMA LineIsIn == ASSUME NEW i PROVE Line(i) = LineIn(commit, i)
  BY DEF Line, LineIn

LEMMA LineUnfolds ==
  ASSUME NEW c, Ancestry(c), NEW i \in Ids
  PROVE  LineIn(c, i) = {i} \cup UNION {LineIn(c, j) : j \in Before(c, i)}
<1> DEFINE next(f, j) == {j} \cup (IF c[j] = None \/ c[j].parent = None THEN {}
                                  ELSE f[c[j].parent])
           line == CHOOSE f : f = [j \in Ids |-> next(f, j)]
           G == [j \in Ids |-> {k \in Ids : \A S \in SUBSET Ids : (j \in S /\ Upward(c, S)) => k \in S}]
<1>0. MaxCommits \in Nat /\ None \notin Ids
  BY ConstantsAssumption
<1>a. ASSUME NEW j \in Ids PROVE Before(c, j) \subseteq Ids
  <2>1. Before(c, j) \subseteq 1..(j - 1)
    BY <1>a DEF Ancestry
  <2> QED
    BY <1>0, <2>1 DEF Ids
<1>1. ASSUME NEW j \in Ids PROVE G[j] = next(G, j)
  <2>1. CASE c[j] = None \/ c[j].parent = None
    <3>1. Upward(c, {j})
      BY <2>1 DEF Upward, Before
    <3>2. next(G, j) = {j} 
      BY <2>1
    <3>3. {j} \in SUBSET Ids
      OBVIOUS
    <3> QED
      BY <3>1, <3>2, <3>3
  <2>2. CASE ~(c[j] = None \/ c[j].parent = None)
    <3> DEFINE p == c[j].parent
    <3>1. p \in Ids /\ Before(c, j) = {p}
      BY <1>a, <2>2 DEF Before
    <3>2. next(G, j) = {j} \cup G[p]
      BY <2>2
    <3>3. ASSUME NEW k \in G[j] PROVE k \in {j} \cup G[p]
      <4> SUFFICES ASSUME k # j, NEW S \in SUBSET Ids, p \in S, Upward(c, S) PROVE k \in S
        BY <3>1, <3>3
      <4>1. Upward(c, S \cup {j})
        BY <3>1 DEF Upward
      <4>2. S \cup {j} \in SUBSET Ids
        OBVIOUS
      <4> QED
        BY <3>3, <4>1, <4>2
    <3>4. ASSUME NEW k \in {j} \cup G[p] PROVE k \in G[j]
      <4> SUFFICES ASSUME NEW S \in SUBSET Ids, j \in S, Upward(c, S) PROVE k \in S
        BY <3>1, <3>4
      <4>1. p \in S
        BY <3>1 DEF Upward
      <4> QED
        BY <3>1, <3>4, <4>1
    <3> QED
      BY <3>2, <3>3, <3>4
  <2> QED
    BY <2>1, <2>2
<1>2. G = [j \in Ids |-> next(G, j)]
  BY <1>1
<1>3. line = [j \in Ids |-> next(line, j)]
  <2> HIDE DEF G, next
  <2> QED
    BY <1>2
<1>4. \A j \in Ids : LineIn(c, j) = line[j]
  BY <1>0 DEF LineIn
<1> HIDE DEF line
<1>5. LineIn(c, i) = next(line, i)
  BY <1>3, <1>4
<1> QED
  BY <1>4, <1>5, <1>a DEF Before

(* A line starts at its commit, holds what its commits come after, and no more. *)
LineOf(c, i) ==
  /\ i \in LineIn(c, i) /\ LineIn(c, i) \subseteq Ids
  /\ Upward(c, LineIn(c, i))
  /\ \A S \in SUBSET Ids : (i \in S /\ Upward(c, S)) => LineIn(c, i) \subseteq S

LEMMA LineFacts == ASSUME NEW c, Ancestry(c) PROVE \A i \in Ids : LineOf(c, i)
<1>0. Ids \in SUBSET Nat
  BY ConstantsAssumption DEF Ids
<1>1. ASSUME NEW j \in Ids, NEW p \in Before(c, j) PROVE p \in Ids /\ p < j
  BY <1>1, <1>0, ConstantsAssumption DEF Ancestry, Ids
<1>2. ASSUME NEW S \in SUBSET Ids, Upward(c, S), NEW i \in S PROVE LineIn(c, i) \subseteq S
  <2> DEFINE T == {j \in S : ~ (LineIn(c, j) \subseteq S)}
  <2>1. SUFFICES ASSUME T # {} PROVE FALSE
    BY <1>2
  <2>2. PICK m \in T : \A k \in T : ~ (k < m)
    BY <1>0, <2>1, LeastOf
  <2>3. \A p \in Before(c, m) : LineIn(c, p) \subseteq S
    BY <1>1, <1>2, <2>2 DEF Upward
  <2>4. LineIn(c, m) = {m} \cup UNION {LineIn(c, p) : p \in Before(c, m)}
    BY <2>2, LineUnfolds
  <2> QED
    BY <2>2, <2>3, <2>4
<1>3. ASSUME NEW i \in Ids PROVE Upward(c, LineIn(c, i))
  <2> DEFINE T == {j \in Ids : ~ Upward(c, LineIn(c, j))}
  <2>1. SUFFICES ASSUME T # {} PROVE FALSE
    BY <1>3
  <2>2. PICK m \in T : \A k \in T : ~ (k < m)
    BY <1>0, <2>1, LeastOf
  <2>3. \A p \in Before(c, m) : Upward(c, LineIn(c, p)) /\ p \in LineIn(c, p)
    <3>1. ASSUME NEW p \in Before(c, m) PROVE p \in Ids \ T
      BY <1>1, <2>2, <3>1
    <3>2. ASSUME NEW p \in Ids PROVE p \in LineIn(c, p)
      BY <3>2, LineUnfolds
    <3> QED
      BY <3>1, <3>2
  <2>4. LineIn(c, m) = {m} \cup UNION {LineIn(c, p) : p \in Before(c, m)}
    BY <2>2, LineUnfolds
  <2>5. Upward(c, LineIn(c, m))
    BY <2>3, <2>4 DEF Upward
  <2> QED
    BY <2>2, <2>5
<1>4. ASSUME NEW i \in Ids PROVE i \in LineIn(c, i) /\ LineIn(c, i) \subseteq Ids
  <2>1. i \in LineIn(c, i)
    BY LineUnfolds
  <2>2. Upward(c, Ids)
    BY <1>1 DEF Upward
  <2> QED
    BY <1>2, <2>1, <2>2
<1> QED
  BY <1>2, <1>3, <1>4 DEF LineOf

(* A commit added to a history changes no line of the ones before it. *)
LEMMA LineStable ==
  ASSUME NEW c, NEW d, Ancestry(c), Ancestry(d), NEW S \in SUBSET Ids, Upward(c, S),
         \A j \in S : d[j] = c[j], NEW i \in S
  PROVE  LineIn(d, i) = LineIn(c, i)
<1>1. LineOf(c, i) /\ LineOf(d, i)
  BY LineFacts
<1>2. LineIn(c, i) \subseteq S
  BY <1>1 DEF LineOf
<1>3. Upward(d, LineIn(c, i))
  BY <1>1, <1>2 DEF LineOf, Upward, Before
<1>4. LineIn(d, i) \subseteq LineIn(c, i)
  BY <1>1, <1>3 DEF LineOf
<1>5. Upward(c, LineIn(d, i))
  BY <1>1, <1>2, <1>4 DEF LineOf, Upward, Before
<1> QED
  BY <1>1, <1>4, <1>5 DEF LineOf

-----------------------------------------------------------------------------
(***************************************************************************)
(* The store: commits come in order, and what is stored has what it names. *)
(***************************************************************************)
Sequential == Ancestry(commit) /\ \A i \in Built : 1..(i - 1) \subseteq Built

Stored == Closed(objects) /\ Targets \subseteq objects

LEMMA StoreChanges ==
  ASSUME [Next]_vars
  PROVE  \/ UNCHANGED <<objects, refs, commit>>
         \/ \E w \in Writers :
              \/ \E j \in Jobs(w) : PutSnapshot(w, j)
              \/ PutCommit(w)
              \/ MoveHead(w) \/ MoveHeadUnacknowledged(w)
              \/ MoveTag(w)
              \/ DeleteHistory(w)
         \/ Prune
  BY DEF Next, Step, BeginRun, CheckoutCorrupt, SkipStateless, CheckoutLatest, CheckoutAt,
         ContinueFrom, LoadHead, PutRefused, HeadConflict, ReadTag, TagConflict, RunRaises,
         StoreError, Crash, Age, storeVars, vars

LEMMA SequentialStep == IInv /\ Sequential /\ [Next]_vars => Sequential'
<1> SUFFICES ASSUME IInv, Sequential, [Next]_vars PROVE Sequential'
  OBVIOUS
<1>t. TypeOK /\ NamesBuilt
  BY DEF IInv
<1>1. CASE UNCHANGED commit
  BY <1>1 DEF Sequential, Ancestry, Before, Built
<1>2. ASSUME NEW w \in Writers, PutCommit(w) PROVE Sequential'
  <2>1. PICK i \in Ids : NextId(i) /\ commit' = [commit EXCEPT ![i] = NewCommit(w)]
    BY <1>2 DEF PutCommit
  <2>2. i \notin Built /\ 1..(i - 1) \subseteq Built
    BY <2>1, ConstantsAssumption DEF NextId, Built, Ids
  <2>3. Built = 1..(i - 1)
    <3> SUFFICES ASSUME NEW k \in Built PROVE k < i
      BY <2>1, <2>2, ConstantsAssumption DEF Built, Ids
    <3>1. k \in Ids /\ i \in Ids /\ 1..(k - 1) \subseteq Built
      BY <2>1 DEF Sequential, Built
    <3> QED
      BY <2>2, <3>1, ConstantsAssumption DEF Ids
  <2>4. commit'[i] = NewCommit(w) /\ \A k \in Ids \ {i} : commit'[k] = commit[k]
    BY <1>t, <2>1 DEF TypeOK
  <2>5. Before(commit', i) \subseteq Built
    <3>1. ctx[w].parent # None => ctx[w].parent \in Built
      BY <1>t DEF NamesBuilt
    <3> QED
      BY <2>4, <3>1 DEF Before, NewCommit
  <2>6. Ancestry(commit')
    BY <2>1, <2>3, <2>4, <2>5 DEF Sequential, Ancestry, Before
  <2>7. Built' \subseteq Built \cup {i}
    BY <2>4 DEF Built
  <2>8. Built \subseteq Built'
    BY <1>2, PutCommitBuilds
  <2>9. \A k \in Built' : 1..(k - 1) \subseteq Built
    BY <2>2, <2>7 DEF Sequential
  <2> QED
    BY <2>6, <2>8, <2>9 DEF Sequential
<1> QED
  BY <1>1, <1>2, StoreChanges
  DEF PutSnapshot, MoveHead, MoveHeadUnacknowledged, MoveTag, DeleteHistory, Prune

(* What a prune keeps is closed, and holds what it starts from. *)
LEMMA ReachKeeps ==
  ASSUME Closed(objects), NEW roots
  PROVE  Closed(Reach(roots)) /\ roots \cap objects \subseteq Reach(roots)
<1>1. ASSUME NEW i \in Reach(roots) \cap Ids, NEW x \in Referenced(i) PROVE x \in Reach(roots)
  BY <1>1 DEF Reach, Closed
<1> QED
  BY <1>1 DEF Reach, Closed

LEMMA StoredStep == IInv /\ Stored /\ [Next]_vars => Stored'
<1> SUFFICES ASSUME IInv, Stored, [Next]_vars PROVE Stored'
  OBVIOUS
<1>t. TypeOK /\ NamesBuilt
  BY DEF IInv
<1>1. CASE UNCHANGED <<objects, refs, commit>>
  BY <1>1 DEF Stored, Closed, Referenced, Targets
<1>2. ASSUME NEW w \in Writers, NEW j \in Jobs(w), PutSnapshot(w, j) PROVE Stored'
  <2>1. j.tree \in Trees \cup {EmptyTree}
    BY DEF Jobs
  <2>2. objects \subseteq objects' /\ objects' \subseteq objects \cup {j.tree}
    BY <1>2 DEF PutSnapshot
  <2>3. objects' \cap Ids = objects \cap Ids
    BY <2>1, <2>2, ConstantsAssumption
  <2> QED
    BY <1>2, <2>2, <2>3 DEF PutSnapshot, Stored, Closed, Referenced, Targets
<1>3. ASSUME NEW w \in Writers, PutCommit(w) PROVE Stored'
  <2>1. PICK i \in Ids : /\ NextId(i)
                         /\ commit' = [commit EXCEPT ![i] = NewCommit(w)]
                         /\ objects' = objects \cup {i}
    BY <1>3 DEF PutCommit
  <2>2. commit'[i] = NewCommit(w) /\ \A k \in Ids \ {i} : commit'[k] = commit[k]
    BY <1>t, <2>1 DEF TypeOK
  <2>3. Referenced(i)' \subseteq objects
    BY <1>3, <2>2 DEF PutCommit, PutAccepted, Referenced, NewCommit
  <2>4. ASSUME NEW k \in objects \cap Ids, k # i PROVE Referenced(k)' \subseteq objects
    BY <2>2, <2>4 DEF Stored, Closed, Referenced
  <2> QED
    BY <1>3, <2>1, <2>3, <2>4 DEF PutCommit, Stored, Closed, Targets
<1>4. ASSUME NEW w \in Writers, NEW r \in Refs, at[w] \in objects,
             refs' = [refs EXCEPT ![r] = at[w]], UNCHANGED <<objects, commit>>
      PROVE  Stored'
  BY <1>t, <1>4 DEF TypeOK, Stored, Closed, Referenced, Targets
<1>5. ASSUME NEW w \in Writers, MoveHead(w) \/ MoveHeadUnacknowledged(w) PROVE Stored'
  <2>1. /\ at[w] \in objects /\ "HEAD" \in Refs
        /\ refs' = [refs EXCEPT !["HEAD"] = at[w]] /\ UNCHANGED <<objects, commit>>
    BY <1>5 DEF MoveHead, MoveHeadUnacknowledged, CanSet, Refs
  <2> QED
    BY <1>4, <2>1
<1>6. ASSUME NEW w \in Writers, MoveTag(w) PROVE Stored'
  <2>1. Head(job[w].tags) \in Refs
    BY <1>t, <1>6 DEF IInv, Position, PositionAt, Tagging, MoveTag, TypeOK, JobRecord, Refs
  <2>2. /\ at[w] \in objects
        /\ refs' = [refs EXCEPT ![Head(job[w].tags)] = at[w]] /\ UNCHANGED <<objects, commit>>
    BY <1>6 DEF MoveTag, CanSet
  <2> QED
    BY <1>4, <2>1, <2>2
<1>7. ASSUME NEW w \in Writers, DeleteHistory(w) PROVE Stored'
  BY <1>7 DEF DeleteHistory, RefsDeleted, Stored, Closed, Targets
<1>8. CASE Prune
  <2>1. objects' = Reach(Targets \cup fresh) /\ UNCHANGED <<refs, commit>>
    BY <1>8 DEF Prune
  <2>2. Closed(objects') /\ Targets \subseteq objects'
    BY <2>1, ReachKeeps DEF Stored
  <2> QED
    BY <2>1, <2>2 DEF Stored, Closed, Referenced, Targets
<1> QED
  BY <1>1, <1>2, <1>3, <1>5, <1>6, <1>7, <1>8, StoreChanges

-----------------------------------------------------------------------------
(***************************************************************************)
(* Labels: what a save in progress is about to name.                       *)
(***************************************************************************)
Asked(n, tags) == \E k \in DOMAIN tags : tags[k] = n

AsksRightly(w) == InSave(w) =>
  /\ \A n \in Names : Asked(n, job[w].tags) => job[w].tree # EmptyTree
  /\ Asked("complete", job[w].tags) => job[w].kind = "$end"
  /\ job[w].kind = "$end" => w \notin GcWriters

(* The commit being named is the save's own. *)
BuiltAsAsked(w) == pc[w] \in {"moving", "readTag", "moveTag"} =>
  /\ at[w] # None
  /\ commit[at[w]].tree = job[w].tree
  /\ commit[at[w]].kind = job[w].kind
  /\ commit[at[w]].run = run[w]
  /\ \A n \in Names : Asked(n, job[w].tags) => Asked(n, commit[at[w]].tags)

Labelled == \A w \in Writers : AsksRightly(w) /\ BuiltAsAsked(w)

LEMMA JobsAsk ==
  ASSUME NEW w \in Writers, NEW j \in Jobs(w)
  PROVE  /\ \A n \in Names : Asked(n, j.tags) => j.tree # EmptyTree
         /\ Asked("complete", j.tags) => j.kind = "$end"
         /\ j.kind = "$end" => w \notin GcWriters
<1>1. CASE j.tags = FinalTags
  <2>1. \A n \in Names : ~ Asked(n, j.tags)
    BY <1>1, ConstantsAssumption DEF FinalTags, Asked
  <2>2. j.kind = "$end" /\ w \notin GcWriters
    <3>1. FinalTags \notin TagLists /\ FinalTags # <<>>
      <4>1. \A n \in Names : n # "complete"
        BY ConstantsAssumption
      <4> QED
        BY <4>1 DEF FinalTags, TagLists
    <3> QED
      BY <1>1, <3>1 DEF Jobs
  <2> QED
    BY <2>1, <2>2
<1>2. CASE j.tags # FinalTags
  <2>1. /\ j.tags \in TagLists /\ j.kind # "$end" /\ j.tree \in Trees
    BY <1>2 DEF Jobs, TagLists
  <2>2. ~ Asked("complete", j.tags)
    <3>1. \A n \in Names : n # "complete"
      BY ConstantsAssumption
    <3> QED
      BY <2>1, <3>1 DEF TagLists, Asked
  <2> QED
    BY <2>1, <2>2, ConstantsAssumption
<1> QED
  BY <1>1, <1>2

(* A tag list that only gets shorter asks for no more. *)
LEMMA AskedOfTail ==
  ASSUME NEW tags \in Seq(Tags), tags # <<>>, NEW n, Asked(n, Tail(tags))
  PROVE  Asked(n, tags)
<1>1. PICK k \in DOMAIN Tail(tags) : Tail(tags)[k] = n
  BY DEF Asked
<1>2. k + 1 \in DOMAIN tags /\ tags[k + 1] = n
  BY <1>1
<1> QED
  BY <1>2 DEF Asked

LEMMA LabelledStep == IInv /\ IInv' /\ Labelled /\ [Next]_vars => Labelled'
<1> SUFFICES ASSUME IInv, IInv', Labelled, [Next]_vars PROVE Labelled'
  OBVIOUS
<1>t. TypeOK /\ RunsOwned /\ NamesBuilt
  BY DEF IInv
<1>o. ASSUME NEW w \in Writers, pc[w] # "idle"
      PROVE  run[w] \in Runs /\ log[run[w]].end = "running"
  BY <1>t, <1>o DEF RunsOwned
<1>s. ASSUME NEW v \in Writers, pc'[v] = pc[v], at'[v] = at[v], job'[v] = job[v],
             run'[v] = run[v], \A i \in Built : commit'[i] = commit[i]
      PROVE  AsksRightly(v)' /\ BuiltAsAsked(v)'
  BY <1>t, <1>s DEF Labelled, AsksRightly, BuiltAsAsked, InSave, NamesBuilt
(* The writer w is at no save, or at the save it was at with fewer tags. *)
<1>l. ASSUME NEW w \in Writers, OthersKept(w), UNCHANGED <<commit, run>>,
             \/ ~ InSave(w)'
             \/ /\ pc[w] \in {"moving", "readTag", "moveTag"}
                /\ pc'[w] \in {"readTag", "moveTag"} /\ at'[w] = at[w]
                /\ job'[w].kind = job[w].kind /\ job'[w].tree = job[w].tree
                /\ \A n \in Tags : Asked(n, job'[w].tags) => Asked(n, job[w].tags)
      PROVE  Labelled'
  <2>1. \A v \in Writers \ {w} : AsksRightly(v)' /\ BuiltAsAsked(v)'
    BY <1>l, <1>s DEF OthersKept
  <2>2. AsksRightly(w)' /\ BuiltAsAsked(w)'
    BY <1>l DEF Labelled, AsksRightly, BuiltAsAsked, InSave, Tags
  <2> QED
    BY <2>1, <2>2 DEF Labelled
<1>f. ASSUME NEW w \in Writers, NEW m, Left(w, m), UNCHANGED <<commit, run>> PROVE Labelled'
  BY <1>l, <1>f DEF Left, InSave
<1>r. ASSUME NEW w \in Writers, pc[w] # "idle", SaveRaises(w), UNCHANGED <<commit, run>>
      PROVE  Labelled'
  BY <1>t, <1>o, <1>f, <1>r, SaveRaisesLeaves
<1>e. ASSUME NEW w \in Writers, pc[w] # "idle", NEW how \in Ends \ {"none"}, EndRun(w, how),
             UNCHANGED <<commit, run>>
      PROVE  Labelled'
  BY <1>t, <1>o, <1>f, <1>e, EndRunLeaves
<1>m. ASSUME NEW w \in Writers, pc[w] \in {"moving", "moveTag"}, NEW tags \in Seq(Tags), NEW m \in Nat,
             RefMoved(w, tags, m), UNCHANGED <<commit, run>>,
             \A n \in Tags : Asked(n, tags) => Asked(n, job[w].tags)
      PROVE  Labelled'
  <2>1. CASE Left(w, m)
    BY <1>f, <1>m, <2>1
  <2>2. CASE ~ Left(w, m)
    <3>1. /\ OthersKept(w) /\ pc'[w] = "readTag" /\ at'[w] = at[w]
          /\ job'[w].tags = tags /\ tags # <<>>
      BY <1>t, <1>o, <1>m, <2>2, RefMovedLeaves
    <3>2. job'[w].kind = job[w].kind /\ job'[w].tree = job[w].tree
      BY <1>t, <1>m, <3>1 DEF RefMoved, TypeOK
    <3> QED
      BY <1>l, <1>m, <3>1, <3>2
  <2> QED
    BY <2>1, <2>2
<1> USE DEF storeVars
<1>1. ASSUME NEW w \in Writers, NEW mode \in Modes, NEW target, BeginRun(w, mode, target)
      PROVE  Labelled'
  <2>1. /\ pc'[w] \in {"running", "checkout"} /\ UNCHANGED <<job, commit>>
        /\ \A v \in Writers \ {w} : pc'[v] = pc[v] /\ at'[v] = at[v] /\ run'[v] = run[v]
    BY <1>t, <1>1 DEF BeginRun, TypeOK
  <2>2. \A v \in Writers \ {w} : AsksRightly(v)' /\ BuiltAsAsked(v)'
    BY <1>s, <2>1
  <2> QED
    BY <2>1, <2>2 DEF Labelled, AsksRightly, BuiltAsAsked, InSave
<1>2. ASSUME NEW w \in Writers, CheckoutCorrupt(w) PROVE Labelled'
  BY <1>e, <1>2 DEF CheckoutCorrupt, Ends
<1>3. ASSUME NEW w \in Writers, SkipStateless(w) PROVE Labelled'
  BY <1>t, <1>l, <1>3 DEF SkipStateless, TypeOK, OthersKept, InSave
<1>4. ASSUME NEW w \in Writers, CheckoutLatest(w) PROVE Labelled'
  BY <1>t, <1>o, <1>l, <1>4 DEF CheckoutLatest, Leave, TypeOK, OthersKept, InSave
<1>5. ASSUME NEW w \in Writers, CheckoutAt(w) PROVE Labelled'
  <2>1. CASE EndRun(w, "raised")
    BY <1>e, <1>5, <2>1 DEF CheckoutAt, Ends
  <2>2. CASE pc' = [pc EXCEPT ![w] = "continue"] /\ UNCHANGED <<at, job, log>>
    BY <1>t, <1>l, <1>5, <2>2 DEF CheckoutAt, TypeOK, OthersKept, InSave
  <2> QED
    BY <1>5, <2>1, <2>2 DEF CheckoutAt
<1>6. ASSUME NEW w \in Writers, ContinueFrom(w) PROVE Labelled'
  BY <1>t, <1>o, <1>l, <1>6 DEF ContinueFrom, Leave, TypeOK, OthersKept, InSave
<1>7. ASSUME NEW w \in Writers, NEW j \in Jobs(w), PutSnapshot(w, j) PROVE Labelled'
  <2>1. /\ pc'[w] = "saving" /\ job'[w] = j /\ UNCHANGED <<commit, run, at>>
        /\ \A v \in Writers \ {w} : pc'[v] = pc[v] /\ job'[v] = job[v]
    BY <1>t, <1>7 DEF PutSnapshot, TypeOK
  <2>2. \A v \in Writers \ {w} : AsksRightly(v)' /\ BuiltAsAsked(v)'
    BY <1>s, <2>1
  <2>3. AsksRightly(w)' /\ BuiltAsAsked(w)'
    BY <2>1, JobsAsk DEF AsksRightly, BuiltAsAsked
  <2> QED
    BY <2>2, <2>3 DEF Labelled
<1>8. ASSUME NEW w \in Writers, LoadHead(w) PROVE Labelled'
  BY <1>s, <1>8 DEF LoadHead, Labelled
<1>9. ASSUME NEW w \in Writers, PutCommit(w) PROVE Labelled'
  <2>1. PICK i \in Ids \ Built :
          /\ \A j \in Built : commit'[j] = commit[j]
          /\ commit'[i] = NewCommit(w)
          /\ at' = [at EXCEPT ![w] = i]
    BY <1>9, PutCommitBuilds
  <2>2. /\ pc[w] = "saving" /\ pc' = [pc EXCEPT ![w] = "moving"] /\ UNCHANGED <<job, run>>
    BY <1>9 DEF PutCommit
  <2>3. \A v \in Writers \ {w} : AsksRightly(v)' /\ BuiltAsAsked(v)'
    BY <1>t, <1>s, <2>1, <2>2 DEF TypeOK
  <2>4. at'[w] = i /\ i # None /\ pc'[w] = "moving"
    BY <1>t, <2>1, <2>2, ConstantsAssumption DEF TypeOK
  <2>5. AsksRightly(w)' /\ BuiltAsAsked(w)'
    BY <2>1, <2>2, <2>4 DEF Labelled, AsksRightly, BuiltAsAsked, InSave, NewCommit
  <2> QED
    BY <2>3, <2>5 DEF Labelled
<1>10. ASSUME NEW w \in Writers, PutRefused(w) PROVE Labelled'
  BY <1>r, <1>10 DEF PutRefused
<1>11. ASSUME NEW w \in Writers, MoveHead(w) PROVE Labelled'
  <2>1. job[w].tags \in Seq(Tags) /\ log[run[w]].moves + 1 \in Nat
    BY <1>t, <1>o, <1>11 DEF MoveHead, TypeOK, JobRecord, LogRecord
  <2> QED
    BY <1>m, <1>11, <2>1 DEF MoveHead
<1>12. ASSUME NEW w \in Writers, HeadConflict(w) PROVE Labelled'
  BY <1>r, <1>12 DEF HeadConflict
<1>13. ASSUME NEW w \in Writers, ReadTag(w) PROVE Labelled'
  <2>1. /\ OthersKept(w) /\ pc'[w] = "moveTag" /\ at'[w] = at[w]
        /\ job'[w].tags = job[w].tags /\ job'[w].kind = job[w].kind /\ job'[w].tree = job[w].tree
    BY <1>t, <1>13 DEF ReadTag, TypeOK, JobRecord, OthersKept
  <2> QED
    BY <1>l, <1>13, <2>1 DEF ReadTag
<1>14. ASSUME NEW w \in Writers, MoveTag(w) PROVE Labelled'
  <2>1. job[w].tags # <<>> /\ job[w].tags \in Seq(Tags)
    BY <1>t, <1>14 DEF IInv, Position, PositionAt, MoveTag, Tagging, TypeOK, JobRecord
  <2>2. Tail(job[w].tags) \in Seq(Tags) /\ log[run[w]].moves \in Nat
    BY <1>t, <1>o, <1>14, <2>1 DEF MoveTag, TypeOK, LogRecord
  <2>3. \A n \in Tags : Asked(n, Tail(job[w].tags)) => Asked(n, job[w].tags)
    BY <2>1, AskedOfTail
  <2> QED
    BY <1>m, <1>14, <2>2, <2>3 DEF MoveTag
<1>15. ASSUME NEW w \in Writers, TagConflict(w) PROVE Labelled'
  BY <1>r, <1>15 DEF TagConflict
<1>16. ASSUME NEW w \in Writers, DeleteHistory(w) PROVE Labelled'
  BY <1>e, <1>16 DEF DeleteHistory, Ends
<1>17. ASSUME NEW w \in Writers, RunRaises(w) PROVE Labelled'
  BY <1>e, <1>17 DEF RunRaises, Ends
<1>18. ASSUME NEW w \in Writers, StoreError(w) PROVE Labelled'
  BY <1>r, <1>18 DEF StoreError, InSave
<1>19. ASSUME NEW w \in Writers, MoveHeadUnacknowledged(w) PROVE Labelled'
  BY <1>r, <1>19 DEF MoveHeadUnacknowledged
<1>20. ASSUME NEW w \in Writers, Crash(w) PROVE Labelled'
  BY <1>e, <1>20 DEF Crash, Ends
<1>u. ASSUME UNCHANGED <<commit, pc, at, job, run>> PROVE Labelled'
  BY <1>s, <1>u DEF Labelled
<1>21. CASE Age
  BY <1>u, <1>21 DEF Age
<1>22. CASE Prune
  BY <1>u, <1>22 DEF Prune
<1>23. CASE UNCHANGED vars
  BY <1>u, <1>23 DEF vars
<1> QED
  BY <1>1, <1>2, <1>3, <1>4, <1>5, <1>6, <1>7, <1>8, <1>9, <1>10, <1>11, <1>12, <1>13, <1>14,
     <1>15, <1>16, <1>17, <1>18, <1>19, <1>20, <1>21, <1>22, <1>23
  DEF Next, Step, Modes

-----------------------------------------------------------------------------
(***************************************************************************)
(* Readability: a ref's line lies in the store, and a name names its save. *)
(***************************************************************************)
NamesKept == \A n \in Names : refs[n] # None =>
  commit[refs[n]].tree # EmptyTree /\ Asked(n, commit[refs[n]].tags)

LEMMA NamesKeptStep == IInv /\ Labelled /\ NamesKept /\ [Next]_vars => NamesKept'
<1> SUFFICES ASSUME IInv, Labelled, NamesKept, [Next]_vars PROVE NamesKept'
  OBVIOUS
<1>t. TypeOK /\ NamesBuilt /\ Names \subseteq Refs /\ "HEAD" \notin Names
  BY ConstantsAssumption DEF IInv, Refs, Tags
<1>1. ASSUME UNCHANGED <<refs, commit>> PROVE NamesKept'
  BY <1>1 DEF NamesKept
<1>2. ASSUME NEW w \in Writers, PutCommit(w) PROVE NamesKept'
  <2>1. UNCHANGED refs /\ \A j \in Built : commit'[j] = commit[j]
    BY <1>2, PutCommitBuilds DEF PutCommit
  <2> QED
    BY <1>t, <2>1 DEF NamesKept, NamesBuilt
<1>3. ASSUME NEW w \in Writers, MoveHead(w) \/ MoveHeadUnacknowledged(w) PROVE NamesKept'
  <2>1. refs' = [refs EXCEPT !["HEAD"] = at[w]] /\ UNCHANGED commit
    BY <1>3 DEF MoveHead, MoveHeadUnacknowledged
  <2>2. \A n \in Names : refs'[n] = refs[n]
    BY <1>t, <2>1 DEF TypeOK
  <2> QED
    BY <2>1, <2>2 DEF NamesKept
<1>4. ASSUME NEW w \in Writers, MoveTag(w) PROVE NamesKept'
  <2> DEFINE n == Head(job[w].tags)
  <2>1. job[w].tags # <<>> /\ job[w].tags \in Seq(Tags)
    BY <1>t, <1>4 DEF IInv, Position, PositionAt, Tagging, MoveTag, TypeOK, JobRecord
  <2>2. n \in Tags /\ Asked(n, job[w].tags)
    <3>1. 1 \in DOMAIN job[w].tags /\ job[w].tags[1] = n
      BY <2>1
    <3> QED
      BY <2>1, <3>1 DEF Asked
  <2>3. n \in Names => commit[at[w]].tree # EmptyTree /\ Asked(n, commit[at[w]].tags)
    BY <1>4, <2>2 DEF Labelled, AsksRightly, BuiltAsAsked, InSave, MoveTag
  <2>4. refs' = [refs EXCEPT ![n] = at[w]] /\ UNCHANGED commit
    BY <1>4 DEF MoveTag
  <2> HIDE DEF n
  <2>5. \A m \in Names : refs'[m] = IF m = n THEN at[w] ELSE refs[m]
    BY <1>t, <2>4 DEF TypeOK
  <2> QED
    BY <2>3, <2>4, <2>5 DEF NamesKept
<1>5. ASSUME NEW w \in Writers, DeleteHistory(w) PROVE NamesKept'
  BY <1>t, <1>5 DEF DeleteHistory, RefsDeleted, NamesKept
<1>6. ASSUME NEW w \in Writers, NEW j \in Jobs(w), PutSnapshot(w, j) PROVE NamesKept'
  BY <1>1, <1>6 DEF PutSnapshot
<1>7. CASE Prune
  BY <1>1, <1>7 DEF Prune
<1> QED
  BY <1>1, <1>2, <1>3, <1>4, <1>5, <1>6, <1>7, StoreChanges

HistoryInv == IInv /\ Sequential /\ Stored /\ Labelled /\ NamesKept

LEMMA HistoryStart == Init => HistoryInv
<1> SUFFICES ASSUME Init PROVE HistoryInv
  OBVIOUS
<1>1. IInv
  BY InitInv
<1>2. Built = {} /\ \A i \in Ids : commit[i] = None
  BY DEF Init, Built
<1>3. Sequential
  BY <1>2 DEF Sequential, Ancestry, Before
<1>4. Stored
  BY DEF Init, Stored, Closed, Targets
<1>5. Labelled /\ NamesKept
  BY ConstantsAssumption DEF Init, Labelled, AsksRightly, BuiltAsAsked, InSave, NamesKept, Refs, Tags
<1> QED
  BY <1>1, <1>3, <1>4, <1>5 DEF HistoryInv

LEMMA HistoryInductive == HistoryInv /\ [Next]_vars => HistoryInv'
  BY Inductive, SequentialStep, StoredStep, LabelledStep, NamesKeptStep DEF HistoryInv

LEMMA HistoryReadable == HistoryInv => RefsReadable
<1> SUFFICES ASSUME HistoryInv, NEW r \in Refs, refs[r] # None
             PROVE  /\ \A i \in Line(refs[r]) : Readable(i)
                    /\ r \in Names => commit[refs[r]].tree # EmptyTree /\ Asked(r, commit[refs[r]].tags)
  BY DEF RefsReadable, Asked
<1>1. /\ Closed(objects) /\ Targets \subseteq objects /\ Ancestry(commit)
      /\ TypeOK /\ NamesBuilt /\ NamesKept
  BY DEF HistoryInv, IInv, Stored, Sequential
<1>2. refs[r] \in objects \cap Ids
  BY <1>1 DEF Targets, TypeOK
<1>3. Upward(commit, objects \cap Ids)
  <2> SUFFICES ASSUME NEW j \in objects \cap Ids, NEW p \in Before(commit, j) PROVE p \in objects \cap Ids
    BY DEF Upward
  <2>1. p = commit[j].parent /\ p # None /\ j \in Built
    BY <1>1 DEF Before, NamesBuilt
  <2> QED
    BY <1>1, <2>1 DEF Closed, Referenced, NamesBuilt, Built
<1>4. Line(refs[r]) \subseteq objects \cap Ids
  BY <1>1, <1>2, <1>3, LineFacts, LineIsIn DEF LineOf
<1>5. \A i \in objects \cap Ids : Readable(i)
  BY <1>1 DEF Closed, Referenced, Readable
<1> QED
  BY <1>1, <1>4, <1>5 DEF NamesKept

(* What a ref names can be read to the start of its line, and a named
   checkpoint can be resumed: through any prune, delete, crash, store error
   and race, for any writers, names and bounds. *)
THEOREM Readability == Spec => []RefsReadable
  BY HistoryStart, HistoryInductive, HistoryReadable, PTL DEF Spec

-----------------------------------------------------------------------------
(***************************************************************************)
(* Nothing absorbed: the stretch a resumed run left behind it.             *)
(***************************************************************************)
(* From i back to j, nothing that is not on j's own line has state. *)
Clear(c, i, j) == \A k \in LineIn(c, i) \ LineIn(c, j) : c[k].tree = EmptyTree

ResumedAt(i) ==
  LET l == log[commit[i].run] IN
  (commit[i].nth = 1 /\ l.mode = "latest" /\ l.from # None) =>
     Clear(commit, commit[i].parent, l.from)

(* The walk from HEAD passed only commits without state; where it stopped,
   the next commit goes behind all of them. *)
Resuming(w) ==
  LET l == log[run[w]] IN
  /\ ~ctx[w].loaded => l.from = None
  /\ l.mode = "latest" =>
       /\ pc[w] = "checkout" /\ ctx[w].head # None => Clear(commit, ctx[w].head, at[w])
       /\ ctx[w].loaded /\ l.moves = 0 /\ l.from # None => Clear(commit, ctx[w].parent, l.from)

Absorption ==
  /\ \A r \in Runs : log[r].from # None => log[r].from \in Built
  /\ \A i \in Built : ResumedAt(i)
  /\ \A w \in Writers : pc[w] # "idle" => Resuming(w)

LEMMA ClearKept ==
  ASSUME HistoryInv, HistoryInv', \A i \in Built : commit'[i] = commit[i],
         NEW i \in Built \cup {None}, NEW j \in Built \cup {None}, Clear(commit, i, j)
  PROVE  Clear(commit', i, j)
<1>1. /\ Ancestry(commit) /\ Ancestry(commit')
      /\ Built \in SUBSET Ids /\ Upward(commit, Built)
  BY DEF HistoryInv, IInv, Sequential, NamesBuilt, Upward, Before, Built
<1>2. \A k \in Built : LineIn(commit', k) = LineIn(commit, k) /\ LineIn(commit, k) \subseteq Built
  BY <1>1, LineStable, LineFacts DEF LineOf
<1>3. LineIn(commit', None) = {} /\ LineIn(commit, None) = {}
  BY DEF LineIn
<1> QED
  BY <1>2, <1>3 DEF Clear

(* A commit without state between adds nothing to the stretch. *)
LEMMA ClearPast ==
  ASSUME NEW c, Ancestry(c), NEW i \in Ids, c[i] # None, c[i].tree = EmptyTree
  PROVE  /\ Clear(c, i, c[i].parent)
         /\ \A h : Clear(c, h, i) => Clear(c, h, c[i].parent)
<1>1. LineIn(c, i) \subseteq {i} \cup LineIn(c, c[i].parent)
  BY LineUnfolds DEF Before
<1> QED
  BY <1>1 DEF Clear

(* A step of w that builds nothing: the runs with commits keep their start,
   the other writers what they hold, and w is all that is left to look at. *)
LEMMA AbsorptionKept ==
  ASSUME HistoryInv, HistoryInv', Absorption, NEW w \in Writers, UNCHANGED commit,
         \A i \in Built : LET q == commit[i].run IN
                          log'[q].mode = log[q].mode /\ log'[q].from = log[q].from,
         \A r \in Runs : log'[r].from # None => log'[r].from = log[r].from \/ log'[r].from \in Built,
         \A v \in Writers \ {w} : pc'[v] # "idle" => pc[v] # "idle" /\ Kept(v),
         pc'[w] # "idle" => Resuming(w)'
  PROVE  Absorption'
<1>1. \A i \in Built : ResumedAt(i)'
  BY DEF Absorption, ResumedAt
<1>2. ASSUME NEW v \in Writers \ {w}, pc'[v] # "idle" PROVE Resuming(v)'
  BY <1>2 DEF Absorption, Kept, Resuming
<1>3. Built' = Built
  BY DEF Built
<1> QED
  BY <1>1, <1>2, <1>3 DEF Absorption

LEMMA AbsorptionStep == HistoryInv /\ HistoryInv' /\ Absorption /\ [Next]_vars => Absorption'
<1> SUFFICES ASSUME HistoryInv, HistoryInv', Absorption, [Next]_vars PROVE Absorption'
  OBVIOUS
<1>t. /\ IInv /\ TypeOK /\ RunsOwned /\ NamesBuilt /\ Ancestry(commit)
      /\ TypeOK' /\ NamesBuilt'
  BY DEF HistoryInv, IInv, Sequential
<1>o. ASSUME NEW w \in Writers, pc[w] # "idle"
      PROVE  /\ run[w] \in Runs /\ log[run[w]].end = "running"
             /\ OwnParent(w) /\ Checkout(w) /\ Moving(w) /\ Resuming(w)
             /\ \A v \in Writers \ {w} : pc[v] # "idle" => run[v] # run[w] /\ run[v] \in Runs
  BY <1>t, <1>o DEF RunsOwned, IInv, Position, PositionAt, Absorption
<1>b. \A i \in Built : i \in Ids /\ commit[i].run \in Runs
  BY <1>t DEF TypeOK, Built, CommitRecord
(* w moves inside its run, which keeps its start. *)
<1>v. ASSUME NEW w \in Writers, pc[w] # "idle", UNCHANGED <<commit, run>>, OthersKept(w), SameStart(w),
             \A v \in Writers \ {w} : ctx'[v] = ctx[v],
             pc'[w] # "idle" => Resuming(w)'
      PROVE  Absorption'
  <2>1. \A r \in Runs : log'[r].mode = log[r].mode /\ log'[r].from = log[r].from
    BY <1>v DEF OthersKept, SameStart
  <2>2. ASSUME NEW v \in Writers \ {w}, pc'[v] # "idle" PROVE pc[v] # "idle" /\ Kept(v)
    BY <1>o, <1>v, <2>2 DEF OthersKept, Kept
  <2> QED
    BY <1>b, <1>v, <2>1, <2>2, AbsorptionKept
(* It left the checkout, or was not in one: the context holds what it held. *)
<1>k. ASSUME NEW w \in Writers, pc[w] # "idle", UNCHANGED <<commit, run>>, OthersKept(w), SameStart(w),
             pc'[w] # "checkout",
             \A v \in Writers \ {w} : ctx'[v] = ctx[v],
             log'[run[w]].moves = log[run[w]].moves,
             ctx'[w].loaded = ctx[w].loaded, ctx'[w].parent = ctx[w].parent
      PROVE  Absorption'
  <2>1. Resuming(w)'
    BY <1>o, <1>k DEF Resuming, SameStart
  <2> QED
    BY <1>v, <1>k, <2>1
<1>l. ASSUME NEW w \in Writers, pc[w] # "idle", UNCHANGED <<commit, run, ctx>>,
             Left(w, log[run[w]].moves)
      PROVE  Absorption'
  BY <1>k, <1>l DEF Left
<1>r. ASSUME NEW w \in Writers, pc[w] # "idle", SaveRaises(w), UNCHANGED <<commit, run, ctx>>
      PROVE  Absorption'
  BY <1>t, <1>o, <1>l, <1>r, SaveRaisesLeaves
<1>e. ASSUME NEW w \in Writers, pc[w] # "idle", NEW how \in Ends \ {"none"}, EndRun(w, how),
             UNCHANGED <<commit, run>>, \A v \in Writers \ {w} : ctx'[v] = ctx[v]
      PROVE  Absorption'
  BY <1>t, <1>o, <1>v, <1>e, EndRunLeaves DEF Left
<1> USE DEF storeVars
<1>1. ASSUME NEW w \in Writers, NEW mode \in Modes, NEW target, BeginRun(w, mode, target)
      PROVE  Absorption'
  <2>1. PICK r \in Runs :
          /\ log[r].end = "none"
          /\ run' = [run EXCEPT ![w] = r]
          /\ log' = [log EXCEPT ![r] = [mode |-> mode, from |-> None, moves |-> 0, end |-> "running"]]
    BY <1>1 DEF BeginRun, NextRun
  <2>2. /\ run'[w] = r /\ ctx'[w] = NoCtx /\ UNCHANGED commit
        /\ log'[r] = [mode |-> mode, from |-> None, moves |-> 0, end |-> "running"]
        /\ \A q \in Runs \ {r} : log'[q] = log[q]
    BY <1>t, <1>1, <2>1 DEF BeginRun, TypeOK
  <2>3. ASSUME NEW v \in Writers \ {w}, pc'[v] # "idle" PROVE pc[v] # "idle" /\ Kept(v)
    <3>1. pc[v] # "idle" /\ run[v] \in Runs /\ run[v] # r
      BY <1>t, <1>1, <1>o, <2>1, <2>3 DEF BeginRun, TypeOK
    <3> QED
      BY <1>t, <1>1, <2>1, <3>1 DEF BeginRun, TypeOK, Kept
  <2>4. Resuming(w)'
    BY <2>2 DEF Resuming, NoCtx
  <2>5. \A i \in Built : commit[i].run # r
    BY <1>t, <2>1 DEF RunsOwned
  <2>6. \A q \in Runs : log'[q].from # None => log'[q].from = log[q].from
    BY <2>2
  <2> QED
    BY <1>b, <2>2, <2>3, <2>4, <2>5, <2>6, AbsorptionKept
<1>2. ASSUME NEW w \in Writers, CheckoutCorrupt(w) PROVE Absorption'
  BY <1>e, <1>2 DEF CheckoutCorrupt, Ends
<1>3. ASSUME NEW w \in Writers, SkipStateless(w) PROVE Absorption'
  <2> DEFINE i == at[w]
             h == ctx[w].head
  <2>1. /\ i \in Built /\ commit[i].tree = EmptyTree /\ ~ctx[w].loaded
        /\ h # None => Clear(commit, h, i)
    BY <1>t, <1>o, <1>3 DEF SkipStateless, Checkout, Resuming, NamesBuilt
  <2>2. /\ at'[w] = commit[i].parent
        /\ ctx'[w].head = (IF h = None THEN i ELSE h)
        /\ ctx'[w].loaded = ctx[w].loaded
        /\ UNCHANGED <<commit, run, log>>
        /\ \A v \in Writers \ {w} : ctx'[v] = ctx[v]
    BY <1>t, <1>3 DEF SkipStateless, TypeOK, Context
  <2>3. OthersKept(w) /\ SameStart(w)
    BY <1>t, <1>3 DEF SkipStateless, TypeOK, OthersKept, SameStart
  <2>4. Clear(commit, ctx'[w].head, at'[w])
    <3> HIDE DEF i, h
    <3>1. Clear(commit, i, commit[i].parent) /\ (h # None => Clear(commit, h, commit[i].parent))
      BY <1>t, <1>b, <2>1, ClearPast DEF Built
    <3> QED
      BY <2>2, <3>1
  <2>5. Resuming(w)'
    BY <1>o, <1>3, <2>1, <2>2, <2>4 DEF Resuming, SkipStateless
  <2> QED
    BY <1>v, <1>3, <2>2, <2>3, <2>5 DEF SkipStateless
<1>4. ASSUME NEW w \in Writers, CheckoutLatest(w) PROVE Absorption'
  <2> DEFINE i == at[w]
             h == IF ctx[w].head = None THEN i ELSE ctx[w].head
  <2>1. /\ i \in Built /\ ~ctx[w].loaded /\ log[run[w]].moves = 0
        /\ \A k \in Built : commit[k].run # run[w]
        /\ ctx[w].head # None => Clear(commit, ctx[w].head, i)
    BY <1>t, <1>o, <1>4 DEF CheckoutLatest, Checkout, Resuming, NamesBuilt, OwnParent
  <2>2. Clear(commit, h, i)
    BY <2>1 DEF Clear
  <2>3. /\ ctx'[w].parent = h /\ ctx'[w].loaded
        /\ \A v \in Writers \ {w} : ctx'[v] = ctx[v]
    BY <1>t, <1>4 DEF CheckoutLatest, ContinueLatest, Headed, TypeOK
  <2>4. /\ log'[run[w]].from = i
        /\ \A q \in Runs \ {run[w]} : log'[q] = log[q]
        /\ UNCHANGED <<commit, run>> /\ pc'[w] = "running"
    BY <1>t, <1>o, <1>4 DEF CheckoutLatest, Leave, TypeOK, LogRecord
  <2>5. Resuming(w)'
    BY <2>2, <2>3, <2>4 DEF Resuming
  <2>6. ASSUME NEW v \in Writers \ {w}, pc'[v] # "idle" PROVE pc[v] # "idle" /\ Kept(v)
    BY <1>t, <1>o, <1>4, <2>3, <2>4, <2>6 DEF CheckoutLatest, Leave, Kept, TypeOK
  <2> QED
    BY <1>b, <2>1, <2>4, <2>5, <2>6, AbsorptionKept
<1>5. ASSUME NEW w \in Writers, CheckoutAt(w) PROVE Absorption'
  <2>1. CASE EndRun(w, "raised")
    BY <1>e, <1>5, <2>1 DEF CheckoutAt, Ends
  <2>2. CASE pc' = [pc EXCEPT ![w] = "continue"] /\ UNCHANGED <<at, job, log>>
    BY <1>t, <1>k, <1>5, <2>2 DEF CheckoutAt, OthersKept, SameStart, TypeOK
  <2> QED
    BY <1>5, <2>1, <2>2 DEF CheckoutAt
<1>6. ASSUME NEW w \in Writers, ContinueFrom(w) PROVE Absorption'
  <2>1. /\ at[w] \in Built /\ log[run[w]].mode = "at"
        /\ \A k \in Built : commit[k].run # run[w]
    BY <1>t, <1>o, <1>6 DEF ContinueFrom, Checkout, NamesBuilt, OwnParent, IInv, Position, PositionAt
  <2>2. /\ ctx'[w].loaded /\ log'[run[w]].mode = "at" /\ log'[run[w]].from = at[w]
        /\ \A q \in Runs \ {run[w]} : log'[q] = log[q]
        /\ UNCHANGED <<commit, run>>
    BY <1>t, <1>o, <1>6 DEF ContinueFrom, Checkout, Headed, TypeOK, LogRecord
  <2>3. Resuming(w)'
    BY <2>2 DEF Resuming
  <2>4. ASSUME NEW v \in Writers \ {w}, pc'[v] # "idle" PROVE pc[v] # "idle" /\ Kept(v)
    BY <1>t, <1>o, <1>6, <2>2, <2>4 DEF ContinueFrom, Leave, Kept, TypeOK
  <2> QED
    BY <1>b, <2>1, <2>2, <2>3, <2>4, AbsorptionKept
<1>7. ASSUME NEW w \in Writers, NEW j \in Jobs(w), PutSnapshot(w, j) PROVE Absorption'
  <2>1. /\ ctx'[w].parent = ctx[w].parent /\ ctx'[w].loaded = ctx[w].loaded
        /\ \A v \in Writers \ {w} : ctx'[v] = ctx[v]
    BY <1>t, <1>7 DEF PutSnapshot, TypeOK, Context
  <2>2. pc'[w] = "saving" /\ OthersKept(w) /\ SameStart(w)
    BY <1>t, <1>7 DEF PutSnapshot, TypeOK, OthersKept, SameStart
  <2> QED
    BY <1>k, <1>7, <2>1, <2>2 DEF PutSnapshot
<1>8. ASSUME NEW w \in Writers, LoadHead(w) PROVE Absorption'
  <2>1. log[run[w]].from = None
    BY <1>o, <1>8 DEF LoadHead, HeadUnknown, Resuming
  <2>2. Resuming(w)'
    BY <1>8, <2>1 DEF LoadHead, Resuming
  <2>3. OthersKept(w) /\ SameStart(w) /\ \A v \in Writers \ {w} : ctx'[v] = ctx[v]
    BY <1>t, <1>8 DEF LoadHead, OthersKept, SameStart, TypeOK
  <2> QED
    BY <1>v, <1>8, <2>2, <2>3 DEF LoadHead
<1>9. ASSUME NEW w \in Writers, PutCommit(w) PROVE Absorption'
  <2>1. PICK i \in Ids \ Built :
          /\ Built' = Built \cup {i}
          /\ \A j \in Built : commit'[j] = commit[j]
          /\ commit'[i] = NewCommit(w)
          /\ at' = [at EXCEPT ![w] = i]
    BY <1>t, <1>9, PutCommitBuilds
  <2>2. /\ pc[w] = "saving" /\ pc' = [pc EXCEPT ![w] = "moving"]
        /\ ctx[w].loaded /\ UNCHANGED <<ctx, run, log>>
    BY <1>9 DEF PutCommit
  <2>3. \A j, k \in Built \cup {None} : Clear(commit, j, k) => Clear(commit', j, k)
    BY <2>1, ClearKept
  <2>4. \A r \in Runs : log[r].from \in Built \cup {None}
    BY DEF Absorption
  <2>5. \A v \in Writers : /\ ctx[v].parent \in Built \cup {None}
                           /\ ctx[v].head \in Built \cup {None}
                           /\ at[v] \in Built \cup {None}
    BY <1>t DEF NamesBuilt
  <2>6. ASSUME NEW j \in Built PROVE ResumedAt(j)'
    <3>1. ResumedAt(j) /\ commit[j].run \in Runs /\ commit[j].parent \in Built \cup {None}
      BY <1>t, <1>b DEF Absorption, NamesBuilt
    <3> QED
      BY <2>1, <2>2, <2>3, <2>4, <3>1 DEF ResumedAt
  <2>7. ResumedAt(i)'
    <3>1. /\ commit'[i].run = run[w] /\ commit'[i].nth = log[run[w]].moves + 1
          /\ commit'[i].parent = ctx[w].parent
      BY <2>1 DEF NewCommit
    <3>2. run[w] \in Runs /\ log[run[w]].moves \in Nat
      BY <1>t, <1>o, <2>2 DEF TypeOK, LogRecord
    <3>3. (commit'[i].nth = 1 /\ log[run[w]].mode = "latest" /\ log[run[w]].from # None)
            => Clear(commit', ctx[w].parent, log[run[w]].from)
      BY <1>o, <2>2, <2>3, <2>4, <2>5, <3>1, <3>2 DEF Resuming
    <3> QED
      BY <2>2, <3>1, <3>3 DEF ResumedAt
  <2>8. ASSUME NEW v \in Writers, pc'[v] # "idle" PROVE Resuming(v)'
    <3>1. pc[v] # "idle" /\ (pc'[v] = "checkout" => pc[v] = "checkout" /\ at'[v] = at[v])
      BY <1>t, <2>1, <2>2, <2>8 DEF TypeOK
    <3>2. Resuming(v) /\ run[v] \in Runs
      BY <1>o, <3>1
    <3> QED
      BY <2>2, <2>3, <2>4, <2>5, <3>1, <3>2 DEF Resuming
  <2> QED
    BY <2>1, <2>2, <2>4, <2>6, <2>7, <2>8 DEF Absorption
<1>10. ASSUME NEW w \in Writers, PutRefused(w) PROVE Absorption'
  BY <1>r, <1>10 DEF PutRefused
<1>m. ASSUME NEW w \in Writers, pc[w] # "idle", NEW tags \in Seq(Tags), NEW m \in Nat,
             RefMoved(w, tags, m)
      PROVE  /\ OthersKept(w) /\ SameStart(w) /\ pc'[w] # "checkout"
             /\ log'[run[w]].moves = m
  BY <1>t, <1>o, <1>m, RefMovedLeaves DEF Left
<1>11. ASSUME NEW w \in Writers, MoveHead(w) PROVE Absorption'
  <2>1. job[w].tags \in Seq(Tags) /\ log[run[w]].moves \in Nat
    BY <1>t, <1>o, <1>11 DEF MoveHead, TypeOK, JobRecord, LogRecord
  <2>2. /\ OthersKept(w) /\ SameStart(w) /\ pc'[w] # "checkout"
        /\ log'[run[w]].moves = log[run[w]].moves + 1
    BY <1>m, <1>11, <2>1 DEF MoveHead
  <2>3. ctx'[w].loaded /\ \A v \in Writers \ {w} : ctx'[v] = ctx[v]
    BY <1>t, <1>11 DEF MoveHead, Headed, TypeOK
  <2>4. Resuming(w)'
    BY <1>11, <2>1, <2>2, <2>3 DEF MoveHead, Resuming
  <2> QED
    BY <1>v, <1>11, <2>2, <2>3, <2>4 DEF MoveHead
<1>12. ASSUME NEW w \in Writers, HeadConflict(w) PROVE Absorption'
  BY <1>r, <1>12 DEF HeadConflict
<1>13. ASSUME NEW w \in Writers, ReadTag(w) PROVE Absorption'
  BY <1>t, <1>k, <1>13 DEF ReadTag, OthersKept, SameStart, TypeOK
<1>14. ASSUME NEW w \in Writers, MoveTag(w) PROVE Absorption'
  <2>1. job[w].tags # <<>> /\ job[w].tags \in Seq(Tags)
    BY <1>t, <1>14 DEF IInv, Position, PositionAt, MoveTag, Tagging, TypeOK, JobRecord
  <2>2. Tail(job[w].tags) \in Seq(Tags) /\ log[run[w]].moves \in Nat
    BY <1>t, <1>o, <1>14, <2>1 DEF MoveTag, TypeOK, LogRecord
  <2> QED
    BY <1>k, <1>m, <1>14, <2>2 DEF MoveTag
<1>15. ASSUME NEW w \in Writers, TagConflict(w) PROVE Absorption'
  BY <1>r, <1>15 DEF TagConflict
<1>16. ASSUME NEW w \in Writers, DeleteHistory(w) PROVE Absorption'
  BY <1>t, <1>e, <1>16 DEF DeleteHistory, Ends, TypeOK
<1>17. ASSUME NEW w \in Writers, RunRaises(w) PROVE Absorption'
  BY <1>e, <1>17 DEF RunRaises, Ends
<1>18. ASSUME NEW w \in Writers, StoreError(w) PROVE Absorption'
  BY <1>r, <1>18 DEF StoreError, InSave
<1>19. ASSUME NEW w \in Writers, MoveHeadUnacknowledged(w) PROVE Absorption'
  BY <1>r, <1>19 DEF MoveHeadUnacknowledged
<1>20. ASSUME NEW w \in Writers, Crash(w) PROVE Absorption'
  BY <1>e, <1>20 DEF Crash, Ends
<1>u. ASSUME UNCHANGED <<commit, ctx, pc, at, job, run, log>> PROVE Absorption'
  BY <1>u DEF Absorption, ResumedAt, Resuming, Built
<1>21. CASE Age
  BY <1>u, <1>21 DEF Age
<1>22. CASE Prune
  BY <1>u, <1>22 DEF Prune
<1>23. CASE UNCHANGED vars
  BY <1>u, <1>23 DEF vars
<1> QED
  BY <1>1, <1>2, <1>3, <1>4, <1>5, <1>6, <1>7, <1>8, <1>9, <1>10, <1>11, <1>12, <1>13, <1>14,
     <1>15, <1>16, <1>17, <1>18, <1>19, <1>20, <1>21, <1>22, <1>23
  DEF Next, Step, Modes

LEMMA AbsorptionStart == Init => Absorption
  BY DEF Init, Absorption, Built, NoLog

LEMMA AbsorptionHolds == HistoryInv /\ Absorption => NothingAbsorbed
<1> SUFFICES ASSUME HistoryInv, Absorption, NEW i \in Line(refs["HEAD"]),
                    commit[i].nth = 1, log[commit[i].run].mode = "latest",
                    log[commit[i].run].from # None
             PROVE  \A j \in Line(commit[i].parent) \ Line(log[commit[i].run].from) :
                      commit[j].tree = EmptyTree
  BY DEF NothingAbsorbed
<1>1. /\ Ancestry(commit) /\ Built \in SUBSET Ids /\ Upward(commit, Built)
      /\ refs["HEAD"] \in Built \cup {None}
  BY DEF HistoryInv, IInv, Sequential, NamesBuilt, Upward, Before, Built, Refs
<1>2. Line(refs["HEAD"]) \subseteq Built
  <2> DEFINE h == refs["HEAD"]
  <2>1. h \in Built => LineIn(commit, h) \subseteq Built
    <3> HIDE DEF h
    <3> QED
      BY <1>1, LineFacts DEF LineOf
  <2>2. LineIn(commit, None) = {}
    BY DEF LineIn
  <2>3. Line(h) = LineIn(commit, h)
    BY LineIsIn
  <2> QED
    BY <1>1, <2>1, <2>2, <2>3
<1> QED
  BY <1>2, LineIsIn DEF Absorption, ResumedAt, Clear

(* What a run that resumed the latest state wrote stands on that state:
   nothing with state was ever slipped in between, for any writers. *)
THEOREM NoneAbsorbed == Spec => []NothingAbsorbed
<1>1. Init => HistoryInv /\ Absorption
  BY HistoryStart, AbsorptionStart
<1>2. HistoryInv /\ Absorption /\ [Next]_vars => (HistoryInv /\ Absorption)'
  BY HistoryInductive, AbsorptionStep
<1> QED
  BY <1>1, <1>2, AbsorptionHolds, PTL DEF Spec

-----------------------------------------------------------------------------
(***************************************************************************)
(* The complete tag.  Two writers that both finish may finish in the other *)
(* order than they began in; with one of them at a time the runs are in    *)
(* order (writers under gc_on_success never build a final commit).         *)
(***************************************************************************)
OneFinisher == \A v, w \in Writers \ GcWriters : v = w

RunsBegun ==
  /\ \A r \in Runs : log[r].end # "none" => \A q \in 1..r : log[q].end # "none"
  /\ \A w \in Writers : run[w] \in Runs => log[run[w]].end # "none"

IsFinal(i) == commit[i].kind = "$end"
Naming(w) == pc[w] \in {"moving", "readTag", "moveTag"}

(* A run in progress has one final commit at most, the one it is naming. *)
Ending(w) == pc[w] # "idle" =>
  /\ InSave(w) /\ job[w].kind = "$end" => job[w].tags = FinalTags
  /\ \A i \in Built : IsFinal(i) /\ commit[i].run = run[w] => Naming(w) /\ at[w] = i

(* No final commit is of a later run than the finishing writer's last. *)
Behind(w) == w \notin GcWriters => \A i \in Built : IsFinal(i) => commit[i].run <= run[w]

Finished == {r \in Runs : log[r].end = "returned" /\ FinalCommits(r) # {}}
CompleteNow ==
  \/ Finished = {}
  \/ \E r \in Finished : (\A q \in Finished : q <= r) /\ refs["complete"] \in FinalCommits(r)

Finals ==
  /\ RunsBegun
  /\ \A w \in Writers : Ending(w)
  /\ \A w \in Writers : Behind(w)
  /\ CompleteNow

(* The tag stays right while no run returns with a final commit. *)
LEMMA CompleteKept ==
  ASSUME CompleteNow, refs'["complete"] = refs["complete"],
         Finished' \subseteq Finished,
         \A r \in Runs : log[r].end = "returned" => log'[r].end = "returned",
         \A r \in Runs : refs["complete"] \in FinalCommits(r) => refs["complete"] \in FinalCommits(r)'
  PROVE  CompleteNow'
<1>1. CASE Finished = {}
  BY <1>1 DEF CompleteNow
<1>2. ASSUME NEW r \in Finished, \A q \in Finished : q <= r, refs["complete"] \in FinalCommits(r)
      PROVE  CompleteNow'
  <2>1. r \in Runs /\ refs["complete"] \in FinalCommits(r)' /\ log'[r].end = "returned"
    BY <1>2 DEF Finished
  <2>2. r \in Finished'
    BY <2>1 DEF Finished
  <2> QED
    BY <1>2, <2>1, <2>2 DEF CompleteNow
<1> QED
  BY <1>1, <1>2 DEF CompleteNow

LEMMA FinalsStep == OneFinisher /\ HistoryInv /\ HistoryInv' /\ Finals /\ [Next]_vars => Finals'
<1> SUFFICES ASSUME OneFinisher, HistoryInv, HistoryInv', Finals, [Next]_vars PROVE Finals'
  OBVIOUS
<1>t. IInv /\ TypeOK /\ RunsOwned /\ NamesBuilt /\ Labelled /\ TypeOK'
  BY DEF HistoryInv, IInv
<1>o. ASSUME NEW w \in Writers, pc[w] # "idle"
      PROVE  /\ run[w] \in Runs /\ log[run[w]].end = "running"
             /\ Ending(w) /\ AsksRightly(w) /\ BuiltAsAsked(w)
             /\ \A v \in Writers \ {w} : pc[v] # "idle" => run[v] # run[w] /\ run[v] \in Runs
  BY <1>t, <1>o DEF RunsOwned, Finals, Labelled
<1>b. \A i \in Built : i \in Ids /\ commit[i].run \in Runs
  BY <1>t DEF TypeOK, Built, CommitRecord
<1>g. "complete" \in Refs /\ "HEAD" \in Refs
  BY DEF Refs, Tags
(* Before it names one, and while it names another kind, a run has no final commit. *)
<1>n. ASSUME NEW w \in Writers, pc[w] # "idle", ~ Naming(w) \/ job[w].kind # "$end",
             NEW i \in Built, IsFinal(i)
      PROVE  commit[i].run # run[w]
  BY <1>o, <1>n DEF Ending, BuiltAsAsked, Naming, IsFinal
(* w moves inside its run, or leaves it; no run begins, nothing is built. *)
<1>v. ASSUME NEW w \in Writers, pc[w] # "idle", UNCHANGED <<commit, run>>, OthersKept(w),
             log'[run[w]].end # "none", Ending(w)', CompleteNow'
      PROVE  Finals'
  <2>1. \A r \in Runs : log'[r].end = "none" <=> log[r].end = "none"
    BY <1>o, <1>v DEF OthersKept
  <2>2. RunsBegun'
    <3>1. \A r \in Runs : 1..r \subseteq Runs
      BY ConstantsAssumption DEF Runs
    <3> QED
      BY <1>v, <2>1, <3>1 DEF Finals, RunsBegun
  <2>3. \A v \in Writers \ {w} : Ending(v)'
    BY <1>v DEF Finals, Ending, OthersKept, IsFinal, Naming, InSave, Built
  <2>4. \A v \in Writers : Behind(v)'
    BY <1>v DEF Finals, Behind, IsFinal, Built
  <2> QED
    BY <1>v, <2>2, <2>3, <2>4 DEF Finals
(* The refs and objects stay: a run that did not return had nothing final. *)
<1>c. ASSUME UNCHANGED <<commit, objects>>, refs'["complete"] = refs["complete"],
             NEW w \in Writers, OthersKept(w), pc[w] # "idle",
             \/ log'[run[w]].end # "returned"
             \/ ~ Naming(w) \/ job[w].kind # "$end"
      PROVE  CompleteNow'
  <2>1. \A r \in Runs : FinalCommits(r)' = FinalCommits(r)
    BY <1>c DEF FinalCommits, Built
  <2>2. log'[run[w]].end = "returned" => FinalCommits(run[w]) = {}
    BY <1>c, <1>n DEF FinalCommits, IsFinal
  <2>3. Finished' \subseteq Finished
    BY <1>c, <2>1, <2>2 DEF Finished, OthersKept
  <2>4. \A r \in Runs : log[r].end = "returned" => log'[r].end = "returned"
    BY <1>o, <1>c DEF OthersKept
  <2> QED
    BY <1>c, <2>1, <2>3, <2>4, CompleteKept DEF Finals
<1>e. ASSUME NEW w \in Writers, pc[w] # "idle", NEW how \in Ends \ {"none", "returned"},
             EndRun(w, how), UNCHANGED <<commit, run, objects>>, refs'["complete"] = refs["complete"]
      PROVE  Finals'
  <2>1. OthersKept(w) /\ pc'[w] = "idle"
    BY <1>t, <1>o, <1>e, EndRunLeaves DEF Left
  <2>3. log'[run[w]].end = how
    BY <1>t, <1>o, <1>e DEF EndRun, TypeOK, LogRecord
  <2>2. Ending(w)'
    BY <2>1 DEF Ending
  <2> QED
    BY <1>v, <1>c, <1>e, <2>1, <2>2, <2>3
<1>r. ASSUME NEW w \in Writers, pc[w] # "idle", SaveRaises(w), InSave(w),
             UNCHANGED <<commit, run, objects>>, refs'["complete"] = refs["complete"]
      PROVE  Finals'
  <2>1. CASE EndRun(w, "raised")
    BY <1>e, <1>r, <2>1 DEF Ends
  <2>2. CASE job[w].kind = "ok" /\ Leave(w, "running") /\ UNCHANGED log
    <3>1. OthersKept(w) /\ pc'[w] = "running" /\ UNCHANGED log
      BY <1>t, <2>2 DEF Leave, OthersKept, TypeOK
    <3>2. Ending(w)'
      BY <1>n, <1>r, <2>2, <3>1 DEF Ending, InSave, IsFinal, Built
    <3> QED
      BY <1>o, <1>v, <1>c, <1>r, <2>2, <3>1, <3>2
  <2> QED
    BY <1>r, <2>1, <2>2 DEF SaveRaises
(* The run goes on, nothing of it ends. *)
<1>k. ASSUME NEW w \in Writers, pc[w] # "idle", OthersKept(w), UNCHANGED <<commit, run, objects, refs>>,
             log'[run[w]].end = log[run[w]].end, Ending(w)'
      PROVE  Finals'
  BY <1>o, <1>v, <1>c, <1>k
<1>s. ASSUME NEW w \in Writers, pc[w] # "idle", ~ Naming(w), OthersKept(w),
             UNCHANGED <<commit, run, objects, refs>>, log'[run[w]].end = log[run[w]].end,
             ~ InSave(w)'
      PROVE  Finals'
  <2>1. Ending(w)'
    BY <1>n, <1>s DEF Ending, IsFinal, Built
  <2> QED
    BY <1>k, <1>s, <2>1
<1> USE DEF storeVars
<1>1. ASSUME NEW w \in Writers, NEW mode \in Modes, NEW target, BeginRun(w, mode, target)
      PROVE  Finals'
  <2>1. PICK r \in Runs :
          /\ log[r].end = "none" /\ \A q \in 1..(r - 1) : log[q].end # "none"
          /\ run' = [run EXCEPT ![w] = r]
          /\ log' = [log EXCEPT ![r] = [mode |-> mode, from |-> None, moves |-> 0, end |-> "running"]]
    BY <1>1 DEF BeginRun, NextRun
  <2>2. /\ run'[w] = r /\ log'[r].end = "running"
        /\ \A q \in Runs \ {r} : log'[q] = log[q]
        /\ \A v \in Writers \ {w} : run'[v] = run[v] /\ pc'[v] = pc[v] /\ at'[v] = at[v]
        /\ pc[w] = "idle" /\ pc'[w] \in {"running", "checkout"}
        /\ UNCHANGED <<commit, objects, refs, job>>
    BY <1>t, <1>1, <2>1 DEF BeginRun, TypeOK
  <2>3. RunsBegun'
    <3>1. \A q \in Runs : log[q].end # "none" => q < r
      BY <2>1 DEF Finals, RunsBegun, Runs
    <3>2. ASSUME NEW q \in Runs, log'[q].end # "none", NEW p \in 1..q PROVE log'[p].end # "none"
      BY <2>1, <2>2, <3>1, <3>2 DEF Runs
    <3>3. ASSUME NEW v \in Writers, run'[v] \in Runs PROVE log'[run'[v]].end # "none"
      BY <2>2, <3>3 DEF Finals, RunsBegun
    <3> QED
      BY <3>2, <3>3 DEF RunsBegun
  <2>4. ASSUME NEW v \in Writers PROVE Ending(v)'
    <3>1. CASE v = w
      <4>1. \A i \in Built : commit[i].run # r
        BY <1>t, <2>1 DEF RunsOwned
      <4> QED
        BY <2>2, <3>1, <4>1 DEF Ending, InSave, Built
    <3>2. CASE v # w
      BY <2>2, <3>2 DEF Finals, Ending, Naming, InSave, IsFinal, Built
    <3> QED
      BY <3>1, <3>2
  <2>5. ASSUME NEW v \in Writers PROVE Behind(v)'
    <3>1. CASE v = w
      <4>1. run[w] \in Nat /\ run[w] <= r
        <5>1. run[w] \in 0..MaxRuns
          BY <1>t DEF TypeOK
        <5>2. run[w] \in Runs => run[w] < r
          BY <2>1 DEF Finals, RunsBegun, Runs
        <5> QED
          BY <5>1, <5>2, ConstantsAssumption DEF Runs
      <4>2. \A i \in Built : commit[i].run \in Nat
        BY <1>b DEF Runs
      <4> QED
        BY <2>2, <3>1, <4>1, <4>2 DEF Finals, Behind, IsFinal, Built, Runs
    <3>2. CASE v # w
      BY <2>2, <3>2 DEF Finals, Behind, IsFinal, Built
    <3> QED
      BY <3>1, <3>2
  <2>6. CompleteNow'
    <3>1. \A q \in Runs : FinalCommits(q)' = FinalCommits(q)
      BY <2>2 DEF FinalCommits, Built
    <3>2. Finished' \subseteq Finished
      BY <2>2, <3>1 DEF Finished
    <3> QED
      BY <2>1, <2>2, <3>1, <3>2, CompleteKept DEF Finals
  <2> QED
    BY <2>3, <2>4, <2>5, <2>6 DEF Finals
<1>2. ASSUME NEW w \in Writers, CheckoutCorrupt(w) PROVE Finals'
  BY <1>e, <1>2 DEF CheckoutCorrupt, Ends
<1>3. ASSUME NEW w \in Writers, SkipStateless(w) PROVE Finals'
  BY <1>t, <1>s, <1>3 DEF SkipStateless, OthersKept, TypeOK, Naming, InSave
<1>4. ASSUME NEW w \in Writers, CheckoutLatest(w) PROVE Finals'
  <2>1. OthersKept(w) /\ pc'[w] = "running" /\ log'[run[w]].end = log[run[w]].end
    BY <1>t, <1>o, <1>4 DEF CheckoutLatest, Leave, OthersKept, TypeOK, LogRecord
  <2> QED
    BY <1>s, <1>4, <2>1 DEF CheckoutLatest, Naming, InSave
<1>5. ASSUME NEW w \in Writers, CheckoutAt(w) PROVE Finals'
  <2>1. CASE EndRun(w, "raised")
    BY <1>e, <1>5, <2>1 DEF CheckoutAt, Ends
  <2>2. CASE pc' = [pc EXCEPT ![w] = "continue"] /\ UNCHANGED <<at, job, log>>
    BY <1>t, <1>s, <1>5, <2>2 DEF CheckoutAt, OthersKept, TypeOK, Naming, InSave
  <2> QED
    BY <1>5, <2>1, <2>2 DEF CheckoutAt
<1>6. ASSUME NEW w \in Writers, ContinueFrom(w) PROVE Finals'
  <2>1. OthersKept(w) /\ pc'[w] = "running" /\ log'[run[w]].end = log[run[w]].end
    BY <1>t, <1>o, <1>6 DEF ContinueFrom, Leave, OthersKept, TypeOK, LogRecord
  <2> QED
    BY <1>s, <1>6, <2>1 DEF ContinueFrom, Naming, InSave
<1>7. ASSUME NEW w \in Writers, NEW j \in Jobs(w), PutSnapshot(w, j) PROVE Finals'
  <2>1. /\ OthersKept(w) /\ pc[w] = "running" /\ pc'[w] = "saving" /\ job'[w] = j
        /\ UNCHANGED <<commit, run, refs, log>>
    BY <1>t, <1>7 DEF PutSnapshot, OthersKept, TypeOK
  <2>2. objects' \cap Ids = objects \cap Ids
    <3>1. j.tree \notin Ids
      BY ConstantsAssumption DEF Jobs
    <3> QED
      BY <1>7, <3>1 DEF PutSnapshot
  <2>3. \A r \in Runs : FinalCommits(r)' = FinalCommits(r)
    BY <1>b, <2>1, <2>2 DEF FinalCommits, Built
  <2>4. CompleteNow'
    BY <2>1, <2>3, CompleteKept DEF Finals, Finished
  <2>5. Ending(w)'
    <3>1. j.kind = "$end" => j.tags = FinalTags
      BY DEF Jobs
    <3> QED
      BY <1>n, <2>1, <3>1 DEF Ending, Naming, IsFinal, Built
  <2> QED
    BY <1>o, <1>v, <2>1, <2>4, <2>5
<1>8. ASSUME NEW w \in Writers, LoadHead(w) PROVE Finals'
  <2>1. Ending(w)'
    BY <1>o, <1>8 DEF LoadHead, Ending, Naming, InSave, IsFinal, Built
  <2> QED
    BY <1>k, <1>8, <2>1 DEF LoadHead, OthersKept
<1>9. ASSUME NEW w \in Writers, PutCommit(w) PROVE Finals'
  <2>1. PICK i \in Ids \ Built :
          /\ Built' = Built \cup {i}
          /\ \A j \in Built : commit'[j] = commit[j]
          /\ commit'[i] = NewCommit(w)
          /\ at' = [at EXCEPT ![w] = i]
    BY <1>t, <1>9, PutCommitBuilds
  <2>2. /\ pc[w] = "saving" /\ pc' = [pc EXCEPT ![w] = "moving"]
        /\ UNCHANGED <<job, run, log, refs>>
        /\ objects \subseteq objects' /\ objects' \cap Built = objects \cap Built
    <3>1. PICK k \in Ids : NextId(k) /\ objects' = objects \cup {k}
      BY <1>9 DEF PutCommit
    <3> QED
      BY <1>9, <3>1 DEF PutCommit, NextId, Built
  <2>3. commit'[i].kind = job[w].kind /\ commit'[i].run = run[w]
    BY <2>1 DEF NewCommit
  <2>4. RunsBegun'
    BY <2>2 DEF Finals, RunsBegun
  <2>5. ASSUME NEW v \in Writers PROVE Ending(v)'
    <3>1. CASE v = w
      <4>1. pc'[w] = "moving" /\ at'[w] = i
        BY <1>t, <2>1, <2>2 DEF TypeOK
      <4>2. \A k \in Built : ~ (IsFinal(k) /\ commit[k].run = run[w])
        BY <1>n, <2>2 DEF Naming
      <4>3. job[w].kind = "$end" => job[w].tags = FinalTags
        BY <1>o, <2>2 DEF Ending, InSave
      <4> QED
        BY <2>1, <2>2, <3>1, <4>1, <4>2, <4>3 DEF Ending, Naming, IsFinal
    <3>2. CASE v # w
      <4>1. pc'[v] = pc[v] /\ at'[v] = at[v] /\ (pc[v] # "idle" => run[v] # run[w])
        BY <1>t, <1>o, <2>1, <2>2, <3>2 DEF TypeOK
      <4> QED
        BY <2>1, <2>2, <2>3, <4>1 DEF Finals, Ending, Naming, InSave, IsFinal
    <3> QED
      BY <3>1, <3>2
  <2>6. ASSUME NEW v \in Writers PROVE Behind(v)'
    <3>1. commit'[i].kind = "$end" => w \notin GcWriters
      BY <1>o, <2>2, <2>3 DEF AsksRightly, InSave
    <3>2. (commit'[i].kind = "$end" /\ v \notin GcWriters) => v = w
      BY <3>1 DEF OneFinisher
    <3>3. run[w] \in Nat
      BY <1>o, <2>2 DEF Runs
    <3> QED
      BY <2>1, <2>2, <2>3, <3>2, <3>3 DEF Finals, Behind, IsFinal
  <2>7. CompleteNow'
    <3>1. \A r \in Runs \ {run[w]} : FinalCommits(r)' = FinalCommits(r)
      BY <2>1, <2>2, <2>3 DEF FinalCommits
    <3>2. log[run[w]].end = "running" /\ run[w] \in Runs
      BY <1>o, <2>2
    <3>3. Finished' \subseteq Finished
      BY <2>2, <3>1, <3>2 DEF Finished
    <3>4. \A r \in Runs : FinalCommits(r) \subseteq FinalCommits(r)'
      BY <2>1, <2>2 DEF FinalCommits
    <3> QED
      BY <2>2, <3>3, <3>4, CompleteKept DEF Finals
  <2> QED
    BY <2>4, <2>5, <2>6, <2>7 DEF Finals
<1>10. ASSUME NEW w \in Writers, PutRefused(w) PROVE Finals'
  BY <1>r, <1>10 DEF PutRefused, InSave
(* A ref moved that is not the complete tag. *)
<1>m. ASSUME NEW w \in Writers, Naming(w), NEW tags \in Seq(Tags), NEW m \in Nat,
             RefMoved(w, tags, m), UNCHANGED <<commit, run, objects>>,
             refs'["complete"] = refs["complete"],
             job[w].kind = "$end" => tags = FinalTags
      PROVE  Finals'
  <2>0. pc[w] # "idle" /\ job[w].kind \in Kinds /\ log[run[w]] \in LogRecord /\ run[w] \in Runs
    BY <1>t, <1>m, <1>o DEF Naming, TypeOK, JobRecord
  <2>1. CASE tags # <<>>
    <3>1. /\ OthersKept(w) /\ pc'[w] = "readTag" /\ at'[w] = at[w] /\ job'[w].tags = tags
          /\ job'[w].kind = job[w].kind /\ log'[run[w]].end = log[run[w]].end
      BY <1>t, <1>m, <2>0, <2>1 DEF RefMoved, Landed, OthersKept, TypeOK
    <3>2. Ending(w)'
      BY <1>o, <1>m, <2>0, <3>1 DEF Ending, Naming, InSave, IsFinal, Built
    <3> QED
      BY <1>o, <1>v, <1>c, <1>m, <2>0, <3>1, <3>2
  <2>2. CASE tags = <<>>
    <3>1. job[w].kind # "$end"
      BY <1>m, <2>2 DEF FinalTags
    <3>2. /\ OthersKept(w) /\ pc'[w] \in {"idle", "running"} /\ log'[run[w]].end # "none"
      BY <1>t, <1>m, <1>o, <2>0, <2>2 DEF RefMoved, Landed, Leave, OthersKept, TypeOK
    <3>3. Ending(w)'
      BY <1>n, <1>m, <2>0, <3>1, <3>2 DEF Ending, InSave, IsFinal, Built
    <3> QED
      BY <1>v, <1>c, <1>m, <2>0, <3>1, <3>2, <3>3
  <2> QED
    BY <2>1, <2>2
<1>11. ASSUME NEW w \in Writers, MoveHead(w) PROVE Finals'
  <2>1. job[w].tags \in Seq(Tags) /\ log[run[w]].moves + 1 \in Nat
    BY <1>t, <1>o, <1>11 DEF MoveHead, TypeOK, JobRecord, LogRecord
  <2>2. job[w].kind = "$end" => job[w].tags = FinalTags
    BY <1>o, <1>11 DEF MoveHead, Ending, InSave
  <2>3. refs'["complete"] = refs["complete"]
    BY <1>t, <1>g, <1>11 DEF MoveHead, TypeOK
  <2> QED
    BY <1>m, <1>11, <2>1, <2>2, <2>3 DEF MoveHead, Naming
<1>12. ASSUME NEW w \in Writers, HeadConflict(w) PROVE Finals'
  BY <1>r, <1>12 DEF HeadConflict, InSave
<1>13. ASSUME NEW w \in Writers, ReadTag(w) PROVE Finals'
  <2>1. /\ OthersKept(w) /\ pc'[w] = "moveTag" /\ at'[w] = at[w]
        /\ job'[w].tags = job[w].tags /\ job'[w].kind = job[w].kind
    BY <1>t, <1>13 DEF ReadTag, TypeOK, JobRecord, OthersKept
  <2>2. Ending(w)'
    BY <1>o, <1>13, <2>1 DEF ReadTag, Ending, Naming, InSave, IsFinal, Built
  <2> QED
    BY <1>k, <1>13, <2>1, <2>2 DEF ReadTag
<1>14. ASSUME NEW w \in Writers, MoveTag(w) PROVE Finals'
  <2> DEFINE tags == job[w].tags
  <2>1. tags # <<>> /\ tags \in Seq(Tags) /\ pc[w] = "moveTag" /\ at[w] \in Built
    BY <1>t, <1>14 DEF IInv, Position, PositionAt, MoveTag, Tagging, TypeOK, JobRecord, NamesBuilt
  <2>2. Tail(tags) \in Seq(Tags) /\ log[run[w]].moves \in Nat /\ run[w] \in Runs
    BY <1>t, <1>o, <2>1 DEF TypeOK, LogRecord
  <2>3. UNCHANGED <<commit, run, objects>>
    BY <1>14 DEF MoveTag
  <2>4. CASE job[w].kind # "$end"
    <3>1. Head(tags) # "complete"
      <4>1. ~ Asked("complete", tags)
        BY <1>o, <2>1, <2>4 DEF AsksRightly, InSave
      <4>2. 1 \in DOMAIN tags /\ tags[1] = Head(tags)
        BY <2>1
      <4> QED
        BY <4>1, <4>2 DEF Asked
    <3>2. refs'["complete"] = refs["complete"]
      BY <1>t, <1>g, <1>14, <3>1 DEF MoveTag, TypeOK
    <3> QED
      BY <1>m, <1>14, <2>1, <2>2, <2>3, <2>4, <3>2 DEF MoveTag, Naming
  <2>5. CASE job[w].kind = "$end"
    <3>1. tags = FinalTags /\ w \notin GcWriters
      BY <1>o, <2>1, <2>5 DEF Ending, AsksRightly, InSave
    <3>2. Head(tags) = "complete" /\ Tail(tags) = <<>>
      BY <3>1 DEF FinalTags
    <3>3. /\ Leave(w, "idle")
          /\ log' = [log EXCEPT ![run[w]] = Landed(log[run[w]], log[run[w]].moves, "returned")]
      BY <1>14, <2>5, <3>2 DEF MoveTag, RefMoved
    <3>4. OthersKept(w) /\ pc'[w] = "idle" /\ log'[run[w]].end = "returned"
      BY <1>t, <2>2, <3>3 DEF Leave, Landed, OthersKept, TypeOK
    <3>5. refs'["complete"] = at[w] /\ at[w] \in objects
      BY <1>t, <1>g, <1>14, <3>2 DEF MoveTag, CanSet, TypeOK
    <3>a. PICK r \in Runs : r = run[w]
      BY <2>2
    <3>6. refs'["complete"] \in FinalCommits(r)'
      BY <1>o, <2>1, <2>3, <2>5, <3>5, <3>a DEF BuiltAsAsked, FinalCommits, Built
    <3>7. r \in Finished'
      BY <3>4, <3>6, <3>a DEF Finished
    <3>8. \A q \in Finished' : q <= r
      <4> SUFFICES ASSUME NEW q \in Finished' PROVE q <= run[w]
        BY <3>a
      <4>1. PICK i \in Built : commit[i].kind = "$end" /\ commit[i].run = q
        BY <2>3 DEF Finished, FinalCommits, Built
      <4> QED
        BY <3>1, <4>1 DEF Finals, Behind, IsFinal
    <3>9. CompleteNow'
      BY <3>6, <3>7, <3>8 DEF CompleteNow
    <3>10. Ending(w)'
      BY <3>4 DEF Ending
    <3> QED
      BY <1>v, <2>1, <2>3, <3>4, <3>9, <3>10
  <2> QED
    BY <2>4, <2>5
<1>15. ASSUME NEW w \in Writers, TagConflict(w) PROVE Finals'
  BY <1>r, <1>15 DEF TagConflict, InSave
<1>16. ASSUME NEW w \in Writers, DeleteHistory(w) PROVE Finals'
  <2>1. /\ pc[w] = "running" /\ objects' = {} /\ UNCHANGED <<commit, run>> /\ EndRun(w, "returned")
    BY <1>16 DEF DeleteHistory
  <2>2. OthersKept(w) /\ pc'[w] = "idle" /\ log'[run[w]].end # "none"
    BY <1>t, <1>o, <2>1, EndRunLeaves DEF Left, Ends
  <2>3. CompleteNow'
    BY <2>1 DEF CompleteNow, Finished, FinalCommits
  <2>4. Ending(w)'
    BY <2>2 DEF Ending
  <2> QED
    BY <1>v, <2>1, <2>2, <2>3, <2>4
<1>17. ASSUME NEW w \in Writers, RunRaises(w) PROVE Finals'
  BY <1>e, <1>17 DEF RunRaises, Ends
<1>18. ASSUME NEW w \in Writers, StoreError(w) PROVE Finals'
  BY <1>r, <1>18 DEF StoreError, InSave
<1>19. ASSUME NEW w \in Writers, MoveHeadUnacknowledged(w) PROVE Finals'
  <2>1. refs'["complete"] = refs["complete"]
    BY <1>t, <1>g, <1>19 DEF MoveHeadUnacknowledged, TypeOK
  <2> QED
    BY <1>r, <1>19, <2>1 DEF MoveHeadUnacknowledged, InSave
<1>20. ASSUME NEW w \in Writers, Crash(w) PROVE Finals'
  BY <1>e, <1>20 DEF Crash, Ends
<1>u. ASSUME UNCHANGED <<refs, commit, pc, at, job, run, log>>,
             refs["complete"] # None => (refs["complete"] \in objects => refs["complete"] \in objects'),
             objects' \subseteq objects
      PROVE  Finals'
  <2>1. RunsBegun' /\ \A w \in Writers : Ending(w)' /\ Behind(w)'
    BY <1>u DEF Finals, RunsBegun, Ending, Behind, Naming, InSave, IsFinal, Built
  <2>2. \A r \in Runs : FinalCommits(r)' \subseteq FinalCommits(r)
    BY <1>u DEF FinalCommits, Built
  <2>3. Finished' \subseteq Finished
    BY <1>u, <2>2 DEF Finished
  <2>4. \A r \in Runs : refs["complete"] \in FinalCommits(r) => refs["complete"] \in FinalCommits(r)'
    BY <1>u, <1>b, ConstantsAssumption DEF FinalCommits, Built
  <2>5. CompleteNow'
    BY <1>u, <2>3, <2>4, CompleteKept DEF Finals
  <2> QED
    BY <2>1, <2>5 DEF Finals
<1>21. CASE Age
  BY <1>u, <1>21 DEF Age
<1>22. CASE Prune
  <2>1. objects' = Reach(Targets \cup fresh) /\ Closed(objects) /\ Targets \subseteq objects
    BY <1>22 DEF Prune
  <2>2. refs["complete"] # None => refs["complete"] \in objects'
    BY <1>g, <2>1, ReachKeeps DEF Targets
  <2> QED
    BY <1>u, <1>22, <2>1, <2>2 DEF Prune, Reach
<1>23. CASE UNCHANGED vars
  BY <1>u, <1>23 DEF vars
<1> QED
  BY <1>1, <1>2, <1>3, <1>4, <1>5, <1>6, <1>7, <1>8, <1>9, <1>10, <1>11, <1>12, <1>13, <1>14,
     <1>15, <1>16, <1>17, <1>18, <1>19, <1>20, <1>21, <1>22, <1>23
  DEF Next, Step, Modes

LEMMA FinalsStart == Init => Finals
  BY ConstantsAssumption
  DEF Init, Finals, RunsBegun, Ending, Behind, CompleteNow, Finished, FinalCommits, Built,
      NoLog, Runs

(* The complete tag is the final state of the last run that returned with
   one, through crashes, store errors, prunes and deletions, while one
   process at a time runs the flow to its end. *)
THEOREM LastFinished == ASSUME OneFinisher PROVE Spec => []CompleteIsLastFinished
<1>1. Init => HistoryInv /\ Finals
  BY HistoryStart, FinalsStart
<1>2. HistoryInv /\ Finals /\ [Next]_vars => (HistoryInv /\ Finals)'
  BY HistoryInductive, FinalsStep
<1>3. HistoryInv /\ Finals => CompleteIsLastFinished
  BY DEF Finals, CompleteNow, Finished, CompleteIsLastFinished
<1> QED
  BY <1>1, <1>2, <1>3, PTL DEF Spec
=============================================================================
