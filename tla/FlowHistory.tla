------------------------------ MODULE FlowHistory ------------------------------
(***************************************************************************)
(* The history of one checkpointed flow: the commits, trees and refs of    *)
(* one repository of the content-addressed store, and the processes that   *)
(* run a flow wired to it.  Each process holds a CheckpointContext (its    *)
(* cached parent and head, the objects it already put) and goes through    *)
(* Flow.run: begin_run, the checkout, any number of saves, and an end.     *)
(*                                                                         *)
(* One action is one call to the store: other processes, a prune, a crash  *)
(* and a store error may come between any two of them.  Inside a process   *)
(* the saves are serialised by the commit lock, so one save at a time is   *)
(* in progress per process.                                                *)
(***************************************************************************)
EXTENDS Naturals, Sequences

CONSTANTS
  Writers,      \* processes that run a flow with this client_flow_id
  GcWriters,    \* the ones wired with retention="gc_on_success"
  Trees,        \* snapshot trees that carry state
  EmptyTree,    \* the tree of a final state that cannot be serialised
  Names,        \* checkpoint names
  Faults,       \* whether store calls may raise and processes may die
  Pruning,      \* whether someone prunes the repository
  None,
  MaxCommits,   \* bound: commits ever built
  MaxRuns       \* bound: calls of Flow.run

Ids  == 1..MaxCommits
Runs == 1..MaxRuns
Tags == Names \cup {"complete"}          \* the refs under tags/
Refs == Tags \cup {"HEAD"}
Objects == Ids \cup Trees \cup {EmptyTree}
Kinds == {"ok", "halted", "$end"}        \* outcome, and node_path of the final commit

(* A commit: its tree and parent, what its meta holds, and two history
   fields, the run that built it and which of its commits it is. *)
CommitRecord ==
  [tree : Trees \cup {EmptyTree}, parent : Ids \cup {None}, kind : Kinds,
   tags : Seq(Tags), run : Runs, nth : Nat]

ASSUME ConstantsAssumption ==
  /\ GcWriters \subseteq Writers
  /\ Faults \in BOOLEAN /\ Pruning \in BOOLEAN
  /\ MaxCommits \in Nat /\ MaxRuns \in Nat
  /\ EmptyTree \notin Trees
  /\ (Trees \cup {EmptyTree}) \cap Ids = {}
  /\ None \notin Ids \cup Trees \cup {EmptyTree}
  /\ Names \cap {"complete", "HEAD", "off", "latest"} = {}
  /\ Names \cap Ids = {}
  /\ None \notin CommitRecord

VARIABLES
  objects,  \* ids of the stored objects
  fresh,    \* the stored objects a prune keeps because they are recent
  refs,     \* Refs -> the commit it points at, or None
  commit,   \* what each commit id is the hash of (None: not built yet)
  ctx,      \* per writer: the CheckpointContext
  pc,       \* per writer: where Flow.run stands
  at,       \* per writer: the commit the checkout is at, or the one being saved
  job,      \* per writer: the save in progress
  run,      \* per writer: number of its current or last run (0: none yet)
  log       \* per run: how it started and how it ended

storeVars == <<objects, fresh, refs, commit>>
vars == <<objects, fresh, refs, commit, ctx, pc, at, job, run, log>>

NoCtx == [parent |-> None, head |-> None, loaded |-> FALSE, written |-> {}]
NoJob == [kind |-> "ok", tree |-> EmptyTree, tags |-> <<>>, old |-> None]
NoLog == [mode |-> "off", from |-> None, moves |-> 0, end |-> "none"]

Built == {i \in Ids : commit[i] # None}

(***************************************************************************)
(* What an object refers to: a commit its tree and its parent.             *)
(***************************************************************************)
Referenced(i) == {commit[i].tree} \cup ({commit[i].parent} \ {None})

Closed(S) == \A i \in S \cap Ids : Referenced(i) \subseteq S

(* Everything the objects in roots reach. *)
Reach(roots) ==
  {o \in objects : \A S \in SUBSET objects :
                     (roots \subseteq S /\ Closed(S)) => o \in S}

Targets == {refs[r] : r \in Refs} \ {None}

(***************************************************************************)
(* Ends of a run and of a save.  What a call held goes with it.            *)
(***************************************************************************)
Leave(w, where) ==
  /\ pc' = [pc EXCEPT ![w] = where]
  /\ at' = [at EXCEPT ![w] = None]
  /\ job' = [job EXCEPT ![w] = NoJob]

EndRun(w, how) ==
  /\ Leave(w, "idle")
  /\ log' = [log EXCEPT ![run[w]].end = how]

(* A save raised: a verb that called ctx.checkpoint() may catch it; a halt
   or a final commit makes run() raise. *)
SaveRaises(w) ==
  \/ EndRun(w, "raised")
  \/ job[w].kind = "ok" /\ Leave(w, "running") /\ UNCHANGED log

(* A ref moved; these tags are still to move.  With none, a policy save or
   ctx.checkpoint() gives the run back, a halt or a final commit ends it. *)
Landed(l, moves, end) == [mode |-> l.mode, from |-> l.from, moves |-> moves, end |-> end]
RefMoved(w, tags, moves) ==
  LET l == log[run[w]] IN
  IF tags # <<>>
    THEN /\ pc' = [pc EXCEPT ![w] = "readTag"]
         /\ job' = [job EXCEPT ![w] = [kind |-> @.kind, tree |-> @.tree, tags |-> tags, old |-> None]]
         /\ log' = [log EXCEPT ![run[w]] = Landed(l, moves, l.end)]
         /\ UNCHANGED at
  ELSE IF job[w].kind = "ok"
    THEN Leave(w, "running") /\ log' = [log EXCEPT ![run[w]] = Landed(l, moves, l.end)]
    ELSE Leave(w, "idle") /\ log' = [log EXCEPT ![run[w]] = Landed(l, moves, "returned")]

(***************************************************************************)
(* Start of a run: begin_run, then the checkout.                           *)
(***************************************************************************)
(* The commit a run starts at: none, HEAD, or the one a checkpoint name or
   a hash of the history names (a ValueError when there is none). *)
StartCommit(mode, target) ==
  CASE mode = "off"    -> None
    [] mode = "latest" -> refs["HEAD"]
    [] mode = "at"     -> IF target \in Names THEN refs[target]
                          ELSE IF target \in objects THEN target ELSE None

(* Runs and commits are numbered in the order they are made. *)
NextRun(r) == log[r].end = "none" /\ \A q \in 1..(r - 1) : log[q].end # "none"
NextId(i) == commit[i] = None /\ \A j \in 1..(i - 1) : commit[j] # None

(* run(resume=mode), or restart=mode: begin_run forgets what the context
   cached; the start is read from the store. *)
BeginRun(w, mode, target) ==
  /\ pc[w] = "idle"
  /\ \E r \in Runs :
       /\ NextRun(r)
       /\ run' = [run EXCEPT ![w] = r]
       /\ log' = [log EXCEPT ![r] = [mode |-> mode, from |-> None, moves |-> 0, end |-> "running"]]
  /\ LET start == StartCommit(mode, target) IN
     /\ mode = "at" => start # None
     /\ at' = [at EXCEPT ![w] = start]
     /\ pc' = [pc EXCEPT ![w] = IF start = None THEN "running" ELSE "checkout"]
  /\ ctx' = [ctx EXCEPT ![w] = NoCtx]
  /\ UNCHANGED <<storeVars, job>>

(* The context knows where to parent the next commit, and where HEAD is. *)
Headed(c, parent, head) ==
  [parent |-> parent, head |-> head, loaded |-> TRUE, written |-> c.written]

Readable(i) == i \in objects /\ commit[i].tree \in objects

(* A hash the history holds points at nothing: HistoryCorrupt. *)
CheckoutCorrupt(w) ==
  /\ pc[w] = "checkout"
  /\ ~Readable(at[w])
  /\ EndRun(w, "raised")
  /\ UNCHANGED <<storeVars, ctx, run>>

(* resume="latest": the walk from HEAD skips a commit without state ...
   (until the context is loaded, its head holds checkout()'s local head). *)
SkipStateless(w) ==
  /\ pc[w] = "checkout" /\ log[run[w]].mode = "latest"
  /\ Readable(at[w]) /\ commit[at[w]].tree = EmptyTree
  /\ LET parent == commit[at[w]].parent IN
     /\ at' = [at EXCEPT ![w] = parent]
     /\ pc' = [pc EXCEPT ![w] = IF parent = None THEN "running" ELSE "checkout"]
  /\ ctx' = [ctx EXCEPT ![w].head = IF @ = None THEN at[w] ELSE @]
  /\ UNCHANGED <<storeVars, job, run, log>>

(* continue_from(head, expect_head=head): the next commit is parented on
   the HEAD the walk began at, and HEAD must still be there. *)
ContinueLatest_Lazily(c, i) == c     \* variant: HEAD is read at the first save
ContinueLatest(c, i) ==
  LET head == IF c.head = None THEN i ELSE c.head IN Headed(c, head, head)

(* ... and stops at the newest one that has state. *)
CheckoutLatest(w) ==
  /\ pc[w] = "checkout" /\ log[run[w]].mode = "latest"
  /\ Readable(at[w]) /\ commit[at[w]].tree # EmptyTree
  /\ ctx' = [ctx EXCEPT ![w] = ContinueLatest(ctx[w], at[w])]
  /\ log' = [log EXCEPT ![run[w]].from = at[w]]
  /\ Leave(w, "running")
  /\ UNCHANGED <<storeVars, run>>

(* resume=<hash> or <name>: the named commit must have state; HEAD is read
   afresh once the snapshot is loaded. *)
CheckoutAt(w) ==
  /\ pc[w] = "checkout" /\ log[run[w]].mode = "at"
  /\ Readable(at[w])
  /\ IF commit[at[w]].tree = EmptyTree
       THEN EndRun(w, "raised")                              \* ValueError
       ELSE pc' = [pc EXCEPT ![w] = "continue"] /\ UNCHANGED <<at, job, log>>
  /\ UNCHANGED <<storeVars, ctx, run>>

ContinueFrom(w) ==
  /\ pc[w] = "continue"
  /\ ctx' = [ctx EXCEPT ![w] = Headed(@, at[w], refs["HEAD"])]
  /\ log' = [log EXCEPT ![run[w]].from = at[w]]
  /\ Leave(w, "running")
  /\ UNCHANGED <<storeVars, run>>

(***************************************************************************)
(* A save.  put_snapshot, the head on first use, the commit object, HEAD   *)
(* by compare-and-set, then the tags.                                      *)
(***************************************************************************)

FinalTags_None == <<>>               \* variant: the final commit is not tagged
FinalTags == <<"complete">>

(* What is saved: a policy save or ctx.checkpoint(), whose commit moves the
   tag of the checkpointer it belongs to and its own name's; the halt
   checkpoint; the final state, tagged complete. *)
TagLists == {<<>>} \cup {<<n>> : n \in Names}
            \cup {t \in {<<n, m>> : n, m \in Names} : t[1] # t[2]}
Jobs(w) ==
  [kind : {"ok"}, tree : Trees, old : {None}, tags : TagLists]
  \cup [kind : {"halted"}, tree : Trees, old : {None}, tags : {<<>>}]
  \cup (IF w \in GcWriters THEN {}
        ELSE [kind : {"$end"}, tree : Trees \cup {EmptyTree}, old : {None},
              tags : {FinalTags}])

(* An object this run already put is not put again. *)
PutSnapshot(w, j) ==
  /\ pc[w] = "running"
  /\ IF j.tree \in ctx[w].written
       THEN UNCHANGED <<objects, fresh, ctx>>
       ELSE /\ objects' = objects \cup {j.tree}
            /\ fresh' = fresh \cup {j.tree}
            /\ ctx' = [ctx EXCEPT ![w].written = @ \cup {j.tree}]
  /\ job' = [job EXCEPT ![w] = j]
  /\ pc' = [pc EXCEPT ![w] = "saving"]
  /\ UNCHANGED <<refs, commit, at, run, log>>

(* The head is read once per run, then kept (_load_head). *)
HeadUnknown_Always(w) == TRUE        \* variant: every save reads HEAD again
HeadUnknown(w) == ~ctx[w].loaded

LoadHead(w) ==
  /\ pc[w] = "saving" /\ HeadUnknown(w)
  /\ ctx' = [ctx EXCEPT ![w] = Headed(@, refs["HEAD"], refs["HEAD"])]
  /\ UNCHANGED <<storeVars, pc, at, job, run, log>>

(* The commit append_commit builds: its id is fresh, since its meta holds
   the time.  run and nth are history: the nth save of that run to land. *)
NewCommit(w) == [tree |-> job[w].tree, parent |-> ctx[w].parent, kind |-> job[w].kind,
                 tags |-> job[w].tags, run |-> run[w], nth |-> log[run[w]].moves + 1]

(* Repo.put refuses an object that refers to a missing one. *)
PutAccepted(w) == {job[w].tree} \cup ({ctx[w].parent} \ {None}) \subseteq objects

PutCommit(w) ==
  /\ pc[w] = "saving" /\ ctx[w].loaded
  /\ PutAccepted(w)
  /\ \E i \in Ids :
       /\ NextId(i)
       /\ commit' = [commit EXCEPT ![i] = NewCommit(w)]
       /\ objects' = objects \cup {i}
       /\ fresh' = fresh \cup {i}
       /\ at' = [at EXCEPT ![w] = i]
  /\ pc' = [pc EXCEPT ![w] = "moving"]
  /\ UNCHANGED <<refs, ctx, job, run, log>>

PutRefused(w) ==
  /\ pc[w] = "saving" /\ ctx[w].loaded
  /\ ~PutAccepted(w)
  /\ SaveRaises(w)
  /\ UNCHANGED <<storeVars, ctx, run>>

(* Repo.set_ref: compare-and-set of a ref to an object the store holds. *)
CanSet_Blind(ref, new, old) == new \in objects    \* variant: no compare
CanSet(ref, new, old) == refs[ref] = old /\ new \in objects

MoveHead(w) ==
  /\ pc[w] = "moving"
  /\ CanSet("HEAD", at[w], ctx[w].head)
  /\ refs' = [refs EXCEPT !["HEAD"] = at[w]]
  /\ ctx' = [ctx EXCEPT ![w] = Headed(@, at[w], at[w])]
  /\ RefMoved(w, job[w].tags, log[run[w]].moves + 1)
  /\ UNCHANGED <<objects, fresh, commit, run>>

(* ConcurrentWriteError on HEAD. *)
HeadConflict(w) ==
  /\ pc[w] = "moving"
  /\ ~CanSet("HEAD", at[w], ctx[w].head)
  /\ SaveRaises(w)
  /\ UNCHANGED <<storeVars, ctx, run>>

(* put_tag reads where the tag points ... *)
ReadTag(w) ==
  /\ pc[w] = "readTag"
  /\ job' = [job EXCEPT ![w].old = refs[Head(job[w].tags)]]
  /\ pc' = [pc EXCEPT ![w] = "moveTag"]
  /\ UNCHANGED <<storeVars, ctx, at, run, log>>

(* ... and moves it from there. *)
MoveTag(w) ==
  /\ pc[w] = "moveTag"
  /\ CanSet(Head(job[w].tags), at[w], job[w].old)
  /\ refs' = [refs EXCEPT ![Head(job[w].tags)] = at[w]]
  /\ RefMoved(w, Tail(job[w].tags), log[run[w]].moves)
  /\ UNCHANGED <<objects, fresh, commit, ctx, run>>

TagConflict(w) ==
  /\ pc[w] = "moveTag"
  /\ ~CanSet(Head(job[w].tags), at[w], job[w].old)
  /\ SaveRaises(w)
  /\ UNCHANGED <<storeVars, ctx, run>>

(***************************************************************************)
(* Other ends of a run, and what the environment does.                     *)
(***************************************************************************)

(* A clean exit under gc_on_success deletes the repository: refs, objects. *)
RefsDeleted_Kept == refs             \* variant: delete_repo leaves the refs
RefsDeleted == [r \in Refs |-> None]

DeleteHistory(w) ==
  /\ pc[w] = "running" /\ w \in GcWriters
  /\ objects' = {}
  /\ fresh' = {}
  /\ refs' = RefsDeleted
  /\ ctx' = [ctx EXCEPT ![w] = NoCtx]
  /\ EndRun(w, "returned")
  /\ UNCHANGED <<commit, run>>

(* A step raised, or the run was cancelled between saves: nothing is written. *)
RunRaises(w) ==
  /\ pc[w] = "running"
  /\ EndRun(w, "raised")
  /\ UNCHANGED <<storeVars, ctx, run>>

InSave(w) == pc[w] \in {"saving", "moving", "readTag", "moveTag"}

(* A store call raised without an effect. *)
StoreError(w) ==
  /\ Faults /\ InSave(w)
  /\ SaveRaises(w)
  /\ UNCHANGED <<storeVars, ctx, run>>

(* HEAD moved in the store, but the call that moved it raised. *)
MoveHeadUnacknowledged(w) ==
  /\ Faults /\ pc[w] = "moving"
  /\ CanSet("HEAD", at[w], ctx[w].head)
  /\ refs' = [refs EXCEPT !["HEAD"] = at[w]]
  /\ SaveRaises(w)
  /\ UNCHANGED <<objects, fresh, commit, ctx, run>>

(* The process dies; a new one takes its place. *)
Crash(w) ==
  /\ Faults /\ pc[w] # "idle"
  /\ EndRun(w, "died")
  /\ UNCHANGED <<storeVars, ctx, run>>

(* The grace window of a prune passes.  A save takes less than the window. *)
Age ==
  /\ Pruning /\ fresh # {}
  /\ \A w \in Writers : ~InSave(w)
  /\ fresh' = {}
  /\ UNCHANGED <<objects, refs, commit, ctx, pc, at, job, run, log>>

(* Repo.prune: deletes what neither a ref nor a recent object reaches, and
   nothing at all when something they reach is missing. *)
Prune ==
  /\ Pruning
  /\ Closed(objects) /\ Targets \subseteq objects
  /\ LET kept == Reach(Targets \cup fresh) IN
     /\ kept # objects
     /\ objects' = kept
  /\ UNCHANGED <<fresh, refs, commit, ctx, pc, at, job, run, log>>

Init ==
  /\ objects = {} /\ fresh = {}
  /\ refs = [r \in Refs |-> None]
  /\ commit = [i \in Ids |-> None]
  /\ ctx = [w \in Writers |-> NoCtx]
  /\ pc = [w \in Writers |-> "idle"]
  /\ at = [w \in Writers |-> None]
  /\ job = [w \in Writers |-> NoJob]
  /\ run = [w \in Writers |-> 0]
  /\ log = [r \in Runs |-> NoLog]

Step(w) ==
  \/ BeginRun(w, "off", None) \/ BeginRun(w, "latest", None)
  \/ \E target \in Names \cup Ids : BeginRun(w, "at", target)
  \/ CheckoutCorrupt(w) \/ SkipStateless(w) \/ CheckoutLatest(w)
  \/ CheckoutAt(w) \/ ContinueFrom(w)
  \/ \E j \in Jobs(w) : PutSnapshot(w, j)
  \/ LoadHead(w) \/ PutCommit(w) \/ PutRefused(w)
  \/ MoveHead(w) \/ HeadConflict(w)
  \/ ReadTag(w) \/ MoveTag(w) \/ TagConflict(w)
  \/ DeleteHistory(w) \/ RunRaises(w)
  \/ StoreError(w) \/ MoveHeadUnacknowledged(w) \/ Crash(w)

Next == (\E w \in Writers : Step(w)) \/ Age \/ Prune

Spec == Init /\ [][Next]_vars

-----------------------------------------------------------------------------
(***************************************************************************)
(* Properties.                                                             *)
(***************************************************************************)
JobRecord == [kind : Kinds, tree : Trees \cup {EmptyTree}, tags : Seq(Tags),
              old : Ids \cup {None}]
Context == [parent : Ids \cup {None}, head : Ids \cup {None}, loaded : BOOLEAN,
            written : SUBSET Objects]
Modes == {"off", "latest", "at"}
Ends == {"none", "running", "returned", "raised", "died"}
LogRecord == [mode : Modes, from : Ids \cup {None}, moves : Nat, end : Ends]
Places == {"idle", "checkout", "continue", "running", "saving", "moving", "readTag", "moveTag"}

TypeOK ==
  /\ objects \subseteq Objects /\ fresh \subseteq Objects
  /\ refs \in [Refs -> Ids \cup {None}]
  /\ commit \in [Ids -> CommitRecord \cup {None}]
  /\ ctx \in [Writers -> Context]
  /\ pc \in [Writers -> Places]
  /\ at \in [Writers -> Ids \cup {None}]
  /\ job \in [Writers -> JobRecord]
  /\ run \in [Writers -> 0..MaxRuns]
  /\ log \in [Runs -> LogRecord]

(* The commits of a line: a commit and everything before it. *)
Line(i) ==
  LET line[j \in Ids] ==
        {j} \cup (IF commit[j] = None \/ commit[j].parent = None THEN {}
                 ELSE line[commit[j].parent])
  IN IF i = None THEN {} ELSE line[i]

(* A history is one line per run: a commit's parent is the commit the same
   run landed just before it, and a run's first commit is parented on
   another run's, or on nothing.  So a second writer never gets between two
   commits of a run unnoticed (ConcurrentWriteError, checkpoint.py). *)
RunsAreContiguous ==
  \A i \in Built :
    LET c == commit[i] IN
    IF c.nth = 1
      THEN c.parent # None => commit[c.parent].run # c.run
      ELSE /\ c.parent # None
           /\ commit[c.parent].run = c.run
           /\ commit[c.parent].nth + 1 = c.nth

(* HEAD only moves onto a child of the commit it points at, unless a run
   that checked a commit out by name or hash lands its first commit, or the
   history is deleted: no commit leaves the line on any other path
   (append_commit, continue_from). *)
HeadStep ==
  refs'["HEAD"] # refs["HEAD"] =>
    \/ refs'["HEAD"] = None /\ objects' = {}
    \/ LET c == commit[refs'["HEAD"]] IN
       \/ c.parent = refs["HEAD"]
       \/ c.nth = 1 /\ log[c.run].mode = "at" /\ c.parent = log[c.run].from

HeadMovesForward == [][HeadStep]_vars

(* A run that resumed "latest" and restored a commit continues from the
   newest state there was: on its line, nothing with state lies between the
   commit it restored and its own first one, whoever wrote meanwhile
   (Resume.checkout, expect_head). *)
NothingAbsorbed ==
  \A i \in Line(refs["HEAD"]) :
    LET c == commit[i]
        r == log[c.run] IN
    (c.nth = 1 /\ r.mode = "latest" /\ r.from # None) =>
       \A j \in Line(c.parent) \ Line(r.from) : commit[j].tree = EmptyTree

(* What a ref names can be read to the start of its line, and a named
   checkpoint can be resumed: it carries state and is a save that asked
   for that name.  No prune, delete, crash or racing writer breaks it. *)
RefsReadable ==
  \A r \in Refs : refs[r] # None =>
    /\ \A i \in Line(refs[r]) : Readable(i)
    /\ r \in Names => /\ commit[refs[r]].tree # EmptyTree
                      /\ \E k \in DOMAIN commit[refs[r]].tags : commit[refs[r]].tags[k] = r

(* The complete tag is the final state of the last run that returned with
   one, however many runs halted, raised or died since (COMPLETE_TAG); and
   while HEAD is a final commit whose run returned, the two agree. *)
FinalCommits(r) == {i \in Built \cap objects : commit[i].kind = "$end" /\ commit[i].run = r}
CompleteIsLastFinished ==
  LET finished == {r \in Runs : log[r].end = "returned" /\ FinalCommits(r) # {}} IN
  (\A w \in Writers : pc[w] = "idle") =>
    \/ finished = {}
    \/ \E r \in finished : (\A q \in finished : q <= r) /\ refs["complete"] \in FinalCommits(r)

=============================================================================
