-------------------------------- MODULE MapRun --------------------------------
(***************************************************************************)
(* One .map step of a checkpointed flow: its items run as tasks of one     *)
(* event loop, merge their scoped state into the parent's one at a time,   *)
(* and are saved in every checkpoint the run takes.  The run may be        *)
(* halted, may raise, or may die, and is then resumed from the newest      *)
(* checkpoint.                                                             *)
(*                                                                         *)
(* One action is what a task does between two points where it may suspend. *)
(* Which callbacks suspend is part of the mode: while a task stands at a   *)
(* place that does not, nobody else moves.                                 *)
(***************************************************************************)
EXTENDS Naturals, FiniteSets

CONSTANTS
  Items,        \* the keys of the map's items
  Modes,        \* the maps considered: see ModeRecord
  None,
  MaxSessions   \* bound: how often the run is started or resumed

Hooks == {"guard", "skipHook", "cutHook", "merging", "okHook", "failHook"}
Places == {"wait", "body", "merge", "queued", "saving", "unsaved", "over"} \cup Hooks
Records == {"none", "completed", "merged", "skipped", "failed"}
Positions == {"none", "scope", "body"}    \* what is registered under an item's path
Outcomes == {"none", "ok", "skipped", "failed", "interrupted", "raised"}

(* How the map is declared: strict=, a save per item (on_map_item), a scope
   of its own per item (state= and merge=), max_concurrency; which callbacks
   suspend (items, projections and the cap are computed at once); and whether
   bodies and hooks call ctx.checkpoint(). *)
ModeRecord ==
  [strict : BOOLEAN, policy : BOOLEAN, scoped : BOOLEAN, cap : Nat \ {0},
   suspends : SUBSET Hooks, checkpoints : BOOLEAN]

ASSUME ModesAssumption == Modes \subseteq ModeRecord
ASSUME ItemsAssumption ==
  IsFiniteSet(Items) /\ None \notin Items /\ MaxSessions \in Nat \ {0}

VARIABLES
  mode,      \* the map's declaration
  status,    \* "running", "stopped" (to be resumed) or "finished"
  sessions,  \* sessions begun
  halt,      \* the run's halt event
  cut,       \* the signal of the region the map is in
  pc,        \* per item: where its task is
  again,     \* the items whose task merges a saved scope (merge_saved)
  done,      \* the cursor: per item its record, as in MapRunner.done
  scope,     \* the registry: what is live under an item's path
  saved,     \* the registry: what a checkout saved there and nothing took
  parent,    \* per item: how often its state was merged into the parent's
  lock,      \* the holder of the merge lock
  outcome,   \* per item: what its task returned
  disk       \* the newest checkpoint

taskVars == <<pc, again, outcome>>
stateVars == <<done, scope, saved, parent, lock>>
runVars == <<mode, status, sessions, halt, cut>>
vars == <<runVars, taskVars, stateVars, disk>>

(* A snapshot of the run: what nothing took yet is kept as saved, what is
   live comes on top (ScopeRegistry.capture). *)
Capture_Live(d, s, u, p) ==      \* variant: forgets what nothing took yet
  [done |-> d, at |-> s, parent |-> p, cut |-> cut]
Capture(d, s, u, p) ==
  [done |-> d, at |-> [i \in Items |-> IF s[i] = "none" THEN u[i] ELSE s[i]],
   parent |-> p, cut |-> cut]

(* Only one task runs: the others stand where they wait or may suspend. *)
Parked == {"wait", "body", "queued", "saving", "unsaved", "over"} \cup mode.suspends
Turn(S) == status = "running" /\ \A j \in Items \ S : pc[j] \in Parked
At(i, place) == Turn({i}) /\ pc[i] = place
Goes(i, place) == pc' = [pc EXCEPT ![i] = place]
Ends(i, result) == Goes(i, "over") /\ outcome' = [outcome EXCEPT ![i] = result]

(* The semaphore: a saved merge does not pass it. *)
Slot == Cardinality({i \in Items \ again : pc[i] \notin {"wait", "over"}}) < mode.cap

-----------------------------------------------------------------------------
(***************************************************************************)
(* The start of an item's task (_gather_items, MapItemRunner.run).         *)
(***************************************************************************)
(* It is done: its record is its result. *)
TakeRecord(i) ==
  /\ At(i, "wait") /\ done[i] \in {"merged", "skipped", "failed"}
  /\ Ends(i, IF done[i] = "merged" THEN "ok" ELSE done[i])
  /\ UNCHANGED <<runVars, again, stateVars, disk>>

(* Its body completed and its merge did not happen: merge the saved scope.
   Without one it runs from the start (CheckpointsSound: there is one). *)
MergeSaved(i) ==
  /\ At(i, "wait") /\ done[i] = "completed"
  /\ IF saved[i] = "none"
       THEN /\ done' = [done EXCEPT ![i] = "none"]
            /\ UNCHANGED <<pc, again, scope, saved>>
       ELSE /\ Goes(i, "merge")
            /\ again' = again \cup {i}
            /\ scope' = [scope EXCEPT ![i] = "scope"]
            /\ saved' = [saved EXCEPT ![i] = "none"]
            /\ UNCHANGED done
  /\ UNCHANGED <<runVars, outcome, parent, lock, disk>>

Starts(i) == At(i, "wait") /\ done[i] = "none" /\ Slot

StopsBefore(i) ==
  /\ Starts(i) /\ halt
  /\ Ends(i, "interrupted")
  /\ UNCHANGED <<runVars, again, stateVars, disk>>

(* The region is cut short: an item that had not started is skipped. *)
ShortcutSkips(i) == cut /\ saved[i] = "none"

SkipsCut(i) ==
  /\ Starts(i) /\ ~halt /\ ShortcutSkips(i)
  /\ done' = [done EXCEPT ![i] = "skipped"]
  /\ Goes(i, "cutHook")
  /\ UNCHANGED <<runVars, again, outcome, scope, saved, parent, lock, disk>>

(* The guard is not asked of an item that a checkout saved as running. *)
Asked(i) == saved[i] = "none"

Enters(i) ==
  /\ Starts(i) /\ ~halt /\ ~ShortcutSkips(i)
  /\ IF Asked(i)
       THEN /\ Goes(i, "guard")
            /\ scope' = [scope EXCEPT ![i] = IF mode.scoped THEN "scope" ELSE "none"]
       ELSE /\ Goes(i, "body")
            /\ scope' = [scope EXCEPT ![i] = "body"]
  /\ saved' = [saved EXCEPT ![i] = "none"]
  /\ UNCHANGED <<runVars, again, outcome, done, parent, lock, disk>>

Admits(i) ==
  /\ At(i, "guard")
  /\ Goes(i, "body")
  /\ scope' = [scope EXCEPT ![i] = "body"]
  /\ UNCHANGED <<runVars, again, outcome, done, saved, parent, lock, disk>>

Refuses(i) ==
  /\ At(i, "guard")
  /\ Goes(i, "skipHook")
  /\ UNCHANGED <<runVars, again, outcome, stateVars, disk>>

(* on_item_complete returned: the record takes the place of the positions. *)
Skips(i) ==
  /\ At(i, "skipHook")
  /\ Ends(i, "skipped")
  /\ scope' = [scope EXCEPT ![i] = "none"]
  /\ done' = [done EXCEPT ![i] = "skipped"]
  /\ UNCHANGED <<runVars, again, saved, parent, lock, disk>>

SkippedCut(i) ==
  /\ At(i, "cutHook")
  /\ Ends(i, "skipped")
  /\ UNCHANGED <<runVars, again, stateVars, disk>>

-----------------------------------------------------------------------------
(***************************************************************************)
(* The body, the merge and the save.                                       *)
(***************************************************************************)
(* ctx.checkpoint(), from a body or from a hook that may suspend. *)
Checkpoint(i) ==
  /\ mode.checkpoints
  /\ Turn({i}) /\ pc[i] \in {"body"} \cup (mode.suspends \ {"guard", "merging"})
  /\ disk' = Capture(done, scope, saved, parent)
  /\ UNCHANGED <<runVars, taskVars, stateVars>>

(* Guard, projection or body raised. *)
Raises(i) ==
  /\ Turn({i}) /\ pc[i] \in {"guard", "body"}
  /\ Goes(i, "failHook")
  /\ UNCHANGED <<runVars, again, outcome, stateVars, disk>>

(* The halt stopped the body: everything stays registered where it is. *)
BodyStops(i) ==
  /\ At(i, "body") /\ halt
  /\ Ends(i, "interrupted")
  /\ UNCHANGED <<runVars, again, stateVars, disk>>

BodyReturns(i) ==
  /\ At(i, "body")
  /\ Goes(i, "merge")
  /\ done' = [done EXCEPT ![i] = IF mode.scoped THEN "completed" ELSE "merged"]
  /\ scope' = [scope EXCEPT ![i] = IF mode.scoped THEN "scope" ELSE "none"]
  /\ UNCHANGED <<runVars, again, outcome, saved, parent, lock, disk>>

(* The merge lock goes to whoever waits longest for it. *)
LockFree(i) ==
  /\ lock = None
  /\ \/ At(i, "merge") /\ \A j \in Items : pc[j] # "queued"
     \/ At(i, "queued")

Queues(i) ==
  /\ At(i, "merge") /\ ~LockFree(i)
  /\ Goes(i, "queued")
  /\ UNCHANGED <<runVars, again, outcome, stateVars, disk>>

(* merge_fn changes the parent's data, then may suspend. *)
Merges(i) ==
  /\ LockFree(i)
  /\ lock' = i
  /\ parent' = [parent EXCEPT ![i] = IF mode.scoped THEN @ + 1 ELSE @]
  /\ Goes(i, "merging")
  /\ UNCHANGED <<runVars, again, outcome, done, scope, saved, disk>>

(* It raised before it changed anything. *)
MergeRaises(i) ==
  /\ LockFree(i) /\ mode.scoped
  /\ done' = [done EXCEPT ![i] = "none"]
  /\ Goes(i, "failHook")
  /\ UNCHANGED <<runVars, again, outcome, scope, saved, parent, lock, disk>>

(* The record follows the merge, with nothing between them.  The policy save
   captures both at once, and keeps the lock until the store answers. *)
MergeRecord_None(i) == done[i]   \* variant: the merge is not recorded
MergeRecord(i) == "merged"

Merged(i) ==
  /\ At(i, "merging")
  /\ done' = [done EXCEPT ![i] = MergeRecord(i)]
  /\ scope' = [scope EXCEPT ![i] = "none"]
  /\ IF mode.policy
       THEN /\ UNCHANGED lock
            /\ \/ Goes(i, "saving") /\ disk' = Capture(done', scope', saved, parent)
               \/ Goes(i, "unsaved") /\ UNCHANGED disk
       ELSE lock' = None /\ Goes(i, "okHook") /\ UNCHANGED disk
  /\ UNCHANGED <<runVars, again, outcome, saved, parent>>

SaveReturns(i) ==
  /\ At(i, "saving")
  /\ Goes(i, "okHook")
  /\ lock' = None
  /\ UNCHANGED <<runVars, again, outcome, done, scope, saved, parent, disk>>

(* The policy save raised, its commit written or not: the record is dropped,
   the parent's data is put back as it was before the merge. *)
Restored_Not(i) == parent[i]         \* variant: no rollback
Restored(i) == IF mode.scoped THEN parent[i] - 1 ELSE parent[i]

Released_Not == lock                 \* variant: the lock is kept
Released == None

SaveRaises(i) ==
  /\ Turn({i}) /\ pc[i] \in {"saving", "unsaved"}
  /\ done' = [done EXCEPT ![i] = "none"]
  /\ parent' = [parent EXCEPT ![i] = Restored(i)]
  /\ lock' = Released
  /\ Goes(i, "failHook")
  /\ UNCHANGED <<runVars, again, outcome, scope, saved, disk>>

Returns(i) ==
  /\ At(i, "okHook")
  /\ Ends(i, "ok")
  /\ UNCHANGED <<runVars, again, stateVars, disk>>

(* on_error and on_item_complete returned.  Strict raises and leaves what is
   registered; else the Failure is the item's result and its record - but
   merge_saved returns it without one. *)
Fails(i) ==
  /\ At(i, "failHook")
  /\ Ends(i, IF mode.strict THEN "raised" ELSE "failed")
  /\ scope' = [scope EXCEPT ![i] = IF mode.strict /\ i \notin again THEN @ ELSE "none"]
  /\ done' = [done EXCEPT ![i] = IF mode.strict \/ i \in again THEN @ ELSE "failed"]
  /\ UNCHANGED <<runVars, again, saved, parent, lock, disk>>

-----------------------------------------------------------------------------
(***************************************************************************)
(* The end of the map and of the run, and the next session.                *)
(***************************************************************************)
AllOver == status = "running" /\ \A i \in Items : pc[i] = "over"
Some(result) == \E i \in Items : outcome[i] = result

(* The process keeps nothing: the next session starts from the checkpoint d. *)
Stop(d) ==
  /\ status' = "stopped" /\ halt' = FALSE /\ cut' = d.cut
  /\ pc' = [i \in Items |-> "wait"] /\ again' = {}
  /\ outcome' = [i \in Items |-> "none"]
  /\ done' = d.done /\ saved' = d.at /\ parent' = d.parent
  /\ scope' = [i \in Items |-> "none"] /\ lock' = None
  /\ disk' = d
  /\ UNCHANGED <<mode, sessions>>

(* A strict item raised, so the run does, and writes nothing. *)
MapRaises == AllOver /\ Some("raised") /\ Stop(disk)

(* The halt stopped an item: the run ends in its halt checkpoint. *)
Halted == AllOver /\ ~Some("raised") /\ Some("interrupted")
          /\ Stop(Capture(done, scope, saved, parent))

HaltCommitFails == AllOver /\ ~Some("raised") /\ Some("interrupted") /\ Stop(disk)

Aggregates ==
  /\ AllOver /\ ~Some("raised") /\ ~Some("interrupted")
  /\ status' = "finished"
  /\ UNCHANGED <<mode, sessions, halt, cut, taskVars, stateVars, disk>>

(* The process dies; also once the map is over, before the next save. *)
Crash == status # "stopped" /\ Stop(disk)

Resume ==
  /\ status = "stopped" /\ sessions < MaxSessions
  /\ status' = "running" /\ sessions' = sessions + 1
  /\ UNCHANGED <<mode, halt, cut, taskVars, stateVars, disk>>

SetHalt ==
  /\ Turn({}) /\ ~halt
  /\ halt' = TRUE
  /\ UNCHANGED <<mode, status, sessions, cut, taskVars, stateVars, disk>>

SetSignal ==
  /\ Turn({}) /\ ~cut
  /\ cut' = TRUE
  /\ UNCHANGED <<mode, status, sessions, halt, taskVars, stateVars, disk>>

Fresh == [done |-> [i \in Items |-> "none"], at |-> [i \in Items |-> "none"],
          parent |-> [i \in Items |-> 0], cut |-> FALSE]

Init ==
  /\ mode \in Modes
  /\ status = "running" /\ sessions = 1 /\ halt = FALSE /\ cut = FALSE
  /\ pc = [i \in Items |-> "wait"] /\ again = {}
  /\ outcome = [i \in Items |-> "none"]
  /\ done = Fresh.done /\ saved = Fresh.at /\ parent = Fresh.parent
  /\ scope = [i \in Items |-> "none"] /\ lock = None
  /\ disk = Fresh

(* What brings a task forward; the tasks and what they call do return. *)
Progress(i) ==
  \/ TakeRecord(i) \/ MergeSaved(i) \/ StopsBefore(i) \/ SkipsCut(i) \/ Enters(i)
  \/ Admits(i) \/ Refuses(i) \/ Skips(i) \/ SkippedCut(i)
  \/ Raises(i) \/ BodyStops(i) \/ BodyReturns(i)
  \/ Queues(i) \/ Merges(i) \/ MergeRaises(i) \/ Merged(i)
  \/ SaveReturns(i) \/ SaveRaises(i)
  \/ Returns(i) \/ Fails(i)

MapEnds == MapRaises \/ Halted \/ HaltCommitFails \/ Aggregates

Next ==
  \/ \E i \in Items : Progress(i) \/ Checkpoint(i)
  \/ MapEnds \/ Crash \/ Resume \/ SetHalt \/ SetSignal

Spec == Init /\ [][Next]_vars
FairSpec == Spec /\ (\A i \in Items : WF_vars(Progress(i))) /\ WF_vars(MapEnds)

-----------------------------------------------------------------------------
(***************************************************************************)
(* Properties.                                                             *)
(***************************************************************************)
Snapshot == [done : [Items -> Records], at : [Items -> Positions],
             parent : [Items -> Nat], cut : BOOLEAN]

TypeOK ==
  /\ mode \in Modes
  /\ status \in {"running", "stopped", "finished"} /\ sessions \in 1..MaxSessions
  /\ halt \in BOOLEAN /\ cut \in BOOLEAN
  /\ pc \in [Items -> Places] /\ again \subseteq Items
  /\ outcome \in [Items -> Outcomes]
  /\ done \in [Items -> Records]
  /\ scope \in [Items -> Positions] /\ saved \in [Items -> Positions]
  /\ parent \in [Items -> Nat]
  /\ lock \in Items \cup {None}
  /\ disk \in Snapshot

(* An item's scope is merged at most once, however often the run dies or is
   halted between its body and the end of the map; and the map hands on the
   merges of exactly the items that succeeded (_on_success). *)
MergedOnce ==
  \A i \in Items :
    /\ parent[i] <= 1
    /\ (status = "finished" /\ mode.scoped) => (parent[i] = 1) = (outcome[i] = "ok")

(* "every checkpoint holds a merge together with its record", and an item's
   positions or its record, never both; a record of a merge to come has the
   scope to merge (_on_success, run). *)
CheckpointsSound ==
  \A i \in Items :
    /\ mode.scoped => (disk.parent[i] = 1) = (disk.done[i] = "merged")
    /\ disk.done[i] = "completed" => disk.at[i] = "scope"
    /\ disk.done[i] \in {"merged", "skipped", "failed"} => disk.at[i] = "none"

(* "a completed item never runs again": nor does one the newest checkpoint
   holds as failed or skipped (_on_success, MapRunner). *)
NeverRunsAgain ==
  [][\A i \in Items :
       disk.done[i] # "none" => ~(pc[i] = "body" /\ pc'[i] = "merge")]_vars

(* Whatever raises, waits for a slot or for the merge lock, the map ends. *)
SessionEnds == status = "running" ~> status # "running"
=============================================================================
