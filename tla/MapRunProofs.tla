----------------------------- MODULE MapRunProofs -----------------------------
(***************************************************************************)
(* Proofs about MapRun, for any items, declarations and sessions.          *)
(***************************************************************************)
EXTENDS MapRun, TLAPS

(* A merge that suspends leaves a moment between the merge and its record.
   It is harmless where bodies and hooks take no checkpoint. *)
MergesUnseen == \A m \in Modes : m.checkpoints => "merging" \notin m.suspends

(* A record and the positions a snapshot may hold beside it. *)
Agree(record, at) ==
  /\ record = "completed" => mode.scoped /\ at = "scope"
  /\ record \in {"merged", "skipped", "failed"} => at = "none"

(* Where an item's task stands says what its record and its positions are. *)
Waits(i) == pc[i] = "wait" => scope[i] = "none" /\ Agree(done[i], saved[i])
Entered(i) == pc[i] \in {"guard", "skipHook", "body", "failHook"} =>
                saved[i] = "none" /\ done[i] = "none"
Skipped(i) == pc[i] = "cutHook" =>
                saved[i] = "none" /\ scope[i] = "none" /\ done[i] = "skipped"
Merging(i) == pc[i] \in {"merge", "queued", "merging"} =>
                /\ saved[i] = "none"
                /\ IF mode.scoped THEN done[i] = "completed" /\ scope[i] = "scope"
                   ELSE done[i] = "merged" /\ scope[i] = "none"
Recorded(i) == pc[i] \in {"saving", "unsaved", "okHook"} =>
                 saved[i] = "none" /\ scope[i] = "none" /\ done[i] = "merged"
Over(i) == pc[i] = "over" =>
             /\ done[i] # "completed"
             /\ done[i] # "none" => scope[i] = "none" /\ saved[i] = "none"
             /\ outcome[i] = "ok" <=> done[i] = "merged"

Located == \A i \in Items :
  Waits(i) /\ Entered(i) /\ Skipped(i) /\ Merging(i) /\ Recorded(i) /\ Over(i)

Locked == \A i \in Items : pc[i] \in {"merging", "saving", "unsaved"} => lock = i

(* How often an item's state was merged. *)
Counted == \A i \in Items :
  /\ ~mode.scoped => parent[i] = 0
  /\ mode.scoped /\ pc[i] \in {"merging", "saving", "unsaved"} => parent[i] > 0
  /\ mode.scoped /\ MergesUnseen =>
       parent[i] = IF pc[i] = "merging" \/ done[i] = "merged" THEN 1 ELSE 0

SavedWell == \A i \in Items :
  /\ Agree(disk.done[i], disk.at[i])
  /\ ~mode.scoped => disk.parent[i] = 0
  /\ mode.scoped /\ MergesUnseen =>
       disk.parent[i] = IF disk.done[i] = "merged" THEN 1 ELSE 0

(* What will run has no record in the newest checkpoint. *)
Unrecorded == \A i \in Items :
  pc[i] \in {"guard", "skipHook", "body"} \/ (pc[i] = "wait" /\ done[i] = "none") =>
    disk.done[i] = "none"

Finished == status = "finished" => \A i \in Items : pc[i] = "over"

IInv == TypeOK /\ Located /\ Locked /\ Counted /\ SavedWell /\ Unrecorded /\ Finished

-----------------------------------------------------------------------------
(* The steps: one case per action. *)

(* Where a task goes, its record and its positions go with it. *)
LEMMA LocatedStep == IInv /\ [Next]_vars => Located'
<1> SUFFICES ASSUME IInv, [Next]_vars PROVE Located'
  OBVIOUS
<1> USE DEF IInv, TypeOK, Located, Waits, Entered, Skipped, Merging, Recorded, Over,
        SavedWell, Agree, At, Turn, Goes, Ends, Parked, vars, runVars, taskVars, stateVars
<1>1. ASSUME NEW i \in Items, TakeRecord(i) PROVE Located'
  BY <1>1 DEF TakeRecord
<1>2. ASSUME NEW i \in Items, MergeSaved(i) PROVE Located'
  BY <1>2 DEF MergeSaved
<1>3. ASSUME NEW i \in Items, StopsBefore(i) PROVE Located'
  BY <1>3 DEF StopsBefore, Starts
<1>4. ASSUME NEW i \in Items, SkipsCut(i) PROVE Located'
  BY <1>4 DEF SkipsCut, Starts, ShortcutSkips
<1>5. ASSUME NEW i \in Items, Enters(i) PROVE Located'
  BY <1>5 DEF Enters, Starts, ShortcutSkips, Asked
<1>6. ASSUME NEW i \in Items, Admits(i) PROVE Located'
  BY <1>6 DEF Admits
<1>7. ASSUME NEW i \in Items, Refuses(i) PROVE Located'
  BY <1>7 DEF Refuses
<1>8. ASSUME NEW i \in Items, Skips(i) PROVE Located'
  BY <1>8 DEF Skips
<1>9. ASSUME NEW i \in Items, SkippedCut(i) PROVE Located'
  BY <1>9 DEF SkippedCut
<1>10. ASSUME NEW i \in Items, Raises(i) PROVE Located'
  BY <1>10 DEF Raises
<1>11. ASSUME NEW i \in Items, BodyStops(i) PROVE Located'
  BY <1>11 DEF BodyStops
<1>12. ASSUME NEW i \in Items, BodyReturns(i) PROVE Located'
  BY <1>12 DEF BodyReturns
<1>13. ASSUME NEW i \in Items, Queues(i) PROVE Located'
  BY <1>13 DEF Queues, LockFree
<1>14. ASSUME NEW i \in Items, Merges(i) PROVE Located'
  BY <1>14 DEF Merges, LockFree
<1>15. ASSUME NEW i \in Items, MergeRaises(i) PROVE Located'
  BY <1>15 DEF MergeRaises, LockFree
<1>16. ASSUME NEW i \in Items, Merged(i) PROVE Located'
  BY <1>16 DEF Merged, MergeRecord, Capture
<1>17. ASSUME NEW i \in Items, SaveReturns(i) PROVE Located'
  BY <1>17 DEF SaveReturns
<1>18. ASSUME NEW i \in Items, SaveRaises(i) PROVE Located'
  BY <1>18 DEF SaveRaises, Restored, Released
<1>19. ASSUME NEW i \in Items, Returns(i) PROVE Located'
  BY <1>19 DEF Returns
<1>20. ASSUME NEW i \in Items, Fails(i) PROVE Located'
  BY <1>20 DEF Fails
<1>21. ASSUME NEW i \in Items, Checkpoint(i) PROVE Located'
  BY <1>21 DEF Checkpoint, Capture
<1>22. CASE MapRaises
  BY <1>22 DEF MapRaises, Stop, AllOver
<1>23. CASE Halted
  BY <1>23 DEF Halted, Stop, AllOver, Capture
<1>24. CASE HaltCommitFails
  BY <1>24 DEF HaltCommitFails, Stop, AllOver
<1>25. CASE Crash
  BY <1>25 DEF Crash, Stop
<1>26. CASE Aggregates
  BY <1>26 DEF Aggregates, AllOver
<1>27. CASE Resume
  BY <1>27 DEF Resume
<1>28. CASE SetHalt
  BY <1>28 DEF SetHalt
<1>29. CASE SetSignal
  BY <1>29 DEF SetSignal
<1>30. CASE UNCHANGED vars
  BY <1>30
<1>31. QED

    BY <1>1, <1>2, <1>3, <1>4, <1>5, <1>6, <1>7, <1>8, <1>9, <1>10, <1>11, <1>12, <1>13, <1>14, <1>15,
    <1>16, <1>17, <1>18, <1>19, <1>20, <1>21, <1>22, <1>23, <1>24, <1>25, <1>26, <1>27,
    <1>28, <1>29, <1>30 DEF Next, Progress, MapEnds

(* Who merges or saves holds the lock, and a free lock is nobody's. *)
LEMMA LockedStep == IInv /\ [Next]_vars => Locked'
<1> SUFFICES ASSUME IInv, [Next]_vars PROVE Locked'
  OBVIOUS
<1> USE DEF IInv, TypeOK, Locked, At, Turn, Goes, Ends, Parked, vars, runVars, taskVars,
        stateVars
<1>1. ASSUME NEW i \in Items, TakeRecord(i) PROVE Locked'
  BY <1>1 DEF TakeRecord
<1>2. ASSUME NEW i \in Items, MergeSaved(i) PROVE Locked'
  BY <1>2 DEF MergeSaved
<1>3. ASSUME NEW i \in Items, StopsBefore(i) PROVE Locked'
  BY <1>3 DEF StopsBefore, Starts
<1>4. ASSUME NEW i \in Items, SkipsCut(i) PROVE Locked'
  BY <1>4 DEF SkipsCut, Starts, ShortcutSkips
<1>5. ASSUME NEW i \in Items, Enters(i) PROVE Locked'
  BY <1>5 DEF Enters, Starts, ShortcutSkips, Asked
<1>6. ASSUME NEW i \in Items, Admits(i) PROVE Locked'
  BY <1>6 DEF Admits
<1>7. ASSUME NEW i \in Items, Refuses(i) PROVE Locked'
  BY <1>7 DEF Refuses
<1>8. ASSUME NEW i \in Items, Skips(i) PROVE Locked'
  BY <1>8 DEF Skips
<1>9. ASSUME NEW i \in Items, SkippedCut(i) PROVE Locked'
  BY <1>9 DEF SkippedCut
<1>10. ASSUME NEW i \in Items, Raises(i) PROVE Locked'
  BY <1>10 DEF Raises
<1>11. ASSUME NEW i \in Items, BodyStops(i) PROVE Locked'
  BY <1>11 DEF BodyStops
<1>12. ASSUME NEW i \in Items, BodyReturns(i) PROVE Locked'
  BY <1>12 DEF BodyReturns
<1>13. ASSUME NEW i \in Items, Queues(i) PROVE Locked'
  BY <1>13 DEF Queues, LockFree
<1>14. ASSUME NEW i \in Items, Merges(i) PROVE Locked'
  BY <1>14, ItemsAssumption DEF Merges, LockFree
<1>15. ASSUME NEW i \in Items, MergeRaises(i) PROVE Locked'
  BY <1>15 DEF MergeRaises, LockFree
<1>16. ASSUME NEW i \in Items, Merged(i) PROVE Locked'
  BY <1>16 DEF Merged, MergeRecord, Capture
<1>17. ASSUME NEW i \in Items, SaveReturns(i) PROVE Locked'
  BY <1>17 DEF SaveReturns
<1>18. ASSUME NEW i \in Items, SaveRaises(i) PROVE Locked'
  BY <1>18 DEF SaveRaises, Restored, Released
<1>19. ASSUME NEW i \in Items, Returns(i) PROVE Locked'
  BY <1>19 DEF Returns
<1>20. ASSUME NEW i \in Items, Fails(i) PROVE Locked'
  BY <1>20 DEF Fails
<1>21. ASSUME NEW i \in Items, Checkpoint(i) PROVE Locked'
  BY <1>21 DEF Checkpoint, Capture
<1>22. CASE MapRaises
  BY <1>22 DEF MapRaises, Stop, AllOver
<1>23. CASE Halted
  BY <1>23 DEF Halted, Stop, AllOver, Capture
<1>24. CASE HaltCommitFails
  BY <1>24 DEF HaltCommitFails, Stop, AllOver
<1>25. CASE Crash
  BY <1>25 DEF Crash, Stop
<1>26. CASE Aggregates
  BY <1>26 DEF Aggregates, AllOver
<1>27. CASE Resume
  BY <1>27 DEF Resume
<1>28. CASE SetHalt
  BY <1>28 DEF SetHalt
<1>29. CASE SetSignal
  BY <1>29 DEF SetSignal
<1>30. CASE UNCHANGED vars
  BY <1>30
<1>31. QED

    BY <1>1, <1>2, <1>3, <1>4, <1>5, <1>6, <1>7, <1>8, <1>9, <1>10, <1>11, <1>12, <1>13, <1>14, <1>15,
    <1>16, <1>17, <1>18, <1>19, <1>20, <1>21, <1>22, <1>23, <1>24, <1>25, <1>26, <1>27,
    <1>28, <1>29, <1>30 DEF Next, Progress, MapEnds

(* The map ends with every task over. *)
LEMMA FinishedStep == IInv /\ [Next]_vars => Finished'
<1> SUFFICES ASSUME IInv, [Next]_vars PROVE Finished'
  OBVIOUS
<1> USE DEF IInv, TypeOK, Finished, At, Turn, Goes, Ends, Parked, vars, runVars, taskVars,
        stateVars
<1>1. ASSUME NEW i \in Items, TakeRecord(i) PROVE Finished'
  BY <1>1 DEF TakeRecord
<1>2. ASSUME NEW i \in Items, MergeSaved(i) PROVE Finished'
  BY <1>2 DEF MergeSaved
<1>3. ASSUME NEW i \in Items, StopsBefore(i) PROVE Finished'
  BY <1>3 DEF StopsBefore, Starts
<1>4. ASSUME NEW i \in Items, SkipsCut(i) PROVE Finished'
  BY <1>4 DEF SkipsCut, Starts, ShortcutSkips
<1>5. ASSUME NEW i \in Items, Enters(i) PROVE Finished'
  BY <1>5 DEF Enters, Starts, ShortcutSkips, Asked
<1>6. ASSUME NEW i \in Items, Admits(i) PROVE Finished'
  BY <1>6 DEF Admits
<1>7. ASSUME NEW i \in Items, Refuses(i) PROVE Finished'
  BY <1>7 DEF Refuses
<1>8. ASSUME NEW i \in Items, Skips(i) PROVE Finished'
  BY <1>8 DEF Skips
<1>9. ASSUME NEW i \in Items, SkippedCut(i) PROVE Finished'
  BY <1>9 DEF SkippedCut
<1>10. ASSUME NEW i \in Items, Raises(i) PROVE Finished'
  BY <1>10 DEF Raises
<1>11. ASSUME NEW i \in Items, BodyStops(i) PROVE Finished'
  BY <1>11 DEF BodyStops
<1>12. ASSUME NEW i \in Items, BodyReturns(i) PROVE Finished'
  BY <1>12 DEF BodyReturns
<1>13. ASSUME NEW i \in Items, Queues(i) PROVE Finished'
  BY <1>13 DEF Queues, LockFree
<1>14. ASSUME NEW i \in Items, Merges(i) PROVE Finished'
  BY <1>14 DEF Merges, LockFree
<1>15. ASSUME NEW i \in Items, MergeRaises(i) PROVE Finished'
  BY <1>15 DEF MergeRaises, LockFree
<1>16. ASSUME NEW i \in Items, Merged(i) PROVE Finished'
  BY <1>16 DEF Merged, MergeRecord, Capture
<1>17. ASSUME NEW i \in Items, SaveReturns(i) PROVE Finished'
  BY <1>17 DEF SaveReturns
<1>18. ASSUME NEW i \in Items, SaveRaises(i) PROVE Finished'
  BY <1>18 DEF SaveRaises, Restored, Released
<1>19. ASSUME NEW i \in Items, Returns(i) PROVE Finished'
  BY <1>19 DEF Returns
<1>20. ASSUME NEW i \in Items, Fails(i) PROVE Finished'
  BY <1>20 DEF Fails
<1>21. ASSUME NEW i \in Items, Checkpoint(i) PROVE Finished'
  BY <1>21 DEF Checkpoint, Capture
<1>22. CASE MapRaises
  BY <1>22 DEF MapRaises, Stop, AllOver
<1>23. CASE Halted
  BY <1>23 DEF Halted, Stop, AllOver, Capture
<1>24. CASE HaltCommitFails
  BY <1>24 DEF HaltCommitFails, Stop, AllOver
<1>25. CASE Crash
  BY <1>25 DEF Crash, Stop
<1>26. CASE Aggregates
  BY <1>26 DEF Aggregates, AllOver
<1>27. CASE Resume
  BY <1>27 DEF Resume
<1>28. CASE SetHalt
  BY <1>28 DEF SetHalt
<1>29. CASE SetSignal
  BY <1>29 DEF SetSignal
<1>30. CASE UNCHANGED vars
  BY <1>30
<1>31. QED

    BY <1>1, <1>2, <1>3, <1>4, <1>5, <1>6, <1>7, <1>8, <1>9, <1>10, <1>11, <1>12, <1>13, <1>14, <1>15,
    <1>16, <1>17, <1>18, <1>19, <1>20, <1>21, <1>22, <1>23, <1>24, <1>25, <1>26, <1>27,
    <1>28, <1>29, <1>30 DEF Next, Progress, MapEnds

(* A checkpoint writes no record of a task that still will run. *)
LEMMA UnrecordedStep == IInv /\ [Next]_vars => Unrecorded'
<1> SUFFICES ASSUME IInv, [Next]_vars PROVE Unrecorded'
  OBVIOUS
<1> USE DEF IInv, TypeOK, Snapshot, Unrecorded, Located, Waits, Entered, SavedWell, Agree,
        At, Turn, Goes, Ends, Parked, vars, runVars, taskVars, stateVars
<1>1. ASSUME NEW i \in Items, TakeRecord(i) PROVE Unrecorded'
  BY <1>1 DEF TakeRecord
<1>2. ASSUME NEW i \in Items, MergeSaved(i) PROVE Unrecorded'
  BY <1>2 DEF MergeSaved
<1>3. ASSUME NEW i \in Items, StopsBefore(i) PROVE Unrecorded'
  BY <1>3 DEF StopsBefore, Starts
<1>4. ASSUME NEW i \in Items, SkipsCut(i) PROVE Unrecorded'
  BY <1>4 DEF SkipsCut, Starts, ShortcutSkips
<1>5. ASSUME NEW i \in Items, Enters(i) PROVE Unrecorded'
  BY <1>5 DEF Enters, Starts, ShortcutSkips, Asked
<1>6. ASSUME NEW i \in Items, Admits(i) PROVE Unrecorded'
  BY <1>6 DEF Admits
<1>7. ASSUME NEW i \in Items, Refuses(i) PROVE Unrecorded'
  BY <1>7 DEF Refuses
<1>8. ASSUME NEW i \in Items, Skips(i) PROVE Unrecorded'
  BY <1>8 DEF Skips
<1>9. ASSUME NEW i \in Items, SkippedCut(i) PROVE Unrecorded'
  BY <1>9 DEF SkippedCut
<1>10. ASSUME NEW i \in Items, Raises(i) PROVE Unrecorded'
  BY <1>10 DEF Raises
<1>11. ASSUME NEW i \in Items, BodyStops(i) PROVE Unrecorded'
  BY <1>11 DEF BodyStops
<1>12. ASSUME NEW i \in Items, BodyReturns(i) PROVE Unrecorded'
  BY <1>12 DEF BodyReturns
<1>13. ASSUME NEW i \in Items, Queues(i) PROVE Unrecorded'
  BY <1>13 DEF Queues, LockFree
<1>14. ASSUME NEW i \in Items, Merges(i) PROVE Unrecorded'
  BY <1>14 DEF Merges, LockFree
<1>15. ASSUME NEW i \in Items, MergeRaises(i) PROVE Unrecorded'
  BY <1>15 DEF MergeRaises, LockFree
<1>16. ASSUME NEW i \in Items, Merged(i) PROVE Unrecorded'
  BY <1>16 DEF Merged, MergeRecord, Capture
<1>17. ASSUME NEW i \in Items, SaveReturns(i) PROVE Unrecorded'
  BY <1>17 DEF SaveReturns
<1>18. ASSUME NEW i \in Items, SaveRaises(i) PROVE Unrecorded'
  BY <1>18 DEF SaveRaises, Restored, Released
<1>19. ASSUME NEW i \in Items, Returns(i) PROVE Unrecorded'
  BY <1>19 DEF Returns
<1>20. ASSUME NEW i \in Items, Fails(i) PROVE Unrecorded'
  BY <1>20 DEF Fails
<1>21. ASSUME NEW i \in Items, Checkpoint(i) PROVE Unrecorded'
  BY <1>21 DEF Checkpoint, Capture
<1>22. CASE MapRaises
  BY <1>22 DEF MapRaises, Stop, AllOver
<1>23. CASE Halted
  BY <1>23 DEF Halted, Stop, AllOver, Capture
<1>24. CASE HaltCommitFails
  BY <1>24 DEF HaltCommitFails, Stop, AllOver
<1>25. CASE Crash
  BY <1>25 DEF Crash, Stop
<1>26. CASE Aggregates
  BY <1>26 DEF Aggregates, AllOver
<1>27. CASE Resume
  BY <1>27 DEF Resume
<1>28. CASE SetHalt
  BY <1>28 DEF SetHalt
<1>29. CASE SetSignal
  BY <1>29 DEF SetSignal
<1>30. CASE UNCHANGED vars
  BY <1>30
<1>31. QED

    BY <1>1, <1>2, <1>3, <1>4, <1>5, <1>6, <1>7, <1>8, <1>9, <1>10, <1>11, <1>12, <1>13, <1>14, <1>15,
    <1>16, <1>17, <1>18, <1>19, <1>20, <1>21, <1>22, <1>23, <1>24, <1>25, <1>26, <1>27,
    <1>28, <1>29, <1>30 DEF Next, Progress, MapEnds

(* A merge and its record, or its rollback, keep the count. *)
LEMMA CountedStep == IInv /\ [Next]_vars => Counted'
<1> SUFFICES ASSUME IInv, [Next]_vars PROVE Counted'
  OBVIOUS
<1> USE DEF IInv, TypeOK, Counted, Located, Waits, Entered, Skipped, Merging, Recorded,
        Over, Locked, SavedWell, At, Turn, Goes, Ends, Parked, vars, runVars, taskVars,
        stateVars
<1>1. ASSUME NEW i \in Items, TakeRecord(i) PROVE Counted'
  BY <1>1 DEF TakeRecord
<1>2. ASSUME NEW i \in Items, MergeSaved(i) PROVE Counted'
  BY <1>2 DEF MergeSaved
<1>3. ASSUME NEW i \in Items, StopsBefore(i) PROVE Counted'
  BY <1>3 DEF StopsBefore, Starts
<1>4. ASSUME NEW i \in Items, SkipsCut(i) PROVE Counted'
  BY <1>4 DEF SkipsCut, Starts, ShortcutSkips
<1>5. ASSUME NEW i \in Items, Enters(i) PROVE Counted'
  BY <1>5 DEF Enters, Starts, ShortcutSkips, Asked
<1>6. ASSUME NEW i \in Items, Admits(i) PROVE Counted'
  BY <1>6 DEF Admits
<1>7. ASSUME NEW i \in Items, Refuses(i) PROVE Counted'
  BY <1>7 DEF Refuses
<1>8. ASSUME NEW i \in Items, Skips(i) PROVE Counted'
  BY <1>8 DEF Skips
<1>9. ASSUME NEW i \in Items, SkippedCut(i) PROVE Counted'
  BY <1>9 DEF SkippedCut
<1>10. ASSUME NEW i \in Items, Raises(i) PROVE Counted'
  BY <1>10 DEF Raises
<1>11. ASSUME NEW i \in Items, BodyStops(i) PROVE Counted'
  BY <1>11 DEF BodyStops
<1>12. ASSUME NEW i \in Items, BodyReturns(i) PROVE Counted'
  BY <1>12 DEF BodyReturns
<1>13. ASSUME NEW i \in Items, Queues(i) PROVE Counted'
  BY <1>13 DEF Queues, LockFree
<1>14. ASSUME NEW i \in Items, Merges(i) PROVE Counted'
  BY <1>14 DEF Merges, LockFree
<1>15. ASSUME NEW i \in Items, MergeRaises(i) PROVE Counted'
  BY <1>15 DEF MergeRaises, LockFree
<1>16. ASSUME NEW i \in Items, Merged(i) PROVE Counted'
  BY <1>16 DEF Merged, MergeRecord, Capture
<1>17. ASSUME NEW i \in Items, SaveReturns(i) PROVE Counted'
  BY <1>17 DEF SaveReturns
<1>18. ASSUME NEW i \in Items, SaveRaises(i) PROVE Counted'
  BY <1>18 DEF SaveRaises, Restored, Released
<1>19. ASSUME NEW i \in Items, Returns(i) PROVE Counted'
  BY <1>19 DEF Returns
<1>20. ASSUME NEW i \in Items, Fails(i) PROVE Counted'
  BY <1>20 DEF Fails
<1>21. ASSUME NEW i \in Items, Checkpoint(i) PROVE Counted'
  BY <1>21 DEF Checkpoint, Capture
<1>22. CASE MapRaises
  BY <1>22 DEF MapRaises, Stop, AllOver
<1>23. CASE Halted
  BY <1>23 DEF Halted, Stop, AllOver, Capture
<1>24. CASE HaltCommitFails
  BY <1>24 DEF HaltCommitFails, Stop, AllOver
<1>25. CASE Crash
  BY <1>25 DEF Crash, Stop
<1>26. CASE Aggregates
  BY <1>26 DEF Aggregates, AllOver
<1>27. CASE Resume
  BY <1>27 DEF Resume
<1>28. CASE SetHalt
  BY <1>28 DEF SetHalt
<1>29. CASE SetSignal
  BY <1>29 DEF SetSignal
<1>30. CASE UNCHANGED vars
  BY <1>30
<1>31. QED

    BY <1>1, <1>2, <1>3, <1>4, <1>5, <1>6, <1>7, <1>8, <1>9, <1>10, <1>11, <1>12, <1>13, <1>14, <1>15,
    <1>16, <1>17, <1>18, <1>19, <1>20, <1>21, <1>22, <1>23, <1>24, <1>25, <1>26, <1>27,
    <1>28, <1>29, <1>30 DEF Next, Progress, MapEnds

(* What is saved agrees: nobody is between a merge and its record, unless unseen. *)
LEMMA SavedWellStep == IInv /\ [Next]_vars => SavedWell'
<1> SUFFICES ASSUME IInv, [Next]_vars PROVE SavedWell'
  OBVIOUS
<1> USE DEF IInv, TypeOK, Snapshot, Places, Hooks, SavedWell, Counted, Located, Waits,
        Entered, Skipped, Merging, Recorded, Over, Locked, Agree, At, Turn, Goes, Ends,
        Parked, vars, runVars, taskVars, stateVars
<1>1. ASSUME NEW i \in Items, TakeRecord(i) PROVE SavedWell'
  BY <1>1 DEF TakeRecord
<1>2. ASSUME NEW i \in Items, MergeSaved(i) PROVE SavedWell'
  BY <1>2 DEF MergeSaved
<1>3. ASSUME NEW i \in Items, StopsBefore(i) PROVE SavedWell'
  BY <1>3 DEF StopsBefore, Starts
<1>4. ASSUME NEW i \in Items, SkipsCut(i) PROVE SavedWell'
  BY <1>4 DEF SkipsCut, Starts, ShortcutSkips
<1>5. ASSUME NEW i \in Items, Enters(i) PROVE SavedWell'
  BY <1>5 DEF Enters, Starts, ShortcutSkips, Asked
<1>6. ASSUME NEW i \in Items, Admits(i) PROVE SavedWell'
  BY <1>6 DEF Admits
<1>7. ASSUME NEW i \in Items, Refuses(i) PROVE SavedWell'
  BY <1>7 DEF Refuses
<1>8. ASSUME NEW i \in Items, Skips(i) PROVE SavedWell'
  BY <1>8 DEF Skips
<1>9. ASSUME NEW i \in Items, SkippedCut(i) PROVE SavedWell'
  BY <1>9 DEF SkippedCut
<1>10. ASSUME NEW i \in Items, Raises(i) PROVE SavedWell'
  BY <1>10 DEF Raises
<1>11. ASSUME NEW i \in Items, BodyStops(i) PROVE SavedWell'
  BY <1>11 DEF BodyStops
<1>12. ASSUME NEW i \in Items, BodyReturns(i) PROVE SavedWell'
  BY <1>12 DEF BodyReturns
<1>13. ASSUME NEW i \in Items, Queues(i) PROVE SavedWell'
  BY <1>13 DEF Queues, LockFree
<1>14. ASSUME NEW i \in Items, Merges(i) PROVE SavedWell'
  BY <1>14 DEF Merges, LockFree
<1>15. ASSUME NEW i \in Items, MergeRaises(i) PROVE SavedWell'
  BY <1>15 DEF MergeRaises, LockFree
<1>16. ASSUME NEW i \in Items, Merged(i) PROVE SavedWell'
  <2>1. \A j \in Items : j # i => pc[j] # "merging"
    BY <1>16 DEF Merged
  <2>2. \A j \in Items : mode.scoped /\ MergesUnseen =>
          parent[j] = IF done'[j] = "merged" THEN 1 ELSE 0
    BY <1>16, <2>1 DEF Merged, MergeRecord
  <2>3. \A j \in Items : Agree(done'[j], IF scope'[j] = "none" THEN saved[j] ELSE scope'[j])
    BY <1>16, <2>1 DEF Merged, MergeRecord
  <2>4. disk' = disk \/ disk' = Capture(done', scope', saved, parent)
    BY <1>16 DEF Merged
  <2>5. UNCHANGED mode
    BY <1>16 DEF Merged
  <2>. QED
    BY <2>2, <2>3, <2>4, <2>5 DEF Capture
<1>17. ASSUME NEW i \in Items, SaveReturns(i) PROVE SavedWell'
  BY <1>17 DEF SaveReturns
<1>18. ASSUME NEW i \in Items, SaveRaises(i) PROVE SavedWell'
  BY <1>18 DEF SaveRaises, Restored, Released
<1>19. ASSUME NEW i \in Items, Returns(i) PROVE SavedWell'
  BY <1>19 DEF Returns
<1>20. ASSUME NEW i \in Items, Fails(i) PROVE SavedWell'
  BY <1>20 DEF Fails
<1>21. ASSUME NEW i \in Items, Checkpoint(i) PROVE SavedWell'
  <2>1. MergesUnseen => \A j \in Items : pc[j] # "merging"
    BY <1>21 DEF Checkpoint, MergesUnseen
  <2>2. \A j \in Items : Agree(done[j], IF scope[j] = "none" THEN saved[j] ELSE scope[j])
    OBVIOUS
  <2>. QED
    BY <1>21, <2>1, <2>2 DEF Checkpoint, Capture
<1>22. CASE MapRaises
  BY <1>22 DEF MapRaises, Stop, AllOver
<1>23. CASE Halted
  BY <1>23 DEF Halted, Stop, AllOver, Capture
<1>24. CASE HaltCommitFails
  BY <1>24 DEF HaltCommitFails, Stop, AllOver
<1>25. CASE Crash
  BY <1>25 DEF Crash, Stop
<1>26. CASE Aggregates
  BY <1>26 DEF Aggregates, AllOver
<1>27. CASE Resume
  BY <1>27 DEF Resume
<1>28. CASE SetHalt
  BY <1>28 DEF SetHalt
<1>29. CASE SetSignal
  BY <1>29 DEF SetSignal
<1>30. CASE UNCHANGED vars
  BY <1>30
<1>31. QED

    BY <1>1, <1>2, <1>3, <1>4, <1>5, <1>6, <1>7, <1>8, <1>9, <1>10, <1>11, <1>12, <1>13, <1>14, <1>15,
    <1>16, <1>17, <1>18, <1>19, <1>20, <1>21, <1>22, <1>23, <1>24, <1>25, <1>26, <1>27,
    <1>28, <1>29, <1>30 DEF Next, Progress, MapEnds

(* Types.  The count of a merge taken back was positive. *)
LEMMA TypeStep == IInv /\ [Next]_vars => TypeOK'
<1> SUFFICES ASSUME IInv, [Next]_vars PROVE TypeOK'
  OBVIOUS
<1> USE DEF IInv, TypeOK, Snapshot, ModeRecord, Hooks, Places, Records, Positions, Outcomes,
        Counted, At, Turn, Goes, Ends, Parked, vars, runVars, taskVars, stateVars
<1>1. ASSUME NEW i \in Items, TakeRecord(i) PROVE TypeOK'
  BY <1>1, ModesAssumption DEF TakeRecord
<1>2. ASSUME NEW i \in Items, MergeSaved(i) PROVE TypeOK'
  BY <1>2, ModesAssumption DEF MergeSaved
<1>3. ASSUME NEW i \in Items, StopsBefore(i) PROVE TypeOK'
  BY <1>3, ModesAssumption DEF StopsBefore, Starts
<1>4. ASSUME NEW i \in Items, SkipsCut(i) PROVE TypeOK'
  BY <1>4, ModesAssumption DEF SkipsCut, Starts, ShortcutSkips
<1>5. ASSUME NEW i \in Items, Enters(i) PROVE TypeOK'
  BY <1>5, ModesAssumption DEF Enters, Starts, ShortcutSkips, Asked
<1>6. ASSUME NEW i \in Items, Admits(i) PROVE TypeOK'
  BY <1>6, ModesAssumption DEF Admits
<1>7. ASSUME NEW i \in Items, Refuses(i) PROVE TypeOK'
  BY <1>7, ModesAssumption DEF Refuses
<1>8. ASSUME NEW i \in Items, Skips(i) PROVE TypeOK'
  BY <1>8, ModesAssumption DEF Skips
<1>9. ASSUME NEW i \in Items, SkippedCut(i) PROVE TypeOK'
  BY <1>9, ModesAssumption DEF SkippedCut
<1>10. ASSUME NEW i \in Items, Raises(i) PROVE TypeOK'
  BY <1>10, ModesAssumption DEF Raises
<1>11. ASSUME NEW i \in Items, BodyStops(i) PROVE TypeOK'
  BY <1>11, ModesAssumption DEF BodyStops
<1>12. ASSUME NEW i \in Items, BodyReturns(i) PROVE TypeOK'
  BY <1>12, ModesAssumption DEF BodyReturns
<1>13. ASSUME NEW i \in Items, Queues(i) PROVE TypeOK'
  BY <1>13, ModesAssumption DEF Queues, LockFree
<1>14. ASSUME NEW i \in Items, Merges(i) PROVE TypeOK'
  BY <1>14, ModesAssumption DEF Merges, LockFree
<1>15. ASSUME NEW i \in Items, MergeRaises(i) PROVE TypeOK'
  BY <1>15, ModesAssumption DEF MergeRaises, LockFree
<1>16. ASSUME NEW i \in Items, Merged(i) PROVE TypeOK'
  BY <1>16, ModesAssumption DEF Merged, MergeRecord, Capture
<1>17. ASSUME NEW i \in Items, SaveReturns(i) PROVE TypeOK'
  BY <1>17, ModesAssumption DEF SaveReturns
<1>18. ASSUME NEW i \in Items, SaveRaises(i) PROVE TypeOK'
  BY <1>18, ModesAssumption DEF SaveRaises, Restored, Released
<1>19. ASSUME NEW i \in Items, Returns(i) PROVE TypeOK'
  BY <1>19, ModesAssumption DEF Returns
<1>20. ASSUME NEW i \in Items, Fails(i) PROVE TypeOK'
  BY <1>20, ModesAssumption DEF Fails
<1>21. ASSUME NEW i \in Items, Checkpoint(i) PROVE TypeOK'
  BY <1>21, ModesAssumption DEF Checkpoint, Capture
<1>22. CASE MapRaises
  BY <1>22, ModesAssumption DEF MapRaises, Stop, AllOver
<1>23. CASE Halted
  BY <1>23, ModesAssumption DEF Halted, Stop, AllOver, Capture
<1>24. CASE HaltCommitFails
  BY <1>24, ModesAssumption DEF HaltCommitFails, Stop, AllOver
<1>25. CASE Crash
  BY <1>25, ModesAssumption DEF Crash, Stop
<1>26. CASE Aggregates
  BY <1>26, ModesAssumption DEF Aggregates, AllOver
<1>27. CASE Resume
  BY <1>27, ItemsAssumption DEF Resume
<1>28. CASE SetHalt
  BY <1>28, ModesAssumption DEF SetHalt
<1>29. CASE SetSignal
  BY <1>29, ModesAssumption DEF SetSignal
<1>30. CASE UNCHANGED vars
  BY <1>30, ModesAssumption
<1>31. QED

    BY <1>1, <1>2, <1>3, <1>4, <1>5, <1>6, <1>7, <1>8, <1>9, <1>10, <1>11, <1>12, <1>13, <1>14, <1>15,
    <1>16, <1>17, <1>18, <1>19, <1>20, <1>21, <1>22, <1>23, <1>24, <1>25, <1>26, <1>27,
    <1>28, <1>29, <1>30 DEF Next, Progress, MapEnds
-----------------------------------------------------------------------------
(* The start: a fresh run has no record, no position and no merge. *)
LEMMA InitInv == Init => IInv
<1> SUFFICES ASSUME Init PROVE IInv
  OBVIOUS
<1> USE DEF Init, Fresh
<1>1. /\ done = [i \in Items |-> "none"] /\ saved = [i \in Items |-> "none"]
      /\ parent = [i \in Items |-> 0] /\ cut = FALSE
      /\ disk = [done |-> done, at |-> saved, parent |-> parent, cut |-> cut]
  OBVIOUS
<1>2. TypeOK
  <2>1. disk \in Snapshot
    BY <1>1 DEF Snapshot, Records, Positions
  <2>2. /\ pc \in [Items -> Places] /\ outcome \in [Items -> Outcomes]
        /\ done \in [Items -> Records]
        /\ scope \in [Items -> Positions] /\ saved \in [Items -> Positions]
    BY <1>1 DEF Places, Outcomes, Records, Positions
  <2>3. sessions \in 1..MaxSessions
    BY ItemsAssumption
  <2>4. parent \in [Items -> Nat]
    BY <1>1
  <2>5. halt \in BOOLEAN /\ cut \in BOOLEAN
    OBVIOUS
  <2>6. mode \in Modes /\ again \subseteq Items /\ lock \in Items \cup {None}
    OBVIOUS
  <2>. QED
    BY <2>1, <2>2, <2>3, <2>4, <2>5, <2>6 DEF TypeOK
<1>3. Located /\ Locked /\ Counted /\ Unrecorded /\ Finished
  BY <1>1 DEF Located, Waits, Entered, Skipped, Merging, Recorded, Over, Locked, Counted,
              Agree, Unrecorded, Finished
<1>4. SavedWell
  BY <1>1 DEF SavedWell, Agree
<1>. QED
  BY <1>2, <1>3, <1>4 DEF IInv

(* Every step keeps the whole of it, and so every run has it. *)
LEMMA Inductive == IInv /\ [Next]_vars => IInv'
  BY TypeStep, LocatedStep, LockedStep, CountedStep, SavedWellStep, UnrecordedStep,
     FinishedStep DEF IInv

(* The invariant of every reachable state. *)
LEMMA Invariant == Spec => []IInv
  BY InitInv, Inductive, PTL DEF Spec

(* Every variable keeps its type, whatever raises, halts or crashes: a merge
   that is rolled back had been counted (_restore_state_data). *)
THEOREM TypeCorrect == Spec => []TypeOK
<1>1. IInv => TypeOK
  BY DEF IInv
<1>. QED
  BY <1>1, Invariant, PTL

(* For any number of items and sessions an item's scope is merged at most
   once, and a map that ends hands on the merges of those that succeeded, if
   no checkpoint is taken while a merge is suspended (_on_success). *)
THEOREM MergesOnce == ASSUME MergesUnseen PROVE Spec => []MergedOnce
<1>1. IInv => MergedOnce
  BY MergesUnseen
  DEF IInv, TypeOK, Counted, Finished, Located, Over, MergedOnce
<1>. QED
  BY <1>1, Invariant, PTL

(* Under the same condition every checkpoint holds a merge together with its
   record, and positions or a record but never both (_merge_and_save). *)
THEOREM CheckpointsAgree == ASSUME MergesUnseen PROVE Spec => []CheckpointsSound
<1>1. IInv => CheckpointsSound
  BY MergesUnseen
  DEF IInv, TypeOK, Snapshot, SavedWell, Agree, CheckpointsSound
<1>. QED
  BY <1>1, Invariant, PTL

(* An item the newest checkpoint holds as completed, merged, skipped or
   failed never runs its body again, however its merge suspends. *)
THEOREM RunsOnce == Spec => NeverRunsAgain
<1>1. IInv => ~(\E i \in Items : disk.done[i] # "none" /\ pc[i] = "body")
  BY DEF IInv, Unrecorded
<1>2. IInv /\ [Next]_vars =>
        [\A i \in Items : disk.done[i] # "none" => ~(pc[i] = "body" /\ pc'[i] = "merge")]_vars
  BY <1>1
<1>. QED
  BY <1>2, Invariant, PTL DEF Spec, NeverRunsAgain
=============================================================================
