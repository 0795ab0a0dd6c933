---------------------------- MODULE LabelerProofs ----------------------------
(***************************************************************************)
(* Proofs about Labeler: type correctness, what the cursor row and the     *)
(* backfill's positions cover, the end of replaced generations, and the    *)
(* refinement of CursorLog.                                                *)
(***************************************************************************)
EXTENDS Labeler, TLAPS

\* What the provers need of the index sets, which stay folded elsewhere.
LEMMA Indices ==
    /\ 0 \in Positions /\ Seqs \subseteq Positions /\ Positions \subseteq Nat
    /\ Sentinel < 0 /\ Sentinel \in Int
    /\ Gens \subseteq Nat \ {0} /\ MaxGens \in Gens
    /\ \A t \in Positions : t # 0 => t \in Seqs
    /\ \A h \in Positions : h < N => h + 1 \in Positions
    /\ \A r, h \in Positions : r < h => r + 1 \in Seqs /\ r + 1 \in Positions
    /\ \A o \in 1 .. N + 1 : o - 1 \in Positions
    /\ \A g \in 0 .. MaxGens : g # 0 => g \in Gens
    /\ \A g \in 0 .. MaxGens : g < MaxGens => g + 1 \in Gens /\ g + 1 \in 0 .. MaxGens
    /\ \A g \in Gens : g \in 0 .. MaxGens
  BY LabelerAssumption DEF Positions, Seqs, Sentinel, Gens

-----------------------------------------------------------------------------
\* The inductive invariant.  A generation's pipe holds the frames that were read
\* and not yet dealt with: with Client.Run, in the channel, with processEvents.
Covered(v) == \A t \in Seqs : t <= v => fate[t] # "none"
SeenTo(v) == \A t \in Seqs : t <= v => fate[t] \notin {"none", "missed"}

Busy(g) == wpc[g] \in {"handle", "advance"}

Reading == mpc \in {"read", "send"}

InPipe(g, t) ==
    t \in buf[g] \/ (Busy(g) /\ t = wev[g]) \/ (g = gen /\ mpc = "send" /\ t = recvd)

\* A goroutine that has a frame in hand has one, and Client.Run is one of a
\* generation.
InHand ==
    /\ Reading => gen \in Gens
    /\ mpc = "send" => recvd \in Seqs
    /\ \A g \in Gens : Busy(g) => wev[g] \in Seqs

\* Generations to come have done nothing, those that are over are closed.
Generations ==
    \A g \in Gens :
        /\ g > gen => wpc[g] = "off" /\ fpc[g] = "off" /\ buf[g] = {}
        /\ g <= gen => g \in closed \/ (g = gen /\ Reading)

\* Every copy of the cursor is covered: the row, the field, the value a flusher
\* is about to save, the one Client.Run resumes from; and every position of the
\* backfill.
CopiesCovered ==
    /\ Covered(saved) /\ Covered(cursor) /\ Covered(start) /\ SeenTo(ckpt)
    /\ \A g \in Gens : Covered(fval[g])
    /\ mpc \in {"page", "clear", "sentinel"} => SeenTo(page)

\* Nothing falls out of a pipe: what was read is settled or still in the pipe,
\* and so is everything before a frame in the pipe.
PipeComplete(g) ==
    \A t \in Seqs :
        /\ Reading /\ g = gen /\ t <= recvd => fate[t] # "none" \/ InPipe(g, t)
        /\ \A e \in Seqs : InPipe(g, e) /\ t < e => fate[t] # "none" \/ InPipe(g, t)

\* The pipe is in order: processEvents, then the channel, then Client.Run.
PipeOrdered(g) ==
    /\ \A x \in buf[g] : Busy(g) => wev[g] < x
    /\ \A x \in buf[g] : g = gen /\ mpc = "send" => x < recvd
    /\ Busy(g) /\ g = gen /\ mpc = "send" => wev[g] < recvd
    /\ \A t \in Seqs : Reading /\ g = gen /\ InPipe(g, t) => t <= recvd
    /\ wpc[g] = "advance" => fate[wev[g]] = "stored"

PipeInv(g) == PipeComplete(g) /\ PipeOrdered(g)

\* Only a frame with stored labels becomes the cursor, and so the row.
IsStored(v) == v > 0 => v \in Stored

CopiesStored == IsStored(cursor) /\ IsStored(saved) /\ \A g \in Gens : IsStored(fval[g])

IInv ==
    /\ TypeOK /\ InHand /\ Generations /\ CopiesCovered /\ CopiesStored
    /\ \A g \in Gens : PipeInv(g)

-----------------------------------------------------------------------------
\* Every step keeps the type invariant.
LEMMA TypeStep == ASSUME TypeOK, InHand, [Next]_vars PROVE TypeOK'
  <1> USE Indices DEF server, rows, control, paging, current, worker, flusher
  <1>1. CASE Emit
    BY <1>1 DEF Emit, TypeOK, ServerType, MainType, GenerationType, WorkerType, FlusherType, Fates
  <1>2. CASE Trim
    BY <1>2, LabelerAssumption DEF Trim, Positions, TypeOK, ServerType, MainType, GenerationType,
       WorkerType, FlusherType, Fates
  <1>3. CASE Crash
    <2>1. ServerType' /\ MainType'
      BY <1>3 DEF Crash, TypeOK, ServerType, MainType
    <2>2. GenerationType' /\ WorkerType' /\ FlusherType'
      BY <1>3, LabelerAssumption DEF Crash, All, GenerationType, WorkerType, FlusherType
    <2>3. QED
      BY <1>3, <2>1, <2>2 DEF Crash, TypeOK
  <1>4. CASE Start
    BY <1>4, LabelerAssumption DEF Start, TypeOK, ServerType, MainType, GenerationType, WorkerType,
       FlusherType, Fates
  <1>5. CASE Stop
    BY <1>5 DEF Stop, TypeOK, ServerType, MainType, GenerationType, WorkerType, FlusherType, Fates
  <1>6. CASE AdminReset \/ AdminResetCheckpoint
    BY <1>6 DEF AdminReset, AdminResetCheckpoint, TypeOK, ServerType, MainType, GenerationType, WorkerType, FlusherType, Fates
  <1>7. CASE BackfillIfNeeded
    BY <1>7 DEF BackfillIfNeeded, TypeOK, ServerType, MainType, GenerationType, WorkerType, FlusherType,
       Fates
  <1>8. CASE Page
    BY <1>8 DEF Page, Mark, Checkpoint, TypeOK, ServerType, MainType, GenerationType, WorkerType,
       FlusherType, Fates
  <1>9. CASE PageFails
    BY <1>9 DEF PageFails, BackfillReturns, TypeOK, ServerType, MainType, GenerationType, WorkerType,
       FlusherType, Fates
  <1>10. CASE ClearCheckpoint
    BY <1>10 DEF ClearCheckpoint, TypeOK, ServerType, MainType, GenerationType, WorkerType, FlusherType,
       Fates
  <1>11. CASE SaveSentinel
    BY <1>11 DEF SaveSentinel, BackfillReturns, TypeOK, ServerType, MainType, GenerationType, WorkerType,
       FlusherType, Fates
  <1>12. CASE Load
    BY <1>12 DEF Load, TypeOK, ServerType, MainType, GenerationType, WorkerType, FlusherType, Fates
  <1>13. CASE Connect
    BY <1>13 DEF Connect, Missed, TypeOK, ServerType, MainType, GenerationType, WorkerType, FlusherType,
       Fates
  <1>14. CASE ConnectFails
    BY <1>14 DEF ConnectFails, TypeOK, ServerType, MainType, GenerationType, WorkerType, FlusherType, Fates
  <1>15. CASE RunOutdated
    BY <1>15 DEF RunOutdated, EndGeneration, InHand, Reading, TypeOK, ServerType, MainType, GenerationType,
       WorkerType, FlusherType, Fates
  <1>16. CASE RunOutdatedMasked
    BY <1>16 DEF RunOutdatedMasked, Missed, Outdated, TypeOK, ServerType, MainType, GenerationType,
       WorkerType, FlusherType, Fates
  <1>17. CASE RunRead
    BY <1>17 DEF RunRead, Outdated, TypeOK, ServerType, MainType, GenerationType, WorkerType, FlusherType,
       Fates
  <1>18. CASE RunSkip
    BY <1>18 DEF RunSkip, Mark, TypeOK, ServerType, MainType, GenerationType, WorkerType, FlusherType,
       Fates
  <1>19. CASE RunSend
    BY <1>19 DEF RunSend, InHand, Reading, TypeOK, ServerType, MainType, GenerationType, WorkerType,
       FlusherType, Fates
  <1>20. CASE RunEnds
    BY <1>20 DEF RunEnds, EndGeneration, InHand, Reading, TypeOK, ServerType, MainType, GenerationType,
       WorkerType, FlusherType, Fates
  <1>21. CASE ResetCursor
    BY <1>21 DEF ResetCursor, TypeOK, ServerType, MainType, GenerationType, WorkerType, FlusherType, Fates
  <1>22. CASE ClearCursor
    BY <1>22 DEF ClearCursor, TypeOK, ServerType, MainType, GenerationType, WorkerType, FlusherType, Fates
  <1>23. CASE ClearBackfillCursor
    BY <1>23 DEF ClearBackfillCursor, TypeOK, ServerType, MainType, GenerationType, WorkerType, FlusherType,
       Fates
  <1>24. CASE Cancelled
    BY <1>24 DEF Cancelled, TypeOK, ServerType, MainType, GenerationType, WorkerType, FlusherType, Fates
  <1>25. CASE StartFinalFlush
    BY <1>25 DEF StartFinalFlush, TypeOK, ServerType, MainType, GenerationType, WorkerType, FlusherType,
       Fates
  <1>26. ASSUME NEW g \in Gens, Receive(g) PROVE TypeOK'
    BY <1>26 DEF Receive, TypeOK, ServerType, MainType, GenerationType, WorkerType, FlusherType, Fates
  <1>27. ASSUME NEW g \in Gens, EndOfEvents(g) PROVE TypeOK'
    BY <1>27 DEF EndOfEvents, TypeOK, ServerType, MainType, GenerationType, WorkerType, FlusherType, Fates
  <1>28. ASSUME NEW g \in Gens, HandleLabels(g) PROVE TypeOK'
    BY <1>28 DEF HandleLabels, Mark, InHand, Busy, TypeOK, ServerType, MainType, GenerationType,
       WorkerType, FlusherType, Fates
  <1>29. ASSUME NEW g \in Gens, Advance(g) PROVE TypeOK'
    BY <1>29 DEF Advance, TypeOK, ServerType, MainType, GenerationType, WorkerType, FlusherType, Fates
  <1>30. ASSUME NEW g \in Gens, FlushTick(g) PROVE TypeOK'
    BY <1>30 DEF FlushTick, TypeOK, ServerType, MainType, GenerationType, WorkerType, FlusherType, Fates
  <1>31. ASSUME NEW g \in Gens, FinalFlush(g) PROVE TypeOK'
    BY <1>31 DEF FinalFlush, TypeOK, ServerType, MainType, GenerationType, WorkerType, FlusherType, Fates
  <1>32. ASSUME NEW g \in Gens, SaveCursor(g) PROVE TypeOK'
    BY <1>32 DEF SaveCursor, TypeOK, ServerType, MainType, GenerationType, WorkerType, FlusherType, Fates
  <1>33. CASE UNCHANGED vars
    BY <1>33 DEF vars, TypeOK, ServerType, MainType, GenerationType, WorkerType, FlusherType, Fates
  <1>34. QED
    BY <1>1, <1>2, <1>3, <1>4, <1>5, <1>6, <1>7, <1>8, <1>9, <1>10, <1>11, <1>12, <1>13, <1>14,
       <1>15, <1>16, <1>17, <1>18, <1>19, <1>20, <1>21, <1>22, <1>23, <1>24, <1>25, <1>26,
       <1>27, <1>28, <1>29, <1>30, <1>31, <1>32, <1>33
       DEF Next, Backfill, Run, ProcessEvents, Flush

\* Every step keeps InHand.
LEMMA InHandStep == ASSUME TypeOK, InHand, [Next]_vars PROVE InHand'
  <1> USE Indices DEF server, rows, control, paging, current, worker, flusher, TypeOK, ServerType,
        MainType, GenerationType, WorkerType, FlusherType, Fates
  <1>1. CASE Emit
    BY <1>1 DEF Emit, InHand, Busy, Reading
  <1>2. CASE Trim
    BY <1>2 DEF Trim, InHand, Busy, Reading
  <1>3. CASE Crash
    BY <1>3 DEF Crash, All, InHand, Busy, Reading
  <1>4. CASE Start
    BY <1>4 DEF Start, InHand, Busy, Reading
  <1>5. CASE Stop
    BY <1>5 DEF Stop, InHand, Busy, Reading
  <1>6. CASE AdminReset \/ AdminResetCheckpoint
    BY <1>6 DEF AdminReset, AdminResetCheckpoint, InHand, Busy, Reading
  <1>7. CASE BackfillIfNeeded
    BY <1>7 DEF BackfillIfNeeded, InHand, Busy, Reading
  <1>8. CASE Page
    BY <1>8 DEF Page, Mark, Checkpoint, InHand, Busy, Reading
  <1>9. CASE PageFails
    BY <1>9 DEF PageFails, BackfillReturns, InHand, Busy, Reading
  <1>10. CASE ClearCheckpoint
    BY <1>10 DEF ClearCheckpoint, InHand, Busy, Reading
  <1>11. CASE SaveSentinel
    BY <1>11 DEF SaveSentinel, BackfillReturns, InHand, Busy, Reading
  <1>12. CASE Load
    BY <1>12 DEF Load, InHand, Busy, Reading
  <1>13. CASE Connect
    BY <1>13 DEF Connect, Missed, InHand, Busy, Reading
  <1>14. CASE ConnectFails
    BY <1>14 DEF ConnectFails, InHand, Busy, Reading
  <1>15. CASE RunOutdated
    BY <1>15 DEF RunOutdated, EndGeneration, InHand, Busy, Reading
  <1>16. CASE RunOutdatedMasked
    BY <1>16 DEF RunOutdatedMasked, Missed, Outdated, InHand, Busy, Reading
  <1>17. CASE RunRead
    BY <1>17 DEF RunRead, Outdated, InHand, Busy, Reading
  <1>18. CASE RunSkip
    BY <1>18 DEF RunSkip, Mark, InHand, Busy, Reading
  <1>19. CASE RunSend
    BY <1>19 DEF RunSend, InHand, Busy, Reading
  <1>20. CASE RunEnds
    BY <1>20 DEF RunEnds, EndGeneration, InHand, Busy, Reading
  <1>21. CASE ResetCursor
    BY <1>21 DEF ResetCursor, InHand, Busy, Reading
  <1>22. CASE ClearCursor
    BY <1>22 DEF ClearCursor, InHand, Busy, Reading
  <1>23. CASE ClearBackfillCursor
    BY <1>23 DEF ClearBackfillCursor, InHand, Busy, Reading
  <1>24. CASE Cancelled
    BY <1>24 DEF Cancelled, InHand, Busy, Reading
  <1>25. CASE StartFinalFlush
    BY <1>25 DEF StartFinalFlush, InHand, Busy, Reading
  <1>26. ASSUME NEW g \in Gens, Receive(g) PROVE InHand'
    BY <1>26 DEF Receive, InHand, Busy, Reading
  <1>27. ASSUME NEW g \in Gens, EndOfEvents(g) PROVE InHand'
    BY <1>27 DEF EndOfEvents, InHand, Busy, Reading
  <1>28. ASSUME NEW g \in Gens, HandleLabels(g) PROVE InHand'
    BY <1>28 DEF HandleLabels, Mark, InHand, Busy, Reading
  <1>29. ASSUME NEW g \in Gens, Advance(g) PROVE InHand'
    BY <1>29 DEF Advance, InHand, Busy, Reading
  <1>30. ASSUME NEW g \in Gens, FlushTick(g) PROVE InHand'
    BY <1>30 DEF FlushTick, InHand, Busy, Reading
  <1>31. ASSUME NEW g \in Gens, FinalFlush(g) PROVE InHand'
    BY <1>31 DEF FinalFlush, InHand, Busy, Reading
  <1>32. ASSUME NEW g \in Gens, SaveCursor(g) PROVE InHand'
    BY <1>32 DEF SaveCursor, InHand, Busy, Reading
  <1>33. CASE UNCHANGED vars
    BY <1>33 DEF vars, InHand, Busy, Reading
  <1>34. QED
    BY <1>1, <1>2, <1>3, <1>4, <1>5, <1>6, <1>7, <1>8, <1>9, <1>10, <1>11, <1>12, <1>13, <1>14,
       <1>15, <1>16, <1>17, <1>18, <1>19, <1>20, <1>21, <1>22, <1>23, <1>24, <1>25, <1>26,
       <1>27, <1>28, <1>29, <1>30, <1>31, <1>32, <1>33
       DEF Next, Backfill, Run, ProcessEvents, Flush

\* Every step keeps Generations.
LEMMA GenerationsStep == ASSUME TypeOK, InHand, Generations, [Next]_vars PROVE Generations'
  <1> USE Indices DEF server, rows, control, paging, current, worker, flusher, TypeOK, ServerType,
        MainType, GenerationType, WorkerType, FlusherType, Fates
  <1>1. CASE Emit
    BY <1>1 DEF Emit, Generations, InHand, Reading, Busy
  <1>2. CASE Trim
    BY <1>2 DEF Trim, Generations, InHand, Reading, Busy
  <1>3. CASE Crash
    BY <1>3 DEF Crash, All, Generations, InHand, Reading, Busy
  <1>4. CASE Start
    BY <1>4 DEF Start, Generations, InHand, Reading, Busy
  <1>5. CASE Stop
    BY <1>5 DEF Stop, Generations, InHand, Reading, Busy
  <1>6. CASE AdminReset \/ AdminResetCheckpoint
    BY <1>6 DEF AdminReset, AdminResetCheckpoint, Generations, InHand, Reading, Busy
  <1>7. CASE BackfillIfNeeded
    BY <1>7 DEF BackfillIfNeeded, Generations, InHand, Reading, Busy
  <1>8. CASE Page
    BY <1>8 DEF Page, Mark, Checkpoint, Generations, InHand, Reading, Busy
  <1>9. CASE PageFails
    BY <1>9 DEF PageFails, BackfillReturns, Generations, InHand, Reading, Busy
  <1>10. CASE ClearCheckpoint
    BY <1>10 DEF ClearCheckpoint, Generations, InHand, Reading, Busy
  <1>11. CASE SaveSentinel
    BY <1>11 DEF SaveSentinel, BackfillReturns, Generations, InHand, Reading, Busy
  <1>12. CASE Load
    BY <1>12 DEF Load, Generations, InHand, Reading, Busy
  <1>13. CASE Connect
    BY <1>13 DEF Connect, Missed, Generations, InHand, Reading, Busy
  <1>14. CASE ConnectFails
    BY <1>14 DEF ConnectFails, Generations, InHand, Reading, Busy
  <1>15. CASE RunOutdated
    BY <1>15 DEF RunOutdated, EndGeneration, Generations, InHand, Reading, Busy
  <1>16. CASE RunOutdatedMasked
    BY <1>16 DEF RunOutdatedMasked, Missed, Outdated, Generations, InHand, Reading, Busy
  <1>17. CASE RunRead
    BY <1>17 DEF RunRead, Outdated, Generations, InHand, Reading, Busy
  <1>18. CASE RunSkip
    BY <1>18 DEF RunSkip, Mark, Generations, InHand, Reading, Busy
  <1>19. CASE RunSend
    BY <1>19 DEF RunSend, Generations, InHand, Reading, Busy
  <1>20. CASE RunEnds
    BY <1>20 DEF RunEnds, EndGeneration, Generations, InHand, Reading, Busy
  <1>21. CASE ResetCursor
    BY <1>21 DEF ResetCursor, Generations, InHand, Reading, Busy
  <1>22. CASE ClearCursor
    BY <1>22 DEF ClearCursor, Generations, InHand, Reading, Busy
  <1>23. CASE ClearBackfillCursor
    BY <1>23 DEF ClearBackfillCursor, Generations, InHand, Reading, Busy
  <1>24. CASE Cancelled
    BY <1>24 DEF Cancelled, Generations, InHand, Reading, Busy
  <1>25. CASE StartFinalFlush
    BY <1>25 DEF StartFinalFlush, Generations, InHand, Reading, Busy
  <1>26. ASSUME NEW g \in Gens, Receive(g) PROVE Generations'
    BY <1>26 DEF Receive, Generations, InHand, Reading, Busy
  <1>27. ASSUME NEW g \in Gens, EndOfEvents(g) PROVE Generations'
    BY <1>27 DEF EndOfEvents, Generations, InHand, Reading, Busy
  <1>28. ASSUME NEW g \in Gens, HandleLabels(g) PROVE Generations'
    BY <1>28 DEF HandleLabels, Mark, Generations, InHand, Reading, Busy
  <1>29. ASSUME NEW g \in Gens, Advance(g) PROVE Generations'
    BY <1>29 DEF Advance, Generations, InHand, Reading, Busy
  <1>30. ASSUME NEW g \in Gens, FlushTick(g) PROVE Generations'
    BY <1>30 DEF FlushTick, Generations, InHand, Reading, Busy
  <1>31. ASSUME NEW g \in Gens, FinalFlush(g) PROVE Generations'
    BY <1>31 DEF FinalFlush, Generations, InHand, Reading, Busy
  <1>32. ASSUME NEW g \in Gens, SaveCursor(g) PROVE Generations'
    BY <1>32 DEF SaveCursor, Generations, InHand, Reading, Busy
  <1>33. CASE UNCHANGED vars
    BY <1>33 DEF vars, Generations, InHand, Reading, Busy
  <1>34. QED
    BY <1>1, <1>2, <1>3, <1>4, <1>5, <1>6, <1>7, <1>8, <1>9, <1>10, <1>11, <1>12, <1>13, <1>14,
       <1>15, <1>16, <1>17, <1>18, <1>19, <1>20, <1>21, <1>22, <1>23, <1>24, <1>25, <1>26,
       <1>27, <1>28, <1>29, <1>30, <1>31, <1>32, <1>33
       DEF Next, Backfill, Run, ProcessEvents, Flush

\* A step never takes back that a frame was dealt with, was seen, or is stored.
Kept(t) ==
    /\ fate[t] # "none" => fate'[t] # "none"
    /\ fate[t] \notin {"none", "missed"} => fate'[t] \notin {"none", "missed"}
    /\ fate[t] = "stored" => fate'[t] = "stored"

LEMMA FateStays == ASSUME TypeOK, InHand, [Next]_vars PROVE \A t \in Seqs : Kept(t)
  <1> USE Indices DEF server, rows, control, paging, current, worker, flusher, TypeOK, ServerType,
        MainType, GenerationType, WorkerType, FlusherType, Fates, Kept
  <1>1. CASE Emit
    BY <1>1 DEF Emit, InHand, Busy
  <1>2. CASE Trim
    BY <1>2 DEF Trim, InHand, Busy
  <1>3. CASE Crash
    BY <1>3 DEF Crash, All, InHand, Busy
  <1>4. CASE Start
    BY <1>4 DEF Start, InHand, Busy
  <1>5. CASE Stop
    BY <1>5 DEF Stop, InHand, Busy
  <1>6. CASE AdminReset \/ AdminResetCheckpoint
    BY <1>6 DEF AdminReset, AdminResetCheckpoint, InHand, Busy
  <1>7. CASE BackfillIfNeeded
    BY <1>7 DEF BackfillIfNeeded, InHand, Busy
  <1>8. CASE Page
    BY <1>8 DEF Page, Mark, Checkpoint, InHand, Busy
  <1>9. CASE PageFails
    BY <1>9 DEF PageFails, BackfillReturns, InHand, Busy
  <1>10. CASE ClearCheckpoint
    BY <1>10 DEF ClearCheckpoint, InHand, Busy
  <1>11. CASE SaveSentinel
    BY <1>11 DEF SaveSentinel, BackfillReturns, InHand, Busy
  <1>12. CASE Load
    BY <1>12 DEF Load, InHand, Busy
  <1>13. CASE Connect
    BY <1>13 DEF Connect, Missed, InHand, Busy
  <1>14. CASE ConnectFails
    BY <1>14 DEF ConnectFails, InHand, Busy
  <1>15. CASE RunOutdated
    BY <1>15 DEF RunOutdated, EndGeneration, InHand, Busy
  <1>16. CASE RunOutdatedMasked
    BY <1>16 DEF RunOutdatedMasked, Missed, Outdated, InHand, Busy
  <1>17. CASE RunRead
    BY <1>17 DEF RunRead, Outdated, InHand, Busy
  <1>18. CASE RunSkip
    BY <1>18 DEF RunSkip, Mark, InHand, Busy
  <1>19. CASE RunSend
    BY <1>19 DEF RunSend, InHand, Busy
  <1>20. CASE RunEnds
    BY <1>20 DEF RunEnds, EndGeneration, InHand, Busy
  <1>21. CASE ResetCursor
    BY <1>21 DEF ResetCursor, InHand, Busy
  <1>22. CASE ClearCursor
    BY <1>22 DEF ClearCursor, InHand, Busy
  <1>23. CASE ClearBackfillCursor
    BY <1>23 DEF ClearBackfillCursor, InHand, Busy
  <1>24. CASE Cancelled
    BY <1>24 DEF Cancelled, InHand, Busy
  <1>25. CASE StartFinalFlush
    BY <1>25 DEF StartFinalFlush, InHand, Busy
  <1>26. ASSUME NEW g \in Gens, Receive(g) PROVE \A t \in Seqs : Kept(t)
    BY <1>26 DEF Receive, InHand, Busy
  <1>27. ASSUME NEW g \in Gens, EndOfEvents(g) PROVE \A t \in Seqs : Kept(t)
    BY <1>27 DEF EndOfEvents, InHand, Busy
  <1>28. ASSUME NEW g \in Gens, HandleLabels(g) PROVE \A t \in Seqs : Kept(t)
    BY <1>28 DEF HandleLabels, Mark, InHand, Busy
  <1>29. ASSUME NEW g \in Gens, Advance(g) PROVE \A t \in Seqs : Kept(t)
    BY <1>29 DEF Advance, InHand, Busy
  <1>30. ASSUME NEW g \in Gens, FlushTick(g) PROVE \A t \in Seqs : Kept(t)
    BY <1>30 DEF FlushTick, InHand, Busy
  <1>31. ASSUME NEW g \in Gens, FinalFlush(g) PROVE \A t \in Seqs : Kept(t)
    BY <1>31 DEF FinalFlush, InHand, Busy
  <1>32. ASSUME NEW g \in Gens, SaveCursor(g) PROVE \A t \in Seqs : Kept(t)
    BY <1>32 DEF SaveCursor, InHand, Busy
  <1>33. CASE UNCHANGED vars
    BY <1>33 DEF vars, InHand, Busy
  <1>34. QED
    BY <1>1, <1>2, <1>3, <1>4, <1>5, <1>6, <1>7, <1>8, <1>9, <1>10, <1>11, <1>12, <1>13, <1>14,
       <1>15, <1>16, <1>17, <1>18, <1>19, <1>20, <1>21, <1>22, <1>23, <1>24, <1>25, <1>26,
       <1>27, <1>28, <1>29, <1>30, <1>31, <1>32, <1>33
       DEF Next, Backfill, Run, ProcessEvents, Flush

\* The frame that processEvents is about to make the cursor is covered: it is the
\* first of its pipe, and everything before it has left the pipe.
LEMMA AdvanceCovered ==
  ASSUME IInv, NEW g \in Gens, wpc[g] = "advance" PROVE Covered(wev[g])
  <1>1. Busy(g) /\ wev[g] \in Seqs /\ PipeComplete(g) /\ PipeOrdered(g)
    BY DEF IInv, InHand, Busy, PipeInv
  <1>2. Seqs \subseteq Nat /\ buf[g] \subseteq Seqs
    BY Indices DEF IInv, TypeOK, GenerationType
  <1>3. \A t \in Seqs : t < wev[g] => ~InPipe(g, t)
    <2> SUFFICES ASSUME NEW t \in Seqs, t < wev[g] PROVE ~InPipe(g, t)
      OBVIOUS
    <2>1. t \in Nat /\ wev[g] \in Nat
      BY <1>1, <1>2
    <2>2. t \notin buf[g]
      BY <1>1, <2>1 DEF PipeOrdered
    <2>3. ~(g = gen /\ mpc = "send" /\ t = recvd)
      BY <1>1, <2>1 DEF PipeOrdered
    <2>4. QED
      BY <2>1, <2>2, <2>3 DEF InPipe
  <1>4. \A t \in Seqs : t <= wev[g] => t < wev[g] \/ t = wev[g]
    <2>1. wev[g] \in Nat
      BY <1>1, <1>2
    <2>2. \A t \in Nat, w \in Nat : t <= w => t < w \/ t = w
      OBVIOUS
    <2>3. QED
      BY <1>2, <2>1, <2>2
  <1>5. fate[wev[g]] # "none" /\ InPipe(g, wev[g])
    BY <1>1 DEF PipeOrdered, InPipe
  <1>6. QED
    BY <1>1, <1>3, <1>4, <1>5 DEF PipeComplete, Covered

\* Every step keeps CopiesCovered.
LEMMA CopiesStep == ASSUME IInv, [Next]_vars PROVE CopiesCovered'
  <1> USE Indices, FateStays DEF IInv, server, rows, control, paging, current, worker, flusher, TypeOK, ServerType,
        MainType, GenerationType, WorkerType, FlusherType, Fates, Kept
  <1>1. CASE Emit
    BY <1>1 DEF Emit, CopiesCovered, Covered, SeenTo, InHand, Busy
  <1>2. CASE Trim
    BY <1>2 DEF Trim, CopiesCovered, Covered, SeenTo, InHand, Busy
  <1>3. CASE Crash
    BY <1>3 DEF Crash, All, CopiesCovered, Covered, SeenTo, InHand, Busy
  <1>4. CASE Start
    BY <1>4 DEF Start, CopiesCovered, Covered, SeenTo, InHand, Busy
  <1>5. CASE Stop
    BY <1>5 DEF Stop, CopiesCovered, Covered, SeenTo, InHand, Busy
  <1>6. CASE AdminReset \/ AdminResetCheckpoint
    BY <1>6 DEF AdminReset, AdminResetCheckpoint, CopiesCovered, Covered, SeenTo, InHand, Busy
  <1>7. CASE BackfillIfNeeded
    BY <1>7 DEF BackfillIfNeeded, CopiesCovered, Covered, SeenTo, InHand, Busy
  <1>8. CASE Page
    BY <1>8 DEF Page, Mark, Checkpoint, CopiesCovered, Covered, SeenTo, InHand, Busy
  <1>9. CASE PageFails
    BY <1>9 DEF PageFails, BackfillReturns, CopiesCovered, Covered, SeenTo, InHand, Busy
  <1>10. CASE ClearCheckpoint
    BY <1>10 DEF ClearCheckpoint, CopiesCovered, Covered, SeenTo, InHand, Busy
  <1>11. CASE SaveSentinel
    BY <1>11 DEF SaveSentinel, BackfillReturns, CopiesCovered, Covered, SeenTo, InHand, Busy
  <1>12. CASE Load
    BY <1>12 DEF Load, CopiesCovered, Covered, SeenTo, InHand, Busy
  <1>13. CASE Connect
    BY <1>13 DEF Connect, Missed, CopiesCovered, Covered, SeenTo, InHand, Busy
  <1>14. CASE ConnectFails
    BY <1>14 DEF ConnectFails, CopiesCovered, Covered, SeenTo, InHand, Busy
  <1>15. CASE RunOutdated
    BY <1>15 DEF RunOutdated, EndGeneration, CopiesCovered, Covered, SeenTo, InHand, Busy
  <1>16. CASE RunOutdatedMasked
    BY <1>16 DEF RunOutdatedMasked, Missed, Outdated, CopiesCovered, Covered, SeenTo, InHand, Busy
  <1>17. CASE RunRead
    BY <1>17 DEF RunRead, Outdated, CopiesCovered, Covered, SeenTo, InHand, Busy
  <1>18. CASE RunSkip
    BY <1>18 DEF RunSkip, Mark, CopiesCovered, Covered, SeenTo, InHand, Busy
  <1>19. CASE RunSend
    BY <1>19 DEF RunSend, CopiesCovered, Covered, SeenTo, InHand, Busy
  <1>20. CASE RunEnds
    BY <1>20 DEF RunEnds, EndGeneration, CopiesCovered, Covered, SeenTo, InHand, Busy
  <1>21. CASE ResetCursor
    BY <1>21 DEF ResetCursor, CopiesCovered, Covered, SeenTo, InHand, Busy
  <1>22. CASE ClearCursor
    BY <1>22 DEF ClearCursor, CopiesCovered, Covered, SeenTo, InHand, Busy
  <1>23. CASE ClearBackfillCursor
    BY <1>23 DEF ClearBackfillCursor, CopiesCovered, Covered, SeenTo, InHand, Busy
  <1>24. CASE Cancelled
    BY <1>24 DEF Cancelled, CopiesCovered, Covered, SeenTo, InHand, Busy
  <1>25. CASE StartFinalFlush
    BY <1>25 DEF StartFinalFlush, CopiesCovered, Covered, SeenTo, InHand, Busy
  <1>26. ASSUME NEW g \in Gens, Receive(g) PROVE CopiesCovered'
    BY <1>26 DEF Receive, CopiesCovered, Covered, SeenTo, InHand, Busy
  <1>27. ASSUME NEW g \in Gens, EndOfEvents(g) PROVE CopiesCovered'
    BY <1>27 DEF EndOfEvents, CopiesCovered, Covered, SeenTo, InHand, Busy
  <1>28. ASSUME NEW g \in Gens, HandleLabels(g) PROVE CopiesCovered'
    BY <1>28 DEF HandleLabels, Mark, CopiesCovered, Covered, SeenTo, InHand, Busy
  <1>29. ASSUME NEW g \in Gens, Advance(g) PROVE CopiesCovered'
    <2>1. Covered(wev[g])
      BY <1>29, AdvanceCovered DEF Advance
    <2>2. QED
      BY <1>29, <2>1 DEF Advance, CopiesCovered, Covered, SeenTo
  <1>30. ASSUME NEW g \in Gens, FlushTick(g) PROVE CopiesCovered'
    BY <1>30 DEF FlushTick, CopiesCovered, Covered, SeenTo, InHand, Busy
  <1>31. ASSUME NEW g \in Gens, FinalFlush(g) PROVE CopiesCovered'
    BY <1>31 DEF FinalFlush, CopiesCovered, Covered, SeenTo, InHand, Busy
  <1>32. ASSUME NEW g \in Gens, SaveCursor(g) PROVE CopiesCovered'
    BY <1>32 DEF SaveCursor, CopiesCovered, Covered, SeenTo, InHand, Busy
  <1>33. CASE UNCHANGED vars
    BY <1>33 DEF vars, CopiesCovered, Covered, SeenTo, InHand, Busy
  <1>34. QED
    BY <1>1, <1>2, <1>3, <1>4, <1>5, <1>6, <1>7, <1>8, <1>9, <1>10, <1>11, <1>12, <1>13, <1>14,
       <1>15, <1>16, <1>17, <1>18, <1>19, <1>20, <1>21, <1>22, <1>23, <1>24, <1>25, <1>26,
       <1>27, <1>28, <1>29, <1>30, <1>31, <1>32, <1>33
       DEF Next, Backfill, Run, ProcessEvents, Flush

\* A step that moves the row moves it back to nothing, to the sentinel or to a copy
\* of the cursor, and settles no frame.
LEMMA SavedChanges ==
  ASSUME TypeOK, [Next]_vars, saved' # saved
  PROVE  /\ saved' \in {0, Sentinel, cursor} \cup {fval[g] : g \in Gens}
         /\ fate' = fate
  <1> USE DEF server, rows, control, paging, current, worker, flusher
  <1>1. CASE AdminReset \/ SaveSentinel \/ StartFinalFlush \/ ClearCursor
    BY <1>1 DEF AdminReset, SaveSentinel, StartFinalFlush, ClearCursor
  <1>2. ASSUME NEW g \in Gens, SaveCursor(g)
        PROVE  saved' = fval[g] /\ fate' = fate
    BY <1>2 DEF SaveCursor
  <1>3. CASE Backfill \/ Run
    BY <1>1, <1>3 DEF Backfill, Run, BackfillIfNeeded, Page, PageFails, ClearCheckpoint, Load, Connect,
       ConnectFails, RunOutdated, RunOutdatedMasked, RunRead, RunSkip, RunSend, RunEnds,
       ResetCursor, ClearBackfillCursor, Cancelled
  <1>4. ASSUME NEW g \in Gens, ProcessEvents(g) \/ FlushTick(g) \/ FinalFlush(g)
        PROVE  FALSE
    BY <1>4 DEF ProcessEvents, Receive, EndOfEvents, HandleLabels, Advance, FlushTick, FinalFlush
  <1>5. CASE Emit \/ Trim \/ Crash \/ Start \/ Stop \/ AdminResetCheckpoint \/ UNCHANGED vars
    BY <1>5 DEF AdminResetCheckpoint, Emit, Trim, Crash, Start, Stop, vars
  <1>6. QED
    BY <1>1, <1>2, <1>3, <1>4, <1>5 DEF Next, Flush

\* A step leaves the cursor alone, forgets it, or moves it to a frame that
\* handleLabelMessage has stored.
LEMMA CursorChanges ==
  ASSUME [Next]_vars
  PROVE  cursor' \in {0, cursor} \cup {wev[g] : g \in {h \in Gens : wpc[h] = "advance"}}
  <1> USE DEF server, rows, control, paging, current, worker, flusher
  <1>1. ASSUME NEW g \in Gens, Advance(g)
        PROVE  cursor' \in {cursor, wev[g]} /\ wpc[g] = "advance"
    BY <1>1 DEF Advance
  <1>2. CASE Crash \/ ResetCursor
    BY <1>2 DEF Crash, ResetCursor
  <1>3. CASE Backfill \/ Run
    BY <1>2, <1>3 DEF Backfill, Run, BackfillIfNeeded, Page, PageFails, ClearCheckpoint, SaveSentinel,
       Load, Connect, ConnectFails, RunOutdated, RunOutdatedMasked, RunRead, RunSkip, RunSend,
       RunEnds, ClearCursor, ClearBackfillCursor, Cancelled, StartFinalFlush
  <1>4. ASSUME NEW g \in Gens, Receive(g) \/ EndOfEvents(g) \/ HandleLabels(g) \/ Flush(g)
        PROVE  cursor' = cursor
    BY <1>4 DEF Receive, EndOfEvents, HandleLabels, Flush, FlushTick, FinalFlush, SaveCursor
  <1>5. CASE Emit \/ Trim \/ Start \/ Stop \/ AdminReset \/ AdminResetCheckpoint \/ UNCHANGED vars
    BY <1>5 DEF Emit, Trim, Start, Stop, AdminReset, AdminResetCheckpoint, vars
  <1>6. QED
    BY <1>1, <1>2, <1>3, <1>4, <1>5 DEF Next, ProcessEvents

\* A flusher takes the cursor to be saved from the field.
LEMMA FlushChanges ==
  ASSUME TypeOK, [Next]_vars PROVE \A g \in Gens : fval'[g] \in {0, cursor, fval[g]}
  <1> USE DEF server, rows, control, paging, current, worker, flusher
  <1>1. ASSUME NEW h \in Gens, Flush(h)
        PROVE  \A g \in Gens : fval'[g] \in {0, cursor, fval[g]}
    BY <1>1 DEF Flush, FlushTick, FinalFlush, SaveCursor, TypeOK, FlusherType
  <1>2. CASE Crash
    BY <1>2 DEF Crash, All
  <1>3. CASE Backfill \/ Run
    BY <1>3 DEF Backfill, Run, BackfillIfNeeded, Page, PageFails, ClearCheckpoint, SaveSentinel,
       Load, Connect, ConnectFails, RunOutdated, RunOutdatedMasked, RunRead, RunSkip, RunSend,
       RunEnds, ResetCursor, ClearCursor, ClearBackfillCursor, Cancelled, StartFinalFlush
  <1>4. ASSUME NEW g \in Gens, ProcessEvents(g) PROVE fval' = fval
    BY <1>4 DEF ProcessEvents, Receive, EndOfEvents, HandleLabels, Advance
  <1>5. CASE Emit \/ Trim \/ Start \/ Stop \/ AdminReset \/ AdminResetCheckpoint \/ UNCHANGED vars
    BY <1>5 DEF Emit, Trim, Start, Stop, AdminReset, AdminResetCheckpoint, vars
  <1>6. QED
    BY <1>1, <1>2, <1>3, <1>4, <1>5 DEF Next

\* Every step keeps CopiesStored: what a step puts in one copy it has from another,
\* or from handleLabelMessage, which has stored the frame.
LEMMA StoredStep == ASSUME IInv, [Next]_vars PROVE CopiesStored'
  <1>1. \A v : IsStored(v) /\ v > 0 => v \in Stored'
    BY FateStays DEF IInv, Kept, IsStored, Stored
  <1>2. IsStored(0) /\ IsStored(Sentinel)
    BY Indices DEF IsStored
  <1>3. IsStored(cursor) /\ IsStored(saved) /\ \A g \in Gens : IsStored(fval[g])
    BY DEF IInv, CopiesStored
  <1>4. \A g \in Gens : wpc[g] = "advance" => IsStored(wev[g])
    BY DEF IInv, PipeInv, PipeOrdered, InHand, Busy, IsStored, Stored
  <1>5. cursor' \in {0, cursor} \cup {wev[g] : g \in {h \in Gens : wpc[h] = "advance"}}
    BY CursorChanges
  <1>6. saved' \in {0, Sentinel, saved, cursor} \cup {fval[g] : g \in Gens}
    BY SavedChanges DEF IInv
  <1>7. \A g \in Gens : fval'[g] \in {0, cursor, fval[g]}
    BY FlushChanges DEF IInv
  <1>8. IsStored(cursor') /\ IsStored(saved') /\ \A g \in Gens : IsStored(fval'[g])
    BY <1>2, <1>3, <1>4, <1>5, <1>6, <1>7
  <1>9. QED
    BY <1>1, <1>8 DEF CopiesStored, IsStored

\* Every step keeps the pipe of every generation.
LEMMA PipeStep == ASSUME IInv, [Next]_vars PROVE \A h \in Gens : PipeInv(h)'
  <1> USE Indices DEF IInv, server, rows, control, paging, current, worker, flusher, TypeOK, ServerType,
        MainType, GenerationType, WorkerType, FlusherType, Fates
  <1>1. CASE Emit
    BY <1>1 DEF Emit, InHand, Busy, Reading, CopiesCovered, Covered, PipeInv, PipeComplete, PipeOrdered,
       InPipe, Generations
  <1>2. CASE Trim
    BY <1>2 DEF Trim, InHand, Busy, Reading, CopiesCovered, Covered, PipeInv, PipeComplete, PipeOrdered,
       InPipe, Generations
  <1>3. CASE Crash
    BY <1>3 DEF Crash, All, InHand, Busy, Reading, CopiesCovered, Covered, PipeInv, PipeComplete,
       PipeOrdered, InPipe, Generations
  <1>4. CASE Start
    BY <1>4 DEF Start, InHand, Busy, Reading, CopiesCovered, Covered, PipeInv, PipeComplete, PipeOrdered,
       InPipe, Generations
  <1>5. CASE Stop
    BY <1>5 DEF Stop, InHand, Busy, Reading, CopiesCovered, Covered, PipeInv, PipeComplete, PipeOrdered,
       InPipe, Generations
  <1>6. CASE AdminReset \/ AdminResetCheckpoint
    <2>1. UNCHANGED <<mpc, buf, wpc, wev, gen, recvd, fate>>
      BY <1>6 DEF AdminReset, AdminResetCheckpoint
    <2>2. QED
      BY <2>1 DEF Busy, Reading, PipeInv, PipeComplete, PipeOrdered, InPipe
  <1>7. CASE BackfillIfNeeded
    BY <1>7 DEF BackfillIfNeeded, InHand, Busy, Reading, CopiesCovered, Covered, PipeInv, PipeComplete,
       PipeOrdered, InPipe, Generations
  <1>8. CASE Page
    <2>1. UNCHANGED <<buf, wpc, wev, gen, recvd>> /\ ~Reading /\ ~Reading'
      BY <1>8 DEF Page, Reading
    <2>2. QED
      BY <2>1, FateStays DEF Kept, InHand, Busy, Reading, CopiesCovered, Covered, PipeInv, PipeComplete,
         PipeOrdered, InPipe
  <1>9. CASE PageFails
    BY <1>9 DEF PageFails, BackfillReturns, InHand, Busy, Reading, CopiesCovered, Covered, PipeInv,
       PipeComplete, PipeOrdered, InPipe, Generations
  <1>10. CASE ClearCheckpoint
    BY <1>10 DEF ClearCheckpoint, InHand, Busy, Reading, CopiesCovered, Covered, PipeInv, PipeComplete,
       PipeOrdered, InPipe, Generations
  <1>11. CASE SaveSentinel
    BY <1>11 DEF SaveSentinel, BackfillReturns, InHand, Busy, Reading, CopiesCovered, Covered, PipeInv,
       PipeComplete, PipeOrdered, InPipe, Generations
  <1>12. CASE Load
    BY <1>12 DEF Load, InHand, Busy, Reading, CopiesCovered, Covered, PipeInv, PipeComplete, PipeOrdered,
       InPipe, Generations
  <1>13. CASE Connect
    BY <1>13 DEF Connect, Missed, InHand, Busy, Reading, CopiesCovered, Covered, PipeInv, PipeComplete,
       PipeOrdered, InPipe, Generations
  <1>14. CASE ConnectFails
    BY <1>14 DEF ConnectFails, InHand, Busy, Reading, CopiesCovered, Covered, PipeInv, PipeComplete,
       PipeOrdered, InPipe, Generations
  <1>15. CASE RunOutdated
    BY <1>15 DEF RunOutdated, EndGeneration, InHand, Busy, Reading, CopiesCovered, Covered, PipeInv,
       PipeComplete, PipeOrdered, InPipe, Generations
  <1>16. CASE RunOutdatedMasked
    BY <1>16 DEF RunOutdatedMasked, Missed, Outdated, InHand, Busy, Reading, CopiesCovered, Covered,
       PipeInv, PipeComplete, PipeOrdered, InPipe, Generations
  <1>17. CASE RunRead
    <2>1. UNCHANGED <<buf, wpc, wev, gen, fate>> /\ mpc = "read" /\ mpc' = "send" /\ recvd' = recvd + 1
      BY <1>17 DEF RunRead
    <2>2. \A h \in Gens : PipeComplete(h)'
      <3> SUFFICES ASSUME NEW h \in Gens PROVE PipeComplete(h)'
        OBVIOUS
      <3>1. PipeComplete(h) /\ PipeOrdered(h)
        BY DEF PipeInv
      <3>2. \A t \in Seqs : h = gen /\ t <= recvd + 1 => t <= recvd \/ t = recvd + 1
        OBVIOUS
      <3>3. \A t \in Seqs : InPipe(h, t) => InPipe(h, t)'
        BY <2>1 DEF InPipe, Busy
      <3>4. \A t \in Seqs : InPipe(h, t)' => InPipe(h, t) \/ (h = gen /\ t = recvd + 1)
        BY <2>1 DEF InPipe, Busy
      <3>5. \A t \in Seqs : h = gen /\ t <= recvd => fate[t] # "none" \/ InPipe(h, t)
        BY <2>1, <3>1 DEF PipeComplete, Reading
      <3>6. \A t \in Seqs : h = gen /\ t <= recvd + 1 => fate[t] # "none" \/ InPipe(h, t)'
        BY <2>1, <3>2, <3>3, <3>5 DEF InPipe
      <3>7. QED
        BY <2>1, <3>1, <3>3, <3>4, <3>5, <3>6 DEF PipeComplete, Reading
    <2>3. \A h \in Gens : PipeOrdered(h)'
      <3> SUFFICES ASSUME NEW h \in Gens PROVE PipeOrdered(h)'
        OBVIOUS
      <3>1. PipeOrdered(h) /\ recvd \in Nat /\ buf[h] \subseteq Seqs
        BY DEF PipeInv
      <3>2. \A t \in Seqs : h = gen /\ InPipe(h, t) => t <= recvd /\ t < recvd + 1
        BY <2>1, <3>1 DEF PipeOrdered, Reading
      <3>3. Busy(h) => wev[h] \in Seqs /\ InPipe(h, wev[h])
        BY DEF InHand, InPipe
      <3>4. \A x \in buf[h] : InPipe(h, x)
        BY DEF InPipe
      <3>5. Busy(h)' = Busy(h) /\ \A t \in Seqs : InPipe(h, t)' => InPipe(h, t) \/ (h = gen /\ t = recvd + 1)
        BY <2>1 DEF InPipe, Busy
      <3>6. \A t \in Seqs : h = gen /\ InPipe(h, t)' => t <= recvd + 1
        BY <3>1, <3>2, <3>5
      <3>7. QED
        BY <2>1, <3>1, <3>2, <3>3, <3>4, <3>5, <3>6 DEF PipeOrdered, Reading
    <2>4. QED
      BY <2>2, <2>3 DEF PipeInv
  <1>18. CASE RunSkip
    BY <1>18 DEF RunSkip, Mark, InHand, Busy, Reading, CopiesCovered, Covered, PipeInv, PipeComplete,
       PipeOrdered, InPipe, Generations
  <1>19. CASE RunSend
    BY <1>19 DEF RunSend, InHand, Busy, Reading, CopiesCovered, Covered, PipeInv, PipeComplete, PipeOrdered,
       InPipe, Generations
  <1>20. CASE RunEnds
    BY <1>20 DEF RunEnds, EndGeneration, InHand, Busy, Reading, CopiesCovered, Covered, PipeInv,
       PipeComplete, PipeOrdered, InPipe, Generations
  <1>21. CASE ResetCursor
    BY <1>21 DEF ResetCursor, InHand, Busy, Reading, CopiesCovered, Covered, PipeInv, PipeComplete,
       PipeOrdered, InPipe, Generations
  <1>22. CASE ClearCursor
    BY <1>22 DEF ClearCursor, InHand, Busy, Reading, CopiesCovered, Covered, PipeInv, PipeComplete,
       PipeOrdered, InPipe, Generations
  <1>23. CASE ClearBackfillCursor
    BY <1>23 DEF ClearBackfillCursor, InHand, Busy, Reading, CopiesCovered, Covered, PipeInv, PipeComplete,
       PipeOrdered, InPipe, Generations
  <1>24. CASE Cancelled
    BY <1>24 DEF Cancelled, InHand, Busy, Reading, CopiesCovered, Covered, PipeInv, PipeComplete,
       PipeOrdered, InPipe, Generations
  <1>25. CASE StartFinalFlush
    BY <1>25 DEF StartFinalFlush, InHand, Busy, Reading, CopiesCovered, Covered, PipeInv, PipeComplete,
       PipeOrdered, InPipe, Generations
  <1>26. ASSUME NEW g \in Gens, Receive(g) PROVE \A h \in Gens : PipeInv(h)'
    BY <1>26 DEF Receive, InHand, Busy, Reading, CopiesCovered, Covered, PipeInv, PipeComplete, PipeOrdered,
       InPipe, Generations
  <1>27. ASSUME NEW g \in Gens, EndOfEvents(g) PROVE \A h \in Gens : PipeInv(h)'
    BY <1>27 DEF EndOfEvents, InHand, Busy, Reading, CopiesCovered, Covered, PipeInv, PipeComplete,
       PipeOrdered, InPipe, Generations
  <1>28. ASSUME NEW g \in Gens, HandleLabels(g) PROVE \A h \in Gens : PipeInv(h)'
    BY <1>28 DEF HandleLabels, Mark, InHand, Busy, Reading, CopiesCovered, Covered, PipeInv, PipeComplete,
       PipeOrdered, InPipe, Generations
  <1>29. ASSUME NEW g \in Gens, Advance(g) PROVE \A h \in Gens : PipeInv(h)'
    BY <1>29 DEF Advance, InHand, Busy, Reading, CopiesCovered, Covered, PipeInv, PipeComplete, PipeOrdered,
       InPipe, Generations
  <1>30. ASSUME NEW g \in Gens, FlushTick(g) PROVE \A h \in Gens : PipeInv(h)'
    BY <1>30 DEF FlushTick, InHand, Busy, Reading, CopiesCovered, Covered, PipeInv, PipeComplete,
       PipeOrdered, InPipe, Generations
  <1>31. ASSUME NEW g \in Gens, FinalFlush(g) PROVE \A h \in Gens : PipeInv(h)'
    BY <1>31 DEF FinalFlush, InHand, Busy, Reading, CopiesCovered, Covered, PipeInv, PipeComplete,
       PipeOrdered, InPipe, Generations
  <1>32. ASSUME NEW g \in Gens, SaveCursor(g) PROVE \A h \in Gens : PipeInv(h)'
    BY <1>32 DEF SaveCursor, InHand, Busy, Reading, CopiesCovered, Covered, PipeInv, PipeComplete,
       PipeOrdered, InPipe, Generations
  <1>33. CASE UNCHANGED vars
    BY <1>33 DEF vars, InHand, Busy, Reading, CopiesCovered, Covered, PipeInv, PipeComplete, PipeOrdered,
       InPipe, Generations
  <1>34. QED
    BY <1>1, <1>2, <1>3, <1>4, <1>5, <1>6, <1>7, <1>8, <1>9, <1>10, <1>11, <1>12, <1>13, <1>14,
       <1>15, <1>16, <1>17, <1>18, <1>19, <1>20, <1>21, <1>22, <1>23, <1>24, <1>25, <1>26,
       <1>27, <1>28, <1>29, <1>30, <1>31, <1>32, <1>33
       DEF Next, Backfill, Run, ProcessEvents, Flush

\* The initial state.
LEMMA InitInv == Init => IInv
  <1> SUFFICES ASSUME Init PROVE IInv
    OBVIOUS
  <1>1. TypeOK
    <2>0. 1 \in 1 .. N + 1 /\ 0 \in 0 .. MaxBoots
      BY LabelerAssumption
    <2>1. ServerType /\ MainType
      BY <2>0, Indices DEF Init, ServerType, MainType
    <2>2. GenerationType /\ WorkerType /\ FlusherType
      BY Indices, LabelerAssumption DEF Init, All, GenerationType, WorkerType, FlusherType
    <2>3. QED
      BY <2>1, <2>2 DEF Init, TypeOK, Fates
  <1>2. InHand /\ Generations
    BY Indices DEF Init, All, InHand, Generations, Busy, Reading
  <1>3. CopiesCovered /\ CopiesStored
    BY Indices DEF Init, All, CopiesCovered, CopiesStored, IsStored, Covered, SeenTo, Seqs
  <1>4. \A g \in Gens : PipeInv(g)
    BY DEF Init, All, PipeInv, PipeComplete, PipeOrdered, InPipe, Busy, Reading
  <1>5. QED
    BY <1>1, <1>2, <1>3, <1>4 DEF IInv

\* The invariant is inductive.
LEMMA StepInv == IInv /\ [Next]_vars => IInv'
  <1> SUFFICES ASSUME IInv, [Next]_vars PROVE IInv'
    OBVIOUS
  <1>1. TypeOK' /\ InHand' /\ Generations'
    BY TypeStep, InHandStep, GenerationsStep DEF IInv
  <1>2. CopiesCovered' /\ CopiesStored' /\ \A g \in Gens : PipeInv(g)'
    BY CopiesStep, StoredStep, PipeStep
  <1>3. QED
    BY <1>1, <1>2 DEF IInv

-----------------------------------------------------------------------------
\* The variables of the consumer have their types, in every interleaving of its
\* goroutines, resets, stops and crashes.
THEOREM TypeCorrect == Spec => []TypeOK
  <1>1. IInv => TypeOK
    BY DEF IInv
  <1>2. QED
    BY <1>1, InitInv, StepInv, PTL DEF Spec

\* The cursor row never passes a frame that is still with the consumer, and is only
\* ever at a frame with stored labels (saveCursor, clearCursor, the sentinel),
\* whichever generation's worker set the cursor and whichever flusher wrote it.
THEOREM CursorSafe == Spec => []CursorCovered
  <1>1. IInv => CursorCovered
    <2> SUFFICES ASSUME IInv PROVE CursorCovered
      OBVIOUS
    <2>1. saved \in Positions \cup {Sentinel} /\ Covered(saved)
      BY DEF IInv, TypeOK, ServerType, CopiesCovered
    <2>2. 1 .. saved \subseteq Settled
      BY <2>1, LabelerAssumption DEF Covered, Settled, Positions, Seqs, Sentinel
    <2>3. saved > 0 => saved \in Stored
      BY DEF IInv, CopiesStored, IsStored
    <2>4. QED
      BY <2>2, <2>3 DEF CursorCovered
  <1>2. QED
    BY <1>1, InitInv, StepInv, PTL DEF Spec

\* The backfill and the checkpoint that it resumes from after a crash leave
\* nothing before them unseen (runBackfill).
THEOREM BackfillSafe == Spec => []BackfillCovered
  <1>1. IInv => BackfillCovered
    <2> SUFFICES ASSUME IInv PROVE BackfillCovered
      OBVIOUS
    <2>1. ckpt \in Positions /\ SeenTo(ckpt) /\ page \in Positions
      BY DEF IInv, TypeOK, ServerType, MainType, CopiesCovered
    <2>2. mpc \in {"page", "clear", "sentinel"} => SeenTo(page)
      BY DEF IInv, CopiesCovered
    <2>3. QED
      BY <2>1, <2>2, LabelerAssumption DEF BackfillCovered, SeenTo, Seen, Positions, Seqs
  <1>2. QED
    BY <1>1, InitInv, StepInv, PTL DEF Spec

\* A generation that was replaced has its channel and genDone closed, so that its
\* goroutines are on their way out (runOnce's defers).
THEOREM ReplacedStop == Spec => []GenerationsStopped
  <1>1. IInv => GenerationsStopped
    <2> SUFFICES ASSUME IInv, NEW g \in Gens, wpc[g] # "off" \/ fpc[g] = "wait"
                 PROVE  g \in closed \/ (g = gen /\ mpc \in {"read", "send"})
      BY DEF GenerationsStopped
    <2>1. g \in Nat /\ gen \in Nat
      BY Indices DEF IInv, TypeOK, GenerationType
    <2>2. ~(g > gen)
      BY DEF IInv, Generations
    <2>3. g <= gen
      BY <2>1, <2>2
    <2>4. QED
      BY <2>3 DEF IInv, Generations, Reading
  <1>2. QED
    BY <1>1, InitInv, StepInv, PTL DEF Spec

-----------------------------------------------------------------------------
\* The consumer implements the resumable log: a step settles frames or moves the
\* row to a covered position, the sentinel being the one before the first frame.
THEOREM Refinement == Spec => ImplementsCursorLog
  <1> DEFINE row == IF saved > 0 THEN saved ELSE 0
  <1>1. Init => Log!Init
    BY DEF Init, Log!Init, Settled
  <1>2. IInv /\ [Next]_vars => [Log!Next]_(Log!logVars)
    <2> SUFFICES ASSUME IInv, [Next]_vars PROVE [Log!Next]_(Log!logVars)
      OBVIOUS
    <2>1. CASE saved' = saved
      <3>1. Settled \subseteq Settled' /\ Settled' \subseteq Seqs
        BY FateStays DEF IInv, Kept, Settled
      <3>2. Settled' \in SUBSET (1 .. N) /\ Settled' = Settled \cup Settled'
        BY <3>1 DEF Seqs
      <3>3. Log!Settle
        BY <2>1, <3>2 DEF Log!Settle
      <3>4. QED
        BY <3>3 DEF Log!Next
    <2>2. CASE saved' # saved
      <3>1. Settled' = Settled
        BY <2>2, SavedChanges DEF IInv, Settled
      <3>2. saved' \in Positions \cup {Sentinel} /\ Covered(saved')
        <4>1. TypeOK' /\ CopiesCovered'
          BY StepInv DEF IInv
        <4>2. fate' = fate
          BY <2>2, SavedChanges DEF IInv
        <4>3. QED
          BY <4>1, <4>2 DEF TypeOK, ServerType, CopiesCovered, Covered
      <3>3. row' \in 0 .. N /\ 1 .. row' \subseteq Settled
        BY <3>2, LabelerAssumption DEF Covered, Settled, Positions, Seqs, Sentinel
      <3>4. Log!Persist
        BY <3>1, <3>3 DEF Log!Persist
      <3>5. QED
        BY <3>4 DEF Log!Next
    <2>3. QED
      BY <2>1, <2>2
  <1>3. QED
    BY <1>1, <1>2, InitInv, StepInv, PTL DEF Spec, ImplementsCursorLog, Log!Spec
=============================================================================
