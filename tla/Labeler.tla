------------------------------- MODULE Labeler -------------------------------
(***************************************************************************)
(* A labeler subscription: internal/labeler/consumer.go, client.go and     *)
(* backfill.go, and the reset endpoint of cmd/hypergoat/admin_http.go.     *)
(*                                                                         *)
(* The labeler emits #labels frames with seq 1, 2, ...; queryLabels pages  *)
(* over the labels of the same frames, one frame per page.  One call of    *)
(* runOnce is a generation g: the Start goroutine runs its Client (mpc),   *)
(* and each generation has a processEvents (wpc) and a cursorFlusher (fpc) *)
(* goroutine that may outlive it.                                          *)
(***************************************************************************)
EXTENDS Integers, FiniteSets

CONSTANTS
    N,                  \* bound: frames the labeler emits
    BufferSize,         \* EventChannelBufferSize
    CheckpointInterval, \* BackfillCheckpointInterval
    SkipBackfill,       \* ConsumerConfig.SkipBackfill
    MaxGens,            \* bound: generations per process life
    MaxBoots            \* bound: times the process is started

ASSUME LabelerAssumption ==
    /\ N \in Nat /\ BufferSize \in Nat \ {0} /\ CheckpointInterval \in Nat \ {0}
    /\ SkipBackfill \in BOOLEAN
    /\ MaxGens \in Nat \ {0} /\ MaxBoots \in Nat \ {0}

Seqs == 1 .. N
Positions == 0 .. N
Gens == 1 .. MaxGens
Sentinel == -1

VARIABLES
    head,       \* frames emitted
    oldest,     \* first frame the labeler still serves on the subscription
    saved,      \* row labeler_cursor:did (0: no row, Sentinel: backfill done)
    ckpt,       \* row labeler_backfill_cursor:did (0: no row)
    boots,      \* times the process was started
    mpc,        \* the goroutine of Start ("down": no process)
    stopped,    \* Stop has cancelled Consumer.ctx
    page,       \* frames fetched by the running backfill
    first,      \* where that backfill began
    sinceCkpt,  \* pagesSinceCheckpoint
    cursor,     \* Consumer.cursor
    gen,        \* the latest generation (0: none)
    start,      \* its ClientConfig.Cursor
    recvd,      \* last frame it read
    closed,     \* generations whose genDone and events channel are closed
    buf,        \* Client.events per generation: a FIFO in seq order
    wpc, wev,   \* processEvents: control, frame in hand (0: none)
    fpc, fval, flast, \* cursorFlusher: control, value being saved, lastFlushed
    reset,      \* newLabelerResetHandler: control, and history of its answer
    fate        \* history: what became of each frame (see Fates)

server  == <<head, oldest>>
rows    == <<saved, ckpt>>
control == <<boots, mpc, stopped>>
paging  == <<page, first, sinceCkpt>>
current == <<gen, start, recvd, closed, buf>>
worker  == <<wpc, wev>>
flusher == <<fpc, fval, flast>>
vars == <<server, rows, control, paging, cursor, current, worker, flusher, reset, fate>>

\* History of a frame.  "stored": upsertLabels has stored a label of it, or it had
\* none to store.  Not so yet, and "rejected": handleLabelMessage saw all its labels
\* rejected; "skipped": it did not decode, or its labels were rejected in a
\* backfill; "missed": the consumer started to listen behind it.
Fates == {"none", "stored", "rejected", "skipped", "missed"}

Missed(S) == [t \in Seqs |-> IF t \in S /\ fate[t] = "none" THEN "missed" ELSE fate[t]]

\* What is known of frame t after an attempt to store its labels.
Mark(t, how) == [fate EXCEPT ![t] = IF @ = "stored" THEN @ ELSE how]

All(v) == [g \in Gens |-> v]

\* Nothing has run yet; the fields have NewConsumer's zero values.
Init ==
    /\ head = 0 /\ oldest = 1 /\ saved = 0 /\ ckpt = 0
    /\ boots = 0 /\ mpc = "down" /\ stopped = FALSE
    /\ page = 0 /\ first = 0 /\ sinceCkpt = 0 /\ cursor = 0
    /\ gen = 0 /\ start = 0 /\ recvd = 0 /\ closed = {} /\ buf = All({})
    /\ wpc = All("off") /\ wev = All(0)
    /\ fpc = All("off") /\ fval = All(0) /\ flast = All(0)
    /\ reset = "idle" /\ fate = [t \in Seqs |-> "none"]

\* The labeler (external) emits a frame ...
Emit ==
    /\ head < N /\ head' = head + 1
    /\ UNCHANGED <<oldest, rows, control, paging, cursor, current, worker, flusher, reset, fate>>

\* ... and forgets old ones.
Trim ==
    /\ oldest <= head /\ oldest' = oldest + 1
    /\ UNCHANGED <<head, rows, control, paging, cursor, current, worker, flusher, reset, fate>>

\* The process dies, by a crash, a panic (a send on a channel that Stop closed)
\* or the exit that follows Stop, which waits for no goroutine.
Crash ==
    /\ mpc # "down" /\ mpc' = "down" /\ stopped' = FALSE
    /\ page' = 0 /\ first' = 0 /\ sinceCkpt' = 0 /\ cursor' = 0
    /\ gen' = 0 /\ start' = 0 /\ recvd' = 0 /\ closed' = {} /\ buf' = All({})
    /\ wpc' = All("off") /\ wev' = All(0)
    /\ fpc' = All("off") /\ fval' = All(0) /\ flast' = All(0)
    /\ reset' = "idle"
    /\ UNCHANGED <<server, rows, boots, fate>>

\* Start, once the labeler's host is resolved.
Start ==
    /\ mpc = "down" /\ boots < MaxBoots
    /\ boots' = boots + 1 /\ mpc' = "needed"
    /\ UNCHANGED <<server, rows, stopped, paging, cursor, current, worker, flusher, reset, fate>>

\* Stop, by shutdown or by the pause endpoint: cancel the context, stop the
\* client of the running generation.
Stop ==
    /\ mpc \notin {"down", "off"} /\ ~stopped
    /\ stopped' = TRUE
    /\ closed' = closed \cup ({gen} \ {0})
    /\ UNCHANGED <<server, rows, boots, mpc, paging, cursor, gen, start, recvd, buf,
                   worker, flusher, reset, fate>>

\* newLabelerResetHandler, under the running consumer: with a row to delete, delete
\* the cursor's (if that fails nothing has happened) ...
AdminReset ==
    /\ mpc # "down" /\ reset # "rows" /\ (saved # 0 \/ ckpt # 0)
    /\ reset' = "rows" /\ saved' = 0
    /\ UNCHANGED <<server, ckpt, control, paging, cursor, current, worker, flusher, fate>>

\* ... then the checkpoint, and answer that a restart will backfill; an error leaves
\* the first deletion in place.
AdminResetCheckpoint ==
    /\ reset = "rows"
    /\ \/ reset' = "done" /\ ckpt' = 0
       \/ reset' = "idle" /\ UNCHANGED ckpt
    /\ UNCHANGED <<server, saved, control, paging, cursor, current, worker, flusher, fate>>

-----------------------------------------------------------------------------
\* backfillIfNeeded: without a cursor row (or if it cannot be read) the backfill
\* begins at the checkpoint (if that can be read).
BackfillIfNeeded ==
    /\ mpc = "needed"
    /\ \E existing \in {saved, 0} :
        IF SkipBackfill \/ existing # 0
        THEN mpc' = "load" /\ UNCHANGED paging
        ELSE /\ mpc' = "page" /\ sinceCkpt' = 0
             /\ \E resume \in {ckpt, 0} : page' = resume /\ first' = resume
    /\ UNCHANGED <<server, rows, boots, stopped, cursor, current, worker, flusher, reset, fate>>

\* Mutant: the checkpoint is the page that comes next.
CheckpointAhead(done) ==
    IF done < head /\ sinceCkpt + 1 >= CheckpointInterval
    THEN sinceCkpt' = 0 /\ ckpt' \in {done + 1, ckpt}
    ELSE sinceCkpt' = sinceCkpt + 1 /\ UNCHANGED ckpt

\* runBackfill: with more pages to come, every CheckpointInterval pages the
\* position is saved (a failed save is only logged).
Checkpoint(done) ==
    IF done < head /\ sinceCkpt + 1 >= CheckpointInterval
    THEN sinceCkpt' = 0 /\ ckpt' \in {done, ckpt}
    ELSE sinceCkpt' = sinceCkpt + 1 /\ UNCHANGED ckpt

\* Fetch and its page handler: upsert one page, checkpoint; the page that
\* reaches the labeler's latest label has no next cursor and is the last.
Page ==
    /\ mpc = "page" /\ ~stopped
    /\ IF page < head
       THEN /\ \E how \in {"stored", "skipped"} : fate' = Mark(page + 1, how)
            /\ page' = page + 1 /\ Checkpoint(page + 1)
            /\ mpc' = IF page + 1 = head THEN "clear" ELSE "page"
       ELSE mpc' = "clear" /\ UNCHANGED <<fate, page, sinceCkpt, ckpt>>
    /\ UNCHANGED <<server, saved, boots, stopped, first, cursor, current, worker, flusher, reset>>

\* The local variables of runBackfill are gone.
BackfillReturns == page' = 0 /\ first' = 0 /\ sinceCkpt' = 0

\* Fetch fails: logged, and the live subscription starts anyway.
PageFails ==
    /\ mpc = "page" /\ mpc' = "load" /\ BackfillReturns
    /\ UNCHANGED <<server, rows, boots, stopped, cursor, current, worker,
                   flusher, reset, fate>>

\* runBackfill is done: drop the checkpoint ...
ClearCheckpoint ==
    /\ mpc = "clear" /\ mpc' = "sentinel"
    /\ ckpt' \in {0, ckpt}
    /\ UNCHANGED <<server, saved, boots, stopped, paging, cursor, current, worker,
                   flusher, reset, fate>>

\* ... and, if there were labels, leave the sentinel as the cursor row.
SaveSentinel ==
    /\ mpc = "sentinel" /\ mpc' = "load" /\ BackfillReturns
    /\ saved' \in IF page > first THEN {Sentinel, saved} ELSE {saved}
    /\ UNCHANGED <<server, ckpt, boots, stopped, cursor, current, worker,
                   flusher, reset, fate>>

-----------------------------------------------------------------------------
\* runOnce: loadCursor; a failed load means "starting live".
Load ==
    /\ mpc = "load" /\ ~stopped
    /\ start' \in {saved, 0} /\ mpc' = "connect"
    /\ UNCHANGED <<server, rows, boots, stopped, paging, cursor, gen, recvd, closed,
                   buf, worker, flusher, reset, fate>>

\* Client.Connect and the goroutines of the generation.  A positive cursor is
\* replayed from, any other value subscribes to what comes from now on.
Connect ==
    /\ mpc = "connect" /\ ~stopped /\ gen < MaxGens
    /\ gen' = gen + 1 /\ mpc' = "read"
    /\ recvd' = IF start > 0 THEN start ELSE head
    /\ fate' = IF start > 0 THEN fate ELSE Missed(1 .. head)
    /\ wpc' = [wpc EXCEPT ![gen + 1] = "recv"] /\ fpc' = [fpc EXCEPT ![gen + 1] = "wait"]
    /\ UNCHANGED <<server, rows, boots, stopped, paging, cursor, start, closed, buf,
                   wev, fval, flast, reset>>

\* Client.Connect fails; the last attempt of the bound does not.
ConnectFails ==
    /\ mpc = "connect" /\ gen + 1 < MaxGens
    /\ gen' = gen + 1 /\ closed' = closed \cup {gen + 1} /\ mpc' = "load"
    /\ UNCHANGED <<server, rows, boots, stopped, paging, cursor, start, recvd, buf,
                   worker, flusher, reset, fate>>

Outdated == start > 0 /\ recvd = start /\ start + 1 < oldest

\* Mutant: the client is left running, its channel open.
EndGenerationOpen(next) == mpc' = next /\ start' = 0 /\ recvd' = 0 /\ UNCHANGED closed

\* runOnce returns: genDone and the events channel are closed.
EndGeneration(next) ==
    closed' = closed \cup {gen} /\ mpc' = next /\ start' = 0 /\ recvd' = 0

\* Client.Run: the #info OutdatedCursor frame ends the connection.
RunOutdated ==
    /\ mpc = "read" /\ Outdated
    /\ EndGeneration("reset")
    /\ UNCHANGED <<server, rows, boots, stopped, paging, cursor, gen, buf,
                   worker, flusher, reset, fate>>

\* Client.Run: an #info frame that does not decode is passed over; the stream
\* goes on at the oldest frame there is.
RunOutdatedMasked ==
    /\ mpc = "read" /\ Outdated
    /\ recvd' = oldest - 1 /\ fate' = Missed(1 .. oldest - 1)
    /\ UNCHANGED <<server, rows, control, paging, cursor, gen, start, closed, buf,
                   worker, flusher, reset>>

\* Mutant: the cursor is the last frame read, not the last one handled.
RunReadAdvances ==
    /\ mpc = "read" /\ ~Outdated /\ recvd < head
    /\ recvd' = recvd + 1 /\ mpc' = "send" /\ cursor' = recvd + 1
    /\ UNCHANGED <<server, rows, boots, stopped, paging, gen, start, closed, buf,
                   worker, flusher, reset, fate>>

\* Client.Run reads a #labels frame ...
RunRead ==
    /\ mpc = "read" /\ ~Outdated /\ recvd < head
    /\ recvd' = recvd + 1 /\ mpc' = "send"
    /\ UNCHANGED <<server, rows, boots, stopped, paging, cursor, gen, start, closed, buf,
                   worker, flusher, reset, fate>>

\* ... that does not decode ...
RunSkip ==
    /\ mpc = "send" /\ mpc' = "read"
    /\ fate' = Mark(recvd, "skipped")
    /\ UNCHANGED <<server, rows, boots, stopped, paging, cursor, current, worker, flusher, reset>>

\* ... or goes to the events channel, which may be full.
RunSend ==
    /\ mpc = "send" /\ gen \notin closed /\ Cardinality(buf[gen]) < BufferSize
    /\ buf' = [buf EXCEPT ![gen] = @ \cup {recvd}] /\ mpc' = "read"
    /\ UNCHANGED <<server, rows, boots, stopped, paging, cursor, gen, start, recvd,
                   closed, worker, flusher, reset, fate>>

\* Client.Run returns: the link is lost (the bound's last one is not), or Stop.
RunEnds ==
    /\ \/ mpc = "read" /\ gen < MaxGens
       \/ mpc \in {"read", "send"} /\ stopped
    /\ EndGeneration(IF stopped THEN "final" ELSE "load")
    /\ UNCHANGED <<server, rows, boots, stopped, paging, cursor, gen, buf,
                   worker, flusher, reset, fate>>

\* Start's loop finds its context cancelled.
Cancelled ==
    /\ stopped /\ mpc \in {"needed", "load", "connect"} /\ mpc' = "final"
    /\ UNCHANGED <<server, rows, boots, stopped, paging, cursor, current, worker,
                   flusher, reset, fate>>

\* Start: finalFlush, and return.
StartFinalFlush ==
    /\ mpc = "final" /\ mpc' = "off"
    /\ saved' \in IF cursor > 0 THEN {cursor, saved} ELSE {saved}
    /\ UNCHANGED <<server, ckpt, boots, stopped, paging, cursor, current, worker,
                   flusher, reset, fate>>

\* OutdatedCursor recovery: forget the cursor, then its row, then the
\* checkpoint, then backfill again if the row is still gone.
ResetCursor ==
    /\ mpc = "reset" /\ mpc' = "clearCursor"
    /\ cursor' = 0
    /\ UNCHANGED <<server, rows, boots, stopped, paging, current, worker, flusher, reset, fate>>

ClearCursor ==
    /\ mpc = "clearCursor" /\ mpc' = "clearBackfill"
    /\ saved' \in {0, saved}
    /\ UNCHANGED <<server, ckpt, boots, stopped, paging, cursor, current, worker,
                   flusher, reset, fate>>

ClearBackfillCursor ==
    /\ mpc = "clearBackfill" /\ mpc' = "needed"
    /\ ckpt' \in {0, ckpt}
    /\ UNCHANGED <<server, saved, boots, stopped, paging, cursor, current, worker,
                   flusher, reset, fate>>

-----------------------------------------------------------------------------
\* processEvents takes the next frame.
Receive(g) ==
    /\ wpc[g] = "recv"
    /\ \E e \in buf[g] :
        /\ \A x \in buf[g] : e <= x
        /\ buf' = [buf EXCEPT ![g] = @ \ {e}] /\ wev' = [wev EXCEPT ![g] = e]
    /\ wpc' = [wpc EXCEPT ![g] = "handle"]
    /\ UNCHANGED <<server, rows, control, paging, cursor, gen, start, recvd, closed,
                   flusher, reset, fate>>

\* processEvents: ctx.Done, or the channel is closed and drained.
EndOfEvents(g) ==
    /\ wpc[g] = "recv" /\ (stopped \/ (g \in closed /\ buf[g] = {}))
    /\ wpc' = [wpc EXCEPT ![g] = "off"]
    /\ UNCHANGED <<server, rows, control, paging, cursor, current, wev, flusher, reset, fate>>

\* Mutant: the cursor advances whatever became of the labels.
HandleLabelsAlways(g) ==
    /\ wpc[g] = "handle"
    /\ \E how \in {"stored", "rejected"} :
        /\ stopped => how = "rejected"
        /\ fate' = Mark(wev[g], how)
        /\ wpc' = [wpc EXCEPT ![g] = "advance"]
    /\ UNCHANGED <<server, rows, control, paging, cursor, current, wev, flusher, reset>>

\* handleLabelMessage: upsertLabels stores some of the labels, or rejects them all
\* (always so once the context is cancelled); then the cursor is left alone.
HandleLabels(g) ==
    /\ wpc[g] = "handle"
    /\ \E how \in {"stored", "rejected"} :
        /\ stopped => how = "rejected"
        /\ fate' = Mark(wev[g], how)
        /\ wpc' = [wpc EXCEPT ![g] = IF how = "stored" THEN "advance" ELSE "recv"]
        /\ wev' = IF how = "stored" THEN wev ELSE [wev EXCEPT ![g] = 0]
    /\ UNCHANGED <<server, rows, control, paging, cursor, current, flusher, reset>>

\* Mutant: the cursor is the next seq wanted.
AdvanceNext(g) ==
    /\ wpc[g] = "advance"
    /\ cursor' = IF wev[g] + 1 > cursor THEN wev[g] + 1 ELSE cursor
    /\ wpc' = [wpc EXCEPT ![g] = "recv"] /\ wev' = [wev EXCEPT ![g] = 0]
    /\ UNCHANGED <<server, rows, control, paging, current, flusher, reset, fate>>

\* handleLabelMessage: the cursor only moves forwards.
Advance(g) ==
    /\ wpc[g] = "advance"
    /\ cursor' = IF wev[g] > cursor THEN wev[g] ELSE cursor
    /\ wpc' = [wpc EXCEPT ![g] = "recv"] /\ wev' = [wev EXCEPT ![g] = 0]
    /\ UNCHANGED <<server, rows, control, paging, current, flusher, reset, fate>>

\* cursorFlusher: the ticker, with a cursor above lastFlushed ...
FlushTick(g) ==
    /\ fpc[g] = "wait" /\ cursor > flast[g]
    /\ fpc' = [fpc EXCEPT ![g] = "save"] /\ fval' = [fval EXCEPT ![g] = cursor]
    /\ UNCHANGED <<server, rows, control, paging, cursor, current, worker, flast, reset, fate>>

\* ... or finalFlush at the end of the generation or of the context.
FinalFlush(g) ==
    /\ fpc[g] = "wait" /\ (stopped \/ g \in closed)
    /\ fpc' = [fpc EXCEPT ![g] = IF cursor > 0 THEN "final" ELSE "done"]
    /\ fval' = [fval EXCEPT ![g] = cursor]
    /\ UNCHANGED <<server, rows, control, paging, cursor, current, worker, flast, reset, fate>>

\* saveCursor, which may fail: the row takes the value read before.
SaveCursor(g) ==
    /\ fpc[g] \in {"save", "final"}
    /\ \E ok \in BOOLEAN :
        /\ saved' = IF ok THEN fval[g] ELSE saved
        /\ flast' = [flast EXCEPT ![g] =
                       IF fpc[g] = "final" THEN 0 ELSE IF ok THEN fval[g] ELSE @]
    /\ fpc' = [fpc EXCEPT ![g] = IF @ = "save" THEN "wait" ELSE "done"]
    /\ fval' = [fval EXCEPT ![g] = 0]
    /\ UNCHANGED <<server, ckpt, control, paging, cursor, current, worker, reset, fate>>

-----------------------------------------------------------------------------
Backfill ==
    BackfillIfNeeded \/ Page \/ PageFails \/ ClearCheckpoint \/ SaveSentinel

Run ==
    \/ Load \/ Connect \/ ConnectFails
    \/ RunOutdated \/ RunOutdatedMasked \/ RunRead \/ RunSkip \/ RunSend \/ RunEnds
    \/ ResetCursor \/ ClearCursor \/ ClearBackfillCursor
    \/ Cancelled \/ StartFinalFlush

ProcessEvents(g) == Receive(g) \/ EndOfEvents(g) \/ HandleLabels(g) \/ Advance(g)

Flush(g) == FlushTick(g) \/ FinalFlush(g) \/ SaveCursor(g)

Next ==
    \/ Emit \/ Trim \/ Crash \/ Start \/ Stop \/ AdminReset \/ AdminResetCheckpoint
    \/ Backfill \/ Run
    \/ \E g \in Gens : ProcessEvents(g) \/ Flush(g)

Spec == Init /\ [][Next]_vars

-----------------------------------------------------------------------------
ServerType ==
    /\ head \in Positions /\ oldest \in 1 .. N + 1
    /\ saved \in Positions \cup {Sentinel} /\ ckpt \in Positions

MainType ==
    /\ boots \in 0 .. MaxBoots /\ stopped \in BOOLEAN
    /\ mpc \in {"down", "off", "needed", "page", "clear", "sentinel", "load", "connect",
                "read", "send", "final", "reset", "clearCursor", "clearBackfill"}
    /\ page \in Positions /\ first \in Positions /\ sinceCkpt \in Nat
    /\ cursor \in Positions

GenerationType ==
    /\ gen \in 0 .. MaxGens /\ start \in Positions \cup {Sentinel} /\ recvd \in Positions
    /\ closed \subseteq Gens /\ buf \in [Gens -> SUBSET Seqs]

WorkerType ==
    /\ wpc \in [Gens -> {"off", "recv", "handle", "advance"}] /\ wev \in [Gens -> Positions]

FlusherType ==
    /\ fpc \in [Gens -> {"off", "wait", "save", "final", "done"}]
    /\ fval \in [Gens -> Positions] /\ flast \in [Gens -> Positions]

TypeOK ==
    /\ ServerType /\ MainType /\ GenerationType /\ WorkerType /\ FlusherType
    /\ reset \in {"idle", "rows", "done"} /\ fate \in [Seqs -> Fates]

\* Dealt with: read, or fetched, and done with, or never to be received.  A frame
\* whose labels were all rejected is among them (see RejectedHeld).
Settled == {t \in Seqs : fate[t] # "none"}

Seen == {t \in Seqs : fate[t] \notin {"none", "missed"}}
Stored == {t \in Seqs : fate[t] = "stored"}

\* The cursor row never passes a frame that is still with the consumer (unread, in
\* a channel, with a processEvents), although a goroutine of an older generation
\* may still be draining its channel or flushing when the row is cleared, reloaded
\* or moved on.  And the row is never at a frame whose labels were all rejected or
\* that did not decode: such a frame stays ahead of it, to be replayed, until the
\* labels of a later frame are stored (from then on it is passed: RejectedHeld).
CursorCovered == 1 .. saved \subseteq Settled /\ (saved > 0 => saved \in Stored)

\* The backfill skips nothing: everything before its position, and before the
\* checkpoint it will resume from after a crash, has been through upsertLabels,
\* now or when it was streamed (labels that upsertLabels rejects are not held
\* back: runBackfill goes on).
BackfillCovered ==
    /\ 1 .. ckpt \subseteq Seen
    /\ mpc \in {"page", "clear", "sentinel"} => 1 .. page \subseteq Seen

\* Goroutines do not pile up over reconnects: when a generation is replaced, its
\* channel and genDone are closed, so processEvents and the flusher are on their
\* way out ("without this ... the goroutine stuck", runOnce).
GenerationsStopped ==
    \A g \in Gens : wpc[g] # "off" \/ fpc[g] = "wait" =>
        g \in closed \/ (g = gen /\ mpc \in {"read", "send"})

\* "A non-zero cursor means we already have a complete view up to that seq"
\* (backfillIfNeeded): no frame up to a saved seq was passed over unseen.
CompleteView == \A t \in Seqs : t <= saved => fate[t] # "missed"

\* "If ALL labels were rejected [...] do NOT advance so that the frame can be
\* re-processed after reconnection" (handleLabelMessage): no such frame is behind
\* the row.
RejectedHeld == \A t \in Seqs : t <= saved => fate[t] # "rejected"

\* "force a re-backfill on next startup" (newLabelerResetHandler): once the handler
\* has answered, the next start finds no cursor row.
ResetForces == reset = "done" => saved = 0

\* One of these three promises is kept.  A behaviour that breaks this one breaks
\* all three: the row of a running consumer ends behind a frame never seen, behind
\* one whose labels were all rejected, and written back after a reset.
SomePromiseKept == CompleteView \/ RejectedHeld \/ ResetForces

-----------------------------------------------------------------------------
Log == INSTANCE CursorLog WITH
           settled <- Settled,
           saved <- IF saved > 0 THEN saved ELSE 0

\* The consumer implements the abstract resumable log; the sentinel is the
\* position before the first frame.
ImplementsCursorLog == Log!Spec
=============================================================================
