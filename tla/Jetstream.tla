------------------------------ MODULE Jetstream ------------------------------
(***************************************************************************)
(* The Jetstream consumer: internal/jetstream/consumer.go and client.go,   *)
(* the reconnect loop of internal/consumer/backoff.go and the cursor       *)
(* flusher of internal/cursor/flusher.go.                                  *)
(*                                                                         *)
(* One call of startInternal is a connection c \in Conns.  It creates at   *)
(* most one Client, which carries the same number.  The goroutines of a    *)
(* connection are the caller of startInternal and Client.Run (rpc), the    *)
(* processEvents goroutine (wpc) and a Flusher.Run goroutine (fpc).  The   *)
(* upstream stream is a constant sequence of events; an event's time_us is *)
(* its index, and head counts the events the server has emitted.           *)
(***************************************************************************)
EXTENDS Integers, Sequences, FiniteSets

CONSTANTS
    Stream,         \* the events the server will emit, in time_us order
    Uris,           \* record URIs
    Cids,           \* record content ids
    NoRecord,       \* "the record table has no row for this URI"
    BufferSize,     \* EventChannelBufferSize
    DisableCursor,  \* ConsumerConfig.DisableCursor
    EarlierRow,     \* an earlier run has left a cursor row, just before Stream
    MaxConns,       \* bound: connection attempts per process life
    MaxLoops,       \* bound: RunWithReconnect loops (contexts) per process life
    MaxBoots        \* bound: times the process is started

\* put and del are commits that reach the record table; noop stands for every
\* event that ProcessRecord or processEvents passes over without a database
\* write (identity and account events, unlisted collections, non-object JSON,
\* records rejected by enforced validation); bad is a frame ParseEvent rejects.
Event == [kind : {"put", "del", "noop", "bad"}, uri : Uris, cid : Cids]

ASSUME ConstantsAssumption ==
    /\ Stream \in Seq(Event)
    /\ NoRecord \notin Cids
    /\ BufferSize \in Nat \ {0}
    /\ DisableCursor \in BOOLEAN /\ EarlierRow \in BOOLEAN
    /\ MaxConns \in Nat \ {0} /\ MaxLoops \in Nat \ {0} /\ MaxBoots \in Nat \ {0}

Times == 1 .. Len(Stream)
Cursors == 0 .. Len(Stream)
Conns == 1 .. MaxConns
Loops == 1 .. MaxLoops
Live == -1          \* a subscription without a cursor

VARIABLES
    head,       \* events emitted by the server so far
    saved,      \* config row jetstream_cursor (0: no row, or EarlierRow's)
    records,    \* record table: URI -> cid
    proc,       \* the process: "down", "up", or "panic" (died of a panic)
    boots,      \* times it has been started
    running,    \* Consumer.running
    ctx,        \* Consumer.ctx: the latest loop's context
    cancelled,  \* cancelled contexts
    upd,        \* UpdateCollections: "idle", or "stopped" its old client
    loop,       \* RunWithReconnect per context: "off","ready","busy","done"
    client,     \* Consumer.client (0: nil)
    rpc,        \* the goroutine that runs startInternal and Client.Run
    rctx,       \* its context
    rcl,        \* the Client it launched processEvents and Run on
    rev,        \* the event it is about to send (0: none)
    start,      \* Client.config.Cursor (Live: none)
    closed,     \* Client.Stop has run: done and events closed
    open,       \* the Client has a usable websocket
    recvd,      \* last event read from the socket (0: socket gone)
    buf,        \* Client.events: a FIFO in time order, so a set of times
    wpc, wev,   \* processEvents: control and the event in hand (0: none)
    fpc, fval, flast, \* Flusher.Run: control, value being saved, lastFlushed
    current,    \* Flusher.cursor
    fate,       \* history: what became of each event (see Fates)
    raced,      \* history: a connection used the Client of another one
    last,       \* history: the event processed last
    ordered     \* history: commits have reached the tables in stream order (one
                \* worker at a time, none failed, no connection started past last)

server  == <<head>>
store   == <<saved, records>>
control == <<proc, boots, running, ctx, cancelled, upd, loop, client>>
runner  == <<rpc, rctx, rcl, rev>>
clients == <<start, closed, open, recvd, buf>>
worker  == <<wpc, wev>>
flusher == <<fpc, fval, flast>>
history == <<fate, raced, last, ordered>>
vars == <<server, store, control, runner, clients, worker, flusher, current,
          history>>

-----------------------------------------------------------------------------
\* History of an event: processed without error; failed and not processed
\* since; or passed over by a live subscription or as an unparsable frame.
Fates == {"none", "done", "failed", "missed"}

Missed(S) == [t \in Times |-> IF t \in S /\ fate[t] = "none" THEN "missed" ELSE fate[t]]

All(v) == [c \in Conns |-> v]

\* Nothing has run yet: no cursor row, no records; the process is down and the
\* consumer's fields have NewConsumer's zero values.
Init ==
    /\ head = 0 /\ saved = 0 /\ records = [u \in Uris |-> NoRecord]
    /\ proc = "down" /\ boots = 0 /\ running = FALSE /\ ctx = 0 /\ cancelled = {}
    /\ upd = "idle" /\ loop = [l \in Loops |-> "off"] /\ client = 0
    /\ rpc = All("off") /\ rctx = All(0) /\ rcl = All(0) /\ rev = All(0)
    /\ start = All(Live) /\ closed = All(FALSE) /\ open = All(FALSE)
    /\ recvd = All(0) /\ buf = All({})
    /\ wpc = All("off") /\ wev = All(0)
    /\ fpc = All("off") /\ fval = All(0) /\ flast = All(0) /\ current = 0
    /\ fate = [t \in Times |-> "none"] /\ raced = FALSE /\ last = 0 /\ ordered = TRUE

\* The server (external) emits its next event.
Emit ==
    /\ head < Len(Stream)
    /\ head' = head + 1
    /\ UNCHANGED <<store, control, runner, clients, worker, flusher, current, history>>

\* The process dies: everything but the database and the server is lost.  The
\* end of the process after a graceful Stop is the same step, because nothing
\* waits for the flushers before the database is closed.
Die(how) ==
    /\ proc = "up" /\ proc' = how
    /\ running' = FALSE /\ ctx' = 0 /\ cancelled' = {}
    /\ upd' = "idle" /\ loop' = [l \in Loops |-> "off"] /\ client' = 0
    /\ rpc' = All("off") /\ rctx' = All(0) /\ rcl' = All(0) /\ rev' = All(0)
    /\ start' = All(Live) /\ closed' = All(FALSE) /\ open' = All(FALSE)
    /\ recvd' = All(0) /\ buf' = All({})
    /\ wpc' = All("off") /\ wev' = All(0)
    /\ fpc' = All("off") /\ fval' = All(0) /\ flast' = All(0) /\ current' = 0
    /\ UNCHANGED <<server, store, boots, history>>

Crash == Die("down")

\* NewConsumer and Start: a context, and a reconnect loop on it.
Start ==
    /\ proc # "up" /\ boots < MaxBoots
    /\ proc' = "up" /\ boots' = boots + 1
    /\ running' = TRUE /\ ctx' = 1 /\ loop' = [loop EXCEPT ![1] = "ready"]
    /\ UNCHANGED <<server, store, cancelled, upd, client, runner, clients,
                   worker, flusher, current, history>>

-----------------------------------------------------------------------------
\* Client.Stop (stopOnce): mark done, drop the socket, close the channel.
StopClient(k) ==
    IF k = 0 \/ closed[k]
    THEN UNCHANGED <<closed, open>>
    ELSE closed' = [closed EXCEPT ![k] = TRUE] /\ open' = [open EXCEPT ![k] = FALSE]

\* Mutant: the loop does not wait for connectFn to return.
BeginConnectionTwice(l, c) ==
    /\ proc = "up" /\ loop[l] = "ready"
    /\ rpc[c] = "off" /\ \A d \in Conns : d < c => rpc[d] # "off"
    /\ rpc' = [rpc EXCEPT ![c] = "load"] /\ rctx' = [rctx EXCEPT ![c] = l]
    /\ StopClient(client) /\ client' = 0
    /\ UNCHANGED <<server, store, proc, boots, running, ctx, cancelled, upd, loop,
                   rcl, rev, start, recvd, buf, worker, flusher, current, history>>

\* RunWithReconnect, next iteration: the backoff is over and connectFn is
\* called (the select may prefer the timer to a Done that is ready as well).
\* startInternal stops and forgets the previous client.
BeginConnection(l, c) ==
    /\ proc = "up" /\ loop[l] = "ready"
    /\ rpc[c] = "off" /\ \A d \in Conns : d < c => rpc[d] # "off"
    /\ loop' = [loop EXCEPT ![l] = "busy"]
    /\ rpc' = [rpc EXCEPT ![c] = "load"] /\ rctx' = [rctx EXCEPT ![c] = l]
    /\ StopClient(client) /\ client' = 0
    /\ UNCHANGED <<server, store, proc, boots, running, ctx, cancelled, upd,
                   rcl, rev, start, recvd, buf, worker, flusher, current, history>>

\* RunWithReconnect: ctx.Done between two attempts ends the loop.
EndLoop(l) ==
    /\ loop[l] = "ready" /\ l \in cancelled
    /\ loop' = [loop EXCEPT ![l] = "done"]
    /\ UNCHANGED <<server, store, proc, boots, running, ctx, cancelled, upd, client,
                   runner, clients, worker, flusher, current, history>>

\* startInternal: loadCursor (no row, and a failed load, mean "starting from
\* live"), then a new Client with that cursor becomes Consumer.client.
NewClient(c) ==
    /\ rpc[c] = "load"
    /\ \E cur \in {saved, Live} :
          /\ cur = 0 => EarlierRow
          /\ start' = [start EXCEPT ![c] = cur]
    /\ client' = c
    /\ rpc' = [rpc EXCEPT ![c] = "connect"]
    /\ UNCHANGED <<server, store, proc, boots, running, ctx, cancelled, upd, loop,
                   rctx, rcl, rev, closed, open, recvd, buf, worker, flusher,
                   current, history>>

\* Mutant: the first error ends the reconnect loop.
ReturnForGood(c) ==
    /\ rpc' = [rpc EXCEPT ![c] = "ret"]
    /\ loop' = [loop EXCEPT ![rctx[c]] = "done"]

\* connectFn returns to RunWithReconnect, which ends if the context is
\* cancelled and otherwise starts its backoff.
Return(c) ==
    /\ rpc' = [rpc EXCEPT ![c] = "ret"]
    /\ loop' = [loop EXCEPT ![rctx[c]] = IF rctx[c] \in cancelled THEN "done" ELSE "ready"]

\* Client.buildURL: a positive cursor asks the server to replay from it, any
\* other value subscribes to what is emitted from now on.
Replay(k) == start[k] # Live /\ ~DisableCursor

\* Client.Connect on whatever Consumer.client now is (it is read again without
\* the lock).  The server replays the events after the cursor, or goes live.
Connect(c) ==
    /\ rpc[c] = "connect" /\ client # 0 /\ rctx[c] \notin cancelled
    /\ open' = [open EXCEPT ![client] = TRUE]
    /\ recvd' = [recvd EXCEPT ![client] = IF Replay(client) THEN start[client] ELSE head]
    /\ fate' = IF Replay(client) THEN fate ELSE Missed(1 .. head)
    /\ rpc' = [rpc EXCEPT ![c] = "launch"]
    /\ raced' = (raced \/ client # c)
    /\ ordered' = (ordered /\ client = c)
    /\ UNCHANGED <<server, store, control, rctx, rcl, rev, start, closed, buf,
                   worker, flusher, current, last>>

\* Client.Connect fails (always when the context is cancelled).  The last
\* connection of the bound does not fail, so that an outage ends.
ConnectFails(c) ==
    /\ rpc[c] = "connect" /\ client # 0
    /\ rctx[c] \in cancelled \/ c < MaxConns
    /\ Return(c)
    /\ UNCHANGED <<server, store, proc, boots, running, ctx, cancelled, upd, client,
                   rctx, rcl, rev, clients, worker, flusher, current, history>>

\* Another loop has set Consumer.client to nil: a nil dereference.
ConnectNil(c) == rpc[c] = "connect" /\ client = 0 /\ Die("panic")

\* startInternal: start the flusher and processEvents, then Client.Run; both
\* goroutines get the value Consumer.client has now (the code reads it for each, with
\* nothing but a go statement in between).
Launch(c) ==
    /\ rpc[c] = "launch" /\ client # 0
    /\ rpc' = [rpc EXCEPT ![c] = "check"] /\ rcl' = [rcl EXCEPT ![c] = client]
    /\ wpc' = [wpc EXCEPT ![c] = "recv"]
    /\ fpc' = IF DisableCursor THEN fpc ELSE [fpc EXCEPT ![c] = "wait"]
    /\ raced' = (raced \/ client # c)
    /\ ordered' = (/\ ordered /\ client = c /\ recvd[client] <= last
                   /\ \A d \in Conns : wpc[d] = "off")
    /\ UNCHANGED <<server, store, control, rctx, rev, clients, wev, fval, flast,
                   current, fate, last>>

LaunchNil(c) == rpc[c] = "launch" /\ client = 0 /\ Die("panic")

-----------------------------------------------------------------------------
\* Client.Run: the non-blocking select at the top of the read loop.
RunCheck(c) ==
    /\ rpc[c] = "check"
    /\ IF rctx[c] \in cancelled \/ closed[rcl[c]]
       THEN Return(c)
       ELSE rpc' = [rpc EXCEPT ![c] = "read"] /\ UNCHANGED loop
    /\ UNCHANGED <<server, store, proc, boots, running, ctx, cancelled, upd, client,
                   rctx, rcl, rev, clients, worker, flusher, current, history>>

\* Client.Run: ReadMessage returns the next event; one that does not parse is
\* passed over.
RunRead(c) ==
    LET k == rcl[c]  e == recvd[k] + 1 IN
    /\ rpc[c] = "read" /\ open[k] /\ e <= head
    /\ recvd' = [recvd EXCEPT ![k] = e]
    /\ IF Stream[e].kind = "bad"
       THEN /\ rpc' = [rpc EXCEPT ![c] = "check"] /\ UNCHANGED rev
            /\ fate' = Missed({e})
       ELSE /\ rpc' = [rpc EXCEPT ![c] = "send"] /\ rev' = [rev EXCEPT ![c] = e]
            /\ UNCHANGED fate
    /\ UNCHANGED <<server, store, control, rctx, rcl, start, closed, open, buf,
                   worker, flusher, current, raced, last, ordered>>

\* Client.Run: ReadMessage fails, because Stop closed the socket or the link
\* was lost (the last connection of the bound is not lost).
RunReadFails(c) ==
    /\ rpc[c] = "read" /\ (~open[rcl[c]] \/ c < MaxConns)
    /\ open' = [open EXCEPT ![rcl[c]] = FALSE] /\ recvd' = [recvd EXCEPT ![rcl[c]] = 0]
    /\ Return(c)
    /\ UNCHANGED <<server, store, proc, boots, running, ctx, cancelled, upd, client,
                   rctx, rcl, rev, start, closed, buf, worker, flusher,
                   current, history>>

\* Client.Run: the blocking send on the events channel.
RunSend(c) ==
    LET k == rcl[c] IN
    /\ rpc[c] = "send" /\ ~closed[k] /\ Cardinality(buf[k]) < BufferSize
    /\ buf' = [buf EXCEPT ![k] = @ \cup {rev[c]}]
    /\ rpc' = [rpc EXCEPT ![c] = "check"] /\ rev' = [rev EXCEPT ![c] = 0]
    /\ UNCHANGED <<server, store, control, rctx, rcl, start, closed, open,
                   recvd, worker, flusher, current, history>>

\* Client.Run: ctx.Done wins the select; the event in hand is dropped.
RunSendCancelled(c) ==
    /\ rpc[c] = "send" /\ rctx[c] \in cancelled
    /\ Return(c) /\ rev' = [rev EXCEPT ![c] = 0]
    /\ UNCHANGED <<server, store, proc, boots, running, ctx, cancelled, upd, client,
                   rctx, rcl, clients, worker, flusher, current, history>>

\* Client.Run: Stop closed the channel under the send, which panics.
RunSendClosed(c) == rpc[c] = "send" /\ closed[rcl[c]] /\ Die("panic")

-----------------------------------------------------------------------------
\* Mutant: the cursor advances when the event is taken, not when it is done.
ReceiveAdvances(c) ==
    LET k == rcl[c] IN
    /\ wpc[c] = "recv"
    /\ \E e \in buf[k] :
        /\ \A x \in buf[k] : e <= x
        /\ buf' = [buf EXCEPT ![k] = @ \ {e}]
        /\ wev' = [wev EXCEPT ![c] = e] /\ current' = e
    /\ wpc' = [wpc EXCEPT ![c] = "proc"]
    /\ UNCHANGED <<server, store, control, runner, start, closed, open, recvd,
                   flusher, history>>

\* processEvents: take the next event off the channel.
Receive(c) ==
    LET k == rcl[c] IN
    /\ wpc[c] = "recv"
    /\ \E e \in buf[k] :
        /\ \A x \in buf[k] : e <= x
        /\ buf' = [buf EXCEPT ![k] = @ \ {e}]
        /\ wev' = [wev EXCEPT ![c] = e]
    /\ wpc' = [wpc EXCEPT ![c] = "proc"]
    /\ UNCHANGED <<server, store, control, runner, start, closed, open, recvd,
                   flusher, current, history>>

\* processEvents: the channel is closed and drained.
EndOfEvents(c) ==
    /\ wpc[c] = "recv" /\ buf[rcl[c]] = {} /\ closed[rcl[c]]
    /\ wpc' = [wpc EXCEPT ![c] = "off"]
    /\ UNCHANGED <<server, store, control, runner, clients, wev, flusher, current, history>>

\* Mutant: a redelivered delete is taken for a duplicate, a redelivered put not.
ApplyDeleteOnce(e, table) ==
    IF Stream[e].kind = "put" \/ (Stream[e].kind = "del" /\ fate[e] # "done")
    THEN [table EXCEPT ![Stream[e].uri] =
            IF Stream[e].kind = "put" THEN Stream[e].cid ELSE NoRecord]
    ELSE table

\* The effect of one commit on the record table: InsertWithParams upserts by
\* URI (a row with the same cid is left as it is), Delete removes the row.
Apply(e, table) ==
    IF Stream[e].kind \in {"put", "del"}
    THEN [table EXCEPT ![Stream[e].uri] =
            IF Stream[e].kind = "put" THEN Stream[e].cid ELSE NoRecord]
    ELSE table

\* ProcessRecord returns nil: the commit is in the record table (which needs a
\* live context), or the event needs no write.
ProcessOK(c) ==
    LET e == wev[c] IN
    /\ wpc[c] = "proc"
    /\ Stream[e].kind = "noop" \/ rctx[c] \notin cancelled
    /\ records' = Apply(e, records)
    /\ fate' = [fate EXCEPT ![e] = "done"] /\ last' = e
    /\ wpc' = [wpc EXCEPT ![c] = "set"]
    /\ UNCHANGED <<server, saved, control, runner, clients, wev, flusher, current,
                   raced, ordered>>

\* ProcessRecord returns an error (a database error, a cancelled context):
\* processEvents counts it and goes on to the next event.
ProcessFails(c) ==
    LET e == wev[c] IN
    /\ wpc[c] = "proc" /\ Stream[e].kind # "noop"
    /\ fate' = [fate EXCEPT ![e] = IF @ = "done" THEN @ ELSE "failed"]
    /\ ordered' = FALSE
    /\ wpc' = [wpc EXCEPT ![c] = "recv"] /\ wev' = [wev EXCEPT ![c] = 0]
    /\ UNCHANGED <<server, store, control, runner, clients, flusher, current,
                   raced, last>>

\* Mutant: the cursor is the first position after the event.
SetCurrentNext(c) ==
    /\ wpc[c] = "set"
    /\ current' = wev[c] + 1
    /\ wpc' = [wpc EXCEPT ![c] = "recv"] /\ wev' = [wev EXCEPT ![c] = 0]
    /\ UNCHANGED <<server, store, control, runner, clients, flusher, history>>

\* processEvents: cursorFlusher.SetCurrent(event.TimeUS).
SetCurrent(c) ==
    /\ wpc[c] = "set"
    /\ current' = wev[c]
    /\ wpc' = [wpc EXCEPT ![c] = "recv"] /\ wev' = [wev EXCEPT ![c] = 0]
    /\ UNCHANGED <<server, store, control, runner, clients, flusher, history>>

-----------------------------------------------------------------------------
\* Flusher.Run, ticker: a cursor above lastFlushed is to be saved.
FlushTick(c) ==
    /\ fpc[c] = "wait" /\ current > flast[c]
    /\ fpc' = [fpc EXCEPT ![c] = "save"] /\ fval' = [fval EXCEPT ![c] = current]
    /\ UNCHANGED <<server, store, control, runner, clients, worker, flast, current, history>>

\* Flusher.Run, ctx.Done: finalFlush saves any positive cursor, then returns.
FinalFlush(c) ==
    /\ fpc[c] = "wait" /\ rctx[c] \in cancelled
    /\ fpc' = [fpc EXCEPT ![c] = IF current > 0 THEN "final" ELSE "done"]
    /\ fval' = [fval EXCEPT ![c] = current]
    /\ UNCHANGED <<server, store, control, runner, clients, worker, flast, current, history>>

AfterSave(c) ==
    /\ fpc' = [fpc EXCEPT ![c] = IF fpc[c] = "save" THEN "wait" ELSE "done"]
    /\ fval' = [fval EXCEPT ![c] = 0]

\* saveCursor succeeds: the config row takes the value read before.
SaveCursor(c) ==
    /\ fpc[c] \in {"save", "final"}
    /\ saved' = fval[c]
    /\ flast' = IF fpc[c] = "save" THEN [flast EXCEPT ![c] = fval[c]] ELSE flast
    /\ AfterSave(c)
    /\ UNCHANGED <<server, records, control, runner, clients, worker, current, history>>

\* saveCursor fails: logged; the next tick tries again.
SaveFails(c) ==
    /\ fpc[c] \in {"save", "final"}
    /\ AfterSave(c)
    /\ UNCHANGED <<server, store, control, runner, clients, worker, flast, current, history>>

-----------------------------------------------------------------------------
\* UpdateCollections on a running consumer: it stops the client it saw ...
UpdateCollections ==
    /\ running /\ upd = "idle" /\ ctx < MaxLoops
    /\ upd' = "stopped"
    /\ StopClient(client)
    /\ UNCHANGED <<server, store, proc, boots, running, ctx, cancelled, loop, client,
                   runner, start, recvd, buf, worker, flusher, current, history>>

\* ... then replaces the context and starts a new reconnect loop on it.
Resubscribe ==
    /\ upd = "stopped"
    /\ upd' = "idle"
    /\ cancelled' = cancelled \cup {ctx} /\ ctx' = ctx + 1
    /\ loop' = [loop EXCEPT ![ctx + 1] = "ready"]
    /\ UNCHANGED <<server, store, proc, boots, running, client, runner, clients,
                   worker, flusher, current, history>>

\* Consumer.Stop: cancel the context, stop the client.  The process exits
\* later (Crash), whatever its goroutines are doing.
Stop ==
    /\ running
    /\ running' = FALSE
    /\ cancelled' = cancelled \cup {ctx}
    /\ StopClient(client)
    /\ UNCHANGED <<server, store, proc, boots, ctx, upd, loop, client, runner,
                   start, recvd, buf, worker, flusher, current, history>>

-----------------------------------------------------------------------------
Connection(c) ==
    \/ \E l \in Loops : BeginConnection(l, c)
    \/ NewClient(c) \/ Connect(c) \/ ConnectFails(c) \/ ConnectNil(c)
    \/ Launch(c) \/ LaunchNil(c)
    \/ RunCheck(c) \/ RunRead(c) \/ RunReadFails(c)
    \/ RunSend(c) \/ RunSendCancelled(c) \/ RunSendClosed(c)

ProcessEvents(c) ==
    Receive(c) \/ EndOfEvents(c) \/ ProcessOK(c) \/ ProcessFails(c) \/ SetCurrent(c)

Flush(c) == FlushTick(c) \/ FinalFlush(c) \/ SaveCursor(c) \/ SaveFails(c)

Next ==
    \/ Emit \/ Crash \/ Start \/ UpdateCollections \/ Resubscribe \/ Stop
    \/ \E l \in Loops : EndLoop(l)
    \/ \E c \in Conns : Connection(c) \/ ProcessEvents(c) \/ Flush(c)

Spec == Init /\ [][Next]_vars

-----------------------------------------------------------------------------
\* The type invariant, one part per group of variables.
StoreType ==
    /\ head \in Cursors /\ saved \in Cursors
    /\ records \in [Uris -> Cids \cup {NoRecord}]

ControlType ==
    /\ proc \in {"down", "up", "panic"} /\ boots \in 0 .. MaxBoots
    /\ running \in BOOLEAN /\ ctx \in Loops \cup {0} /\ cancelled \in SUBSET (Loops \cup {0})
    /\ upd \in {"idle", "stopped"}
    /\ loop \in [Loops -> {"off", "ready", "busy", "done"}] /\ client \in Conns \cup {0}

RunnerType ==
    /\ rpc \in [Conns -> {"off", "load", "connect", "launch", "check", "read", "send", "ret"}]
    /\ rctx \in [Conns -> Loops \cup {0}] /\ rcl \in [Conns -> Conns \cup {0}]
    /\ rev \in [Conns -> Cursors]

ClientType ==
    /\ start \in [Conns -> Cursors \cup {Live}]
    /\ closed \in [Conns -> BOOLEAN] /\ open \in [Conns -> BOOLEAN]
    /\ recvd \in [Conns -> Cursors] /\ buf \in [Conns -> SUBSET Times]

WorkerType ==
    /\ wpc \in [Conns -> {"off", "recv", "proc", "set"}] /\ wev \in [Conns -> Cursors]

FlusherType ==
    /\ fpc \in [Conns -> {"off", "wait", "save", "final", "done"}]
    /\ fval \in [Conns -> Cursors] /\ flast \in [Conns -> Cursors]
    /\ current \in Cursors

HistoryType ==
    /\ fate \in [Times -> Fates] /\ raced \in BOOLEAN
    /\ last \in Cursors /\ ordered \in BOOLEAN

TypeOK ==
    /\ StoreType /\ ControlType /\ RunnerType /\ ClientType
    /\ WorkerType /\ FlusherType /\ HistoryType

\* An event is settled once ProcessRecord has returned for it, or once the
\* server will not deliver it any more.
Settled == {t \in Times : fate[t] # "none"}

\* The cursor row never runs ahead of the work: every event up to the saved
\* cursor has been through ProcessRecord (or was never to be delivered), at
\* every instant, hence also in what a crash leaves behind.  Several flushers
\* and processEvents goroutines share one cursor, so this is not local to any
\* of them.  Waived once two reconnect loops have shared one Client.
CursorCovered == raced \/ 1 .. saved \subseteq Settled

\* The commits on record u among the first n events, and the version they leave.
Writes(u, n) == {t \in 1 .. n : Stream[t].kind \in {"put", "del"} /\ Stream[t].uri = u}

Version(u, n) ==
    LET W == Writes(u, n)
        final == CHOOSE t \in W : \A s \in W : s <= t
    IN IF W = {} \/ Stream[final].kind = "del" THEN NoRecord ELSE Stream[final].cid

\* No record is behind the event processed last, at every instant and through every
\* crash, reconnect and replay: each is as the stream left it at that event or, while a
\* replay is catching up, at a later one that was processed before.  So the table
\* is what the stream says as soon as the newest event processed is the last one.
\* Claimed as long as commits arrive in order; a second worker, a failed commit or
\* a row that a flusher moved past a replay which then broke off leave old
\* versions behind for good.
TableIsPrefix ==
    ordered => \A u \in Uris : \E n \in last .. Len(Stream) :
        (n = last \/ fate[n] = "done") /\ records[u] = Version(u, n)

\* A reconnect never panics: the process dies of a send on a closed channel or
\* of a nil client only when Stop or UpdateCollections has torn a client down.
PanicOnlyOnTeardown ==
    [][proc' = "panic" /\ proc # "panic" => cancelled # {} \/ upd = "stopped"]_vars

\* "Don't advance cursor on failure" (processEvents): an event whose processing
\* failed is not behind the saved cursor.
FailureHoldsCursor == \A t \in 1 .. saved : fate[t] # "failed"

\* Goroutines are scheduled, the server emits, the process is restarted while
\* the bound allows it.  Nothing forces a crash, a Stop or an update.
FairSpec ==
    /\ Spec
    /\ WF_vars(Emit) /\ WF_vars(Start) /\ WF_vars(Resubscribe)
    /\ \A c \in Conns : WF_vars(Connection(c)) /\ WF_vars(ProcessEvents(c)) /\ WF_vars(Flush(c))

\* The process stays up, is not stopped, and the bound's last connection lives.
Healthy == proc = "up" /\ running /\ rpc[MaxConns] # "ret"

\* A consumer that stays up settles every event of the stream, whatever
\* reconnects, failures and collection updates came before (processEvents and
\* Client.Run never wait for each other forever).
Progress == <>[]Healthy => <>(\A t \in Times : fate[t] # "none")

-----------------------------------------------------------------------------
\* What the cursor promises (CursorLog), with every event given up for settled
\* once two loops have shared a Client.
Log == INSTANCE CursorLog WITH
           N <- Len(Stream),
           settled <- IF raced THEN Times ELSE Settled,
           saved <- saved

\* The consumer implements the abstract resumable log: events only ever become
\* settled, and the cursor row only ever takes values behind which everything
\* is settled.
ImplementsCursorLog == Log!Spec
=============================================================================
