--------------------------- MODULE JetstreamProofs ---------------------------
(***************************************************************************)
(* Proofs about Jetstream: type correctness, the safety of the persisted   *)
(* cursor, the refinement of CursorLog, what the record table holds, and   *)
(* that reconnecting alone never ends the process.                         *)
(***************************************************************************)
EXTENDS Jetstream, TLAPS

\* What the provers need of the index sets, which stay folded elsewhere.
LEMMA Indices ==
    /\ 0 \in Cursors /\ Times \subseteq Cursors /\ Cursors \subseteq Nat
    /\ 1 \in Loops /\ Loops \subseteq Nat /\ Conns \subseteq Nat
    /\ 0 \in 0 .. MaxBoots
    /\ \A b \in 0 .. MaxBoots : b < MaxBoots => b + 1 \in 0 .. MaxBoots
    /\ \A h \in Cursors : h < Len(Stream) => h + 1 \in Cursors
    /\ \A r, h \in Cursors : r + 1 <= h => r + 1 \in Times
    /\ \A t \in Times : Stream[t] \in Event
  BY ConstantsAssumption DEF Times, Cursors, Conns, Loops

\* A goroutine that runs on a Client has one, one that is about to send or to
\* process an event holds one, and only a live process updates collections.
InHand ==
    /\ upd = "stopped" => ctx + 1 \in Loops
    /\ running \/ upd = "stopped" => proc = "up"
    /\ \A c \in Conns :
        /\ rpc[c] \in {"check", "read", "send"} \/ wpc[c] # "off" => rcl[c] \in Conns
        /\ rpc[c] = "send" => rev[c] \in Times
        /\ wpc[c] \in {"proc", "set"} => wev[c] \in Times

-----------------------------------------------------------------------------
\* The inductive invariant behind CursorCovered.  An event read by connection c
\* and not yet settled is in its pipe: with Client.Run, in the channel or with
\* processEvents.
Covered(v) == \A t \in Times : t <= v => fate[t] # "none"

Busy(c) == wpc[c] \in {"proc", "set"}

InPipe(c, t) == t \in buf[c] \/ (Busy(c) /\ t = wev[c]) \/ (rpc[c] = "send" /\ t = rev[c])

Reading(c) == rpc[c] \in {"launch", "check", "read", "send"}

\* Every copy of the cursor is covered: the row, the shared atomic, the value a
\* flusher is about to save, the value a Client will resume from.
CopiesCovered ==
    /\ Covered(saved) /\ Covered(current)
    /\ \A c \in Conns : Covered(fval[c]) /\ Covered(start[c])

\* A connection works on its own Client, which is empty before it is launched.
OwnClient(c) ==
    /\ rcl[c] \in {0, c}
    /\ rpc[c] \in {"off", "load", "connect", "launch"} => wpc[c] = "off" /\ buf[c] = {}

\* Nothing falls out of a pipe: what was read is settled or still in the pipe,
\* and so is everything before an event in the pipe.
PipeComplete(c) ==
    \A t \in Times :
        /\ Reading(c) /\ t <= recvd[c] => fate[t] # "none" \/ InPipe(c, t)
        /\ \A e \in Times : InPipe(c, e) /\ t < e => fate[t] # "none" \/ InPipe(c, t)

\* The pipe is in order: processEvents, then the channel, then Client.Run.
PipeOrdered(c) ==
    /\ \A x \in buf[c] : Busy(c) => wev[c] < x
    /\ \A x \in buf[c] : rpc[c] = "send" => x < rev[c]
    /\ Busy(c) /\ rpc[c] = "send" => wev[c] < rev[c]
    /\ \A t \in Times : Reading(c) /\ InPipe(c, t) => t <= recvd[c]
    /\ wpc[c] = "set" => fate[wev[c]] # "none"

PipeInv(c) == OwnClient(c) /\ PipeComplete(c) /\ PipeOrdered(c)

CursorInv == CopiesCovered /\ \A c \in Conns : PipeInv(c)

IInv == TypeOK /\ InHand /\ (raced \/ CursorInv)

-----------------------------------------------------------------------------
\* A group of variables that a step leaves alone keeps its type.
LEMMA TypeFrame ==
  ASSUME TypeOK
  PROVE  /\ UNCHANGED server /\ UNCHANGED store => StoreType'
         /\ UNCHANGED control => ControlType'
         /\ UNCHANGED runner => RunnerType'
         /\ UNCHANGED clients => ClientType'
         /\ UNCHANGED worker => WorkerType'
         /\ UNCHANGED flusher /\ UNCHANGED current => FlusherType'
         /\ UNCHANGED history => HistoryType'
  <1>1. UNCHANGED server /\ UNCHANGED store => StoreType'
    BY DEF TypeOK, StoreType, server, store
  <1>2. UNCHANGED control => ControlType'
    BY DEF TypeOK, ControlType, control
  <1>3. UNCHANGED runner => RunnerType'
    BY DEF TypeOK, RunnerType, runner
  <1>4. UNCHANGED clients => ClientType'
    BY DEF TypeOK, ClientType, clients
  <1>5. UNCHANGED worker => WorkerType'
    BY DEF TypeOK, WorkerType, worker
  <1>6. UNCHANGED flusher /\ UNCHANGED current => FlusherType'
    BY DEF TypeOK, FlusherType, flusher
  <1>7. UNCHANGED history => HistoryType'
    BY DEF TypeOK, HistoryType, history
  <1>8. QED
    BY <1>1, <1>2, <1>3, <1>4, <1>5, <1>6, <1>7

\* Every step keeps the type invariant: the groups an action writes are shown
\* one by one, the others come from TypeFrame.
LEMMA TypeNext == ASSUME TypeOK, InHand, [Next]_vars PROVE TypeOK'
  <1> USE Indices
  <1>1. ASSUME NEW how \in {"down", "panic"}, Die(how) PROVE TypeOK'
    <2>1. StoreType' /\ HistoryType'
      BY <1>1, TypeFrame DEF Fates, Die
    <2>2. ControlType'
      BY <1>1 DEF Die, TypeOK, ControlType
    <2>3. RunnerType' /\ ClientType' /\ WorkerType' /\ FlusherType'
      BY <1>1 DEF Die, All, RunnerType, ClientType, WorkerType, FlusherType
    <2>4. QED
      BY TypeFrame, <2>1, <2>2, <2>3 DEF TypeOK
  <1>2. CASE Emit
    <2>1. StoreType'
      BY <1>2 DEF Emit, TypeOK, StoreType, server, store
    <2>2. QED
      BY TypeFrame, <1>2, <2>1 DEF Emit, TypeOK
  <1>3. CASE Start
    <2>1. ControlType'
      BY <1>3 DEF Start, TypeOK, ControlType, control
    <2>2. QED
      BY TypeFrame, <1>3, <2>1 DEF Start, TypeOK
  <1>4. CASE UpdateCollections
    <2>1. ControlType'
      BY <1>4 DEF UpdateCollections, StopClient, TypeOK, ControlType, control
    <2>2. ClientType'
      BY <1>4 DEF UpdateCollections, StopClient, TypeOK, ClientType, ControlType, clients
    <2>3. QED
      BY TypeFrame, <1>4, <2>1, <2>2 DEF UpdateCollections, TypeOK
  <1>5. CASE Resubscribe
    <2>1. ControlType'
      BY <1>5 DEF Resubscribe, InHand, TypeOK, ControlType, control
    <2>2. QED
      BY TypeFrame, <1>5, <2>1 DEF Resubscribe, InHand, TypeOK
  <1>6. CASE Stop
    <2>1. ControlType'
      BY <1>6 DEF Stop, StopClient, TypeOK, ControlType, control
    <2>2. ClientType'
      BY <1>6 DEF Stop, StopClient, TypeOK, ClientType, ControlType, clients
    <2>3. QED
      BY TypeFrame, <1>6, <2>1, <2>2 DEF Stop, TypeOK
  <1>7. ASSUME NEW l \in Loops, EndLoop(l) PROVE TypeOK'
    <2>1. ControlType'
      BY <1>7 DEF EndLoop, TypeOK, ControlType, control
    <2>2. QED
      BY TypeFrame, <1>7, <2>1 DEF EndLoop, TypeOK
  <1>8. ASSUME NEW l \in Loops, NEW c \in Conns, BeginConnection(l, c) PROVE TypeOK'
    <2>1. ControlType'
      BY <1>8 DEF BeginConnection, StopClient, TypeOK, ControlType, control
    <2>2. RunnerType'
      BY <1>8 DEF BeginConnection, StopClient, TypeOK, RunnerType, ControlType, runner
    <2>3. ClientType'
      BY <1>8 DEF BeginConnection, StopClient, TypeOK, ClientType, ControlType, clients
    <2>4. QED
      BY TypeFrame, <1>8, <2>1, <2>2, <2>3 DEF BeginConnection, TypeOK
  <1>9. ASSUME NEW c \in Conns, NewClient(c) PROVE TypeOK'
    <2>1. ControlType'
      BY <1>9 DEF NewClient, TypeOK, ControlType, control
    <2>2. RunnerType'
      BY <1>9 DEF NewClient, TypeOK, RunnerType, runner
    <2>3. ClientType'
      BY <1>9 DEF NewClient, TypeOK, ClientType, StoreType, clients
    <2>4. QED
      BY TypeFrame, <1>9, <2>1, <2>2, <2>3 DEF NewClient, TypeOK
  <1>10. ASSUME NEW c \in Conns, Connect(c) PROVE TypeOK'
    <2>1. RunnerType'
      BY <1>10 DEF Connect, Missed, TypeOK, RunnerType, StoreType, ClientType, ControlType, runner
    <2>2. ClientType'
      BY <1>10 DEF Connect, Replay, Missed, TypeOK, ClientType, StoreType, ControlType, clients
    <2>3. HistoryType'
      BY <1>10 DEF Fates, Connect, Missed, TypeOK, HistoryType, StoreType, ClientType, ControlType, history
    <2>4. QED
      BY TypeFrame, <1>10, <2>1, <2>2, <2>3 DEF Connect, TypeOK
  <1>11. ASSUME NEW c \in Conns, ConnectFails(c) PROVE TypeOK'
    <2>1. ControlType'
      BY <1>11 DEF ConnectFails, Return, TypeOK, ControlType, control
    <2>2. RunnerType'
      BY <1>11 DEF ConnectFails, Return, TypeOK, RunnerType, runner
    <2>3. QED
      BY TypeFrame, <1>11, <2>1, <2>2 DEF ConnectFails, TypeOK
  <1>12. ASSUME NEW c \in Conns, Launch(c) PROVE TypeOK'
    <2>1. RunnerType'
      BY <1>12 DEF Launch, TypeOK, RunnerType, ControlType, runner
    <2>2. WorkerType'
      BY <1>12 DEF Launch, TypeOK, WorkerType, ControlType, worker
    <2>3. FlusherType'
      BY <1>12 DEF Launch, TypeOK, FlusherType, ControlType, flusher
    <2>4. HistoryType'
      BY <1>12 DEF Fates, Launch, TypeOK, HistoryType, ControlType, history
    <2>5. QED
      BY TypeFrame, <1>12, <2>1, <2>2, <2>3, <2>4 DEF Launch, TypeOK
  <1>13. ASSUME NEW c \in Conns, RunCheck(c) PROVE TypeOK'
    <2>1. ControlType'
      BY <1>13 DEF RunCheck, Return, TypeOK, ControlType, control
    <2>2. RunnerType'
      BY <1>13 DEF RunCheck, Return, TypeOK, RunnerType, runner
    <2>3. QED
      BY TypeFrame, <1>13, <2>1, <2>2 DEF RunCheck, TypeOK
  <1>14. ASSUME NEW c \in Conns, RunRead(c) PROVE TypeOK'
    <2>0. rcl[c] \in Conns /\ recvd[rcl[c]] + 1 \in Times
      BY <1>14 DEF RunRead, InHand, TypeOK, ClientType, StoreType
    <2>1. RunnerType'
      BY <1>14, <2>0 DEF RunRead, TypeOK, RunnerType
    <2>2. ClientType'
      BY <1>14, <2>0 DEF RunRead, TypeOK, ClientType
    <2>3. HistoryType'
      BY <1>14, <2>0 DEF RunRead, Missed, TypeOK, HistoryType, Fates
    <2>4. QED
      BY TypeFrame, <1>14, <2>1, <2>2, <2>3 DEF RunRead, TypeOK
  <1>15. ASSUME NEW c \in Conns, RunReadFails(c) PROVE TypeOK'
    <2>1. ControlType'
      BY <1>15 DEF RunReadFails, InHand, Return, TypeOK, ControlType, RunnerType, control
    <2>2. RunnerType'
      BY <1>15 DEF RunReadFails, InHand, Return, TypeOK, RunnerType, runner
    <2>3. ClientType'
      BY <1>15 DEF RunReadFails, InHand, Return, TypeOK, ClientType, RunnerType, clients
    <2>4. QED
      BY TypeFrame, <1>15, <2>1, <2>2, <2>3 DEF RunReadFails, TypeOK
  <1>16. ASSUME NEW c \in Conns, RunSend(c) PROVE TypeOK'
    <2>1. RunnerType'
      BY <1>16 DEF RunSend, InHand, TypeOK, RunnerType, ClientType, runner
    <2>2. ClientType'
      BY <1>16 DEF RunSend, InHand, TypeOK, ClientType, RunnerType, clients
    <2>3. QED
      BY TypeFrame, <1>16, <2>1, <2>2 DEF RunSend, TypeOK
  <1>17. ASSUME NEW c \in Conns, RunSendCancelled(c) PROVE TypeOK'
    <2>1. ControlType'
      BY <1>17 DEF RunSendCancelled, Return, TypeOK, ControlType, control
    <2>2. RunnerType'
      BY <1>17 DEF RunSendCancelled, Return, TypeOK, RunnerType, runner
    <2>3. QED
      BY TypeFrame, <1>17, <2>1, <2>2 DEF RunSendCancelled, TypeOK
  <1>18. ASSUME NEW c \in Conns, Receive(c) PROVE TypeOK'
    <2>0. rcl[c] \in Conns
      BY <1>18 DEF Receive, InHand
    <2>1. ClientType'
      BY <1>18, <2>0 DEF Receive, TypeOK, ClientType
    <2>2. WorkerType'
      BY <1>18, <2>0 DEF Receive, TypeOK, WorkerType, ClientType
    <2>3. QED
      BY TypeFrame, <1>18, <2>1, <2>2 DEF Receive, TypeOK
  <1>19. ASSUME NEW c \in Conns, EndOfEvents(c) PROVE TypeOK'
    <2>1. WorkerType'
      BY <1>19 DEF EndOfEvents, TypeOK, WorkerType, worker
    <2>2. QED
      BY TypeFrame, <1>19, <2>1 DEF EndOfEvents, TypeOK
  <1>20. ASSUME NEW c \in Conns, ProcessOK(c) PROVE TypeOK'
    <2>1. wev[c] \in Times /\ Stream[wev[c]] \in Event
      BY <1>20 DEF ProcessOK, InHand
    <2>2. StoreType'
      BY <1>20, <2>1 DEF ProcessOK, Apply, Event, TypeOK, StoreType, server
    <2>3. WorkerType'
      BY <1>20 DEF ProcessOK, TypeOK, WorkerType, worker
    <2>4. HistoryType'
      BY <1>20 DEF Fates, InHand, ProcessOK, TypeOK, HistoryType, history
    <2>5. QED
      BY TypeFrame, <1>20, <2>1, <2>2, <2>3, <2>4 DEF ProcessOK, TypeOK
  <1>21. ASSUME NEW c \in Conns, ProcessFails(c) PROVE TypeOK'
    <2>1. WorkerType'
      BY <1>21 DEF ProcessFails, TypeOK, WorkerType, worker
    <2>2. HistoryType'
      BY <1>21 DEF Fates, InHand, ProcessFails, TypeOK, HistoryType, history
    <2>3. QED
      BY TypeFrame, <1>21, <2>1, <2>2 DEF ProcessFails, TypeOK
  <1>22. ASSUME NEW c \in Conns, SetCurrent(c) PROVE TypeOK'
    <2>1. WorkerType'
      BY <1>22 DEF SetCurrent, TypeOK, WorkerType, worker
    <2>2. FlusherType'
      BY <1>22 DEF SetCurrent, TypeOK, FlusherType, WorkerType, flusher
    <2>3. QED
      BY TypeFrame, <1>22, <2>1, <2>2 DEF SetCurrent, TypeOK
  <1>23. ASSUME NEW c \in Conns, FlushTick(c) PROVE TypeOK'
    <2>1. FlusherType'
      BY <1>23 DEF FlushTick, TypeOK, FlusherType, flusher
    <2>2. QED
      BY TypeFrame, <1>23, <2>1 DEF FlushTick, TypeOK
  <1>24. ASSUME NEW c \in Conns, FinalFlush(c) PROVE TypeOK'
    <2>1. FlusherType'
      BY <1>24 DEF FinalFlush, TypeOK, FlusherType, flusher
    <2>2. QED
      BY TypeFrame, <1>24, <2>1 DEF FinalFlush, TypeOK
  <1>25. ASSUME NEW c \in Conns, SaveCursor(c) PROVE TypeOK'
    <2>1. StoreType'
      BY <1>25 DEF SaveCursor, AfterSave, TypeOK, StoreType, FlusherType, server, store
    <2>2. FlusherType'
      BY <1>25 DEF SaveCursor, AfterSave, TypeOK, FlusherType, flusher
    <2>3. QED
      BY TypeFrame, <1>25, <2>1, <2>2 DEF SaveCursor, TypeOK
  <1>26. ASSUME NEW c \in Conns, SaveFails(c) PROVE TypeOK'
    <2>1. FlusherType'
      BY <1>26 DEF SaveFails, AfterSave, TypeOK, FlusherType, flusher
    <2>2. QED
      BY TypeFrame, <1>26, <2>1 DEF SaveFails, TypeOK
  <1>27. CASE UNCHANGED vars
    BY <1>27, TypeFrame DEF vars, TypeOK
  <1>28. QED
    BY <1>1, <1>2, <1>3, <1>4, <1>5, <1>6, <1>7, <1>8, <1>9, <1>10, <1>11, <1>12, <1>13, <1>14, <1>15, <1>16, <1>17, <1>18, <1>19, <1>20, <1>21, <1>22, <1>23, <1>24, <1>25, <1>26, <1>27
       DEF Next, Crash, Connection, ProcessEvents, Flush, ConnectNil, LaunchNil, RunSendClosed

-----------------------------------------------------------------------------
\* Every step keeps InHand; only the actions that touch it have a step.
LEMMA InHandNext == ASSUME TypeOK, InHand, [Next]_vars PROVE InHand'
  <1> USE DEF server, store, control, runner, clients, worker, flusher, history
  <1>1. ASSUME NEW how \in {"down", "panic"}, Die(how) PROVE InHand'
    BY <1>1 DEF Die, All, InHand
  <1>2. CASE Emit
    BY <1>2 DEF Emit, InHand
  <1>3. CASE Start
    BY <1>3 DEF Start, InHand
  <1>4. CASE UpdateCollections
    <2>1. ctx + 1 \in Loops
      BY <1>4, ConstantsAssumption DEF UpdateCollections, TypeOK, ControlType, Loops
    <2>2. QED
      BY <1>4, <2>1 DEF UpdateCollections, InHand
  <1>5. CASE Resubscribe
    BY <1>5 DEF Resubscribe, InHand
  <1>6. CASE Stop
    BY <1>6 DEF Stop, InHand
  <1>7. ASSUME NEW l \in Loops, EndLoop(l) PROVE InHand'
    BY <1>7 DEF EndLoop, InHand
  <1>8. ASSUME NEW l \in Loops, NEW c \in Conns, BeginConnection(l, c) PROVE InHand'
    BY <1>8 DEF BeginConnection, InHand, TypeOK, RunnerType
  <1>9. ASSUME NEW c \in Conns, NewClient(c) PROVE InHand'
    BY <1>9 DEF NewClient, InHand, TypeOK, RunnerType
  <1>10. ASSUME NEW c \in Conns, Connect(c) PROVE InHand'
    BY <1>10 DEF Connect, InHand, TypeOK, RunnerType
  <1>11. ASSUME NEW c \in Conns, ConnectFails(c) PROVE InHand'
    BY <1>11 DEF ConnectFails, Return, InHand, TypeOK, RunnerType
  <1>12. ASSUME NEW c \in Conns, Launch(c) PROVE InHand'
    BY <1>12 DEF Launch, InHand, TypeOK, RunnerType, WorkerType, ControlType
  <1>13. ASSUME NEW c \in Conns, RunCheck(c) PROVE InHand'
    BY <1>13 DEF RunCheck, Return, InHand, TypeOK, RunnerType
  <1>14. ASSUME NEW c \in Conns, RunRead(c) PROVE InHand'
    <2>1. rcl[c] \in Conns /\ recvd[rcl[c]] + 1 \in Times
      BY <1>14, Indices DEF RunRead, InHand, TypeOK, ClientType, StoreType
    <2>2. QED
      BY <1>14, <2>1 DEF RunRead, InHand, TypeOK, RunnerType
  <1>15. ASSUME NEW c \in Conns, RunReadFails(c) PROVE InHand'
    BY <1>15 DEF RunReadFails, Return, InHand, TypeOK, RunnerType
  <1>16. ASSUME NEW c \in Conns, RunSend(c) PROVE InHand'
    BY <1>16 DEF RunSend, InHand, TypeOK, RunnerType
  <1>17. ASSUME NEW c \in Conns, RunSendCancelled(c) PROVE InHand'
    BY <1>17 DEF RunSendCancelled, Return, InHand, TypeOK, RunnerType
  <1>18. ASSUME NEW c \in Conns, Receive(c) PROVE InHand'
    BY <1>18 DEF Receive, InHand, TypeOK, WorkerType, ClientType
  <1>19. ASSUME NEW c \in Conns, EndOfEvents(c) PROVE InHand'
    BY <1>19 DEF EndOfEvents, InHand, TypeOK, WorkerType
  <1>20. ASSUME NEW c \in Conns, ProcessOK(c) PROVE InHand'
    BY <1>20 DEF ProcessOK, InHand, TypeOK, WorkerType
  <1>21. ASSUME NEW c \in Conns, ProcessFails(c) PROVE InHand'
    BY <1>21 DEF ProcessFails, InHand, TypeOK, WorkerType
  <1>22. ASSUME NEW c \in Conns, SetCurrent(c) PROVE InHand'
    BY <1>22 DEF SetCurrent, InHand, TypeOK, WorkerType
  <1>23. ASSUME NEW c \in Conns, Flush(c) PROVE InHand'
    BY <1>23 DEF Flush, FlushTick, FinalFlush, SaveCursor, SaveFails, AfterSave, InHand
  <1>24. CASE UNCHANGED vars
    BY <1>24 DEF vars, InHand
  <1>25. QED
    BY <1>1, <1>2, <1>3, <1>4, <1>5, <1>6, <1>7, <1>8, <1>9, <1>10, <1>11, <1>12, <1>13,
       <1>14, <1>15, <1>16, <1>17, <1>18, <1>19, <1>20, <1>21, <1>22, <1>23, <1>24
       DEF Next, Crash, Connection, ProcessEvents, ConnectNil, LaunchNil, RunSendClosed

-----------------------------------------------------------------------------
\* An event that is settled stays settled.
LEMMA SettledStays ==
  ASSUME TypeOK, InHand, [Next]_vars, NEW t \in Times, fate[t] # "none"
  PROVE  fate'[t] # "none"
  <1> USE DEF TypeOK, HistoryType
  <1>1. ASSUME NEW c \in Conns, Connect(c) PROVE fate'[t] # "none"
    BY <1>1 DEF Connect, Missed
  <1>2. ASSUME NEW c \in Conns, RunRead(c) PROVE fate'[t] # "none"
    BY <1>2 DEF RunRead, Missed
  <1>3. ASSUME NEW c \in Conns, ProcessOK(c) \/ ProcessFails(c) PROVE fate'[t] # "none"
    BY <1>3 DEF ProcessOK, ProcessFails
  <1>4. CASE fate' = fate
    BY <1>4
  <1>5. QED
    BY <1>1, <1>2, <1>3, <1>4
       DEF Next, Emit, Crash, Die, Start, UpdateCollections, Resubscribe, Stop, EndLoop,
           Connection, BeginConnection, NewClient, ConnectFails, ConnectNil, Launch, LaunchNil,
           RunCheck, RunReadFails, RunSend, RunSendCancelled, RunSendClosed,
           ProcessEvents, Receive, EndOfEvents, SetCurrent,
           Flush, FlushTick, FinalFlush, SaveCursor, SaveFails, vars, history

\* A connection whose own variables a step leaves alone keeps its pipe in order.
LEMMA PipeFrame ==
  ASSUME NEW d \in Conns, PipeInv(d), InHand,
         \A t \in Times : fate[t] # "none" => fate'[t] # "none",
         rpc'[d] = rpc[d], rcl'[d] = rcl[d], rev'[d] = rev[d], recvd'[d] = recvd[d],
         buf'[d] = buf[d], wpc'[d] = wpc[d], wev'[d] = wev[d]
  PROVE  PipeInv(d)'
  <1>1. OwnClient(d)'
    BY DEF PipeInv, OwnClient
  <1>2. PipeComplete(d)'
    BY DEF PipeInv, PipeComplete, InPipe, Busy, Reading
  <1>3. PipeOrdered(d)'
    BY DEF PipeInv, PipeOrdered, InPipe, Busy, Reading, InHand
  <1>4. QED
    BY <1>1, <1>2, <1>3 DEF PipeInv

\* Every copy of the cursor stays covered.
LEMMA CopiesNext ==
  ASSUME TypeOK, InHand, CursorInv, [Next]_vars
  PROVE  CopiesCovered'
  <1>0. \A t \in Times : fate[t] # "none" => fate'[t] # "none"
    BY SettledStays
  <1>1. CASE UNCHANGED <<saved, current, fval, start>>
    BY <1>0, <1>1 DEF CursorInv, CopiesCovered, Covered
  <1>2. ASSUME NEW how \in {"down", "panic"}, Die(how) PROVE CopiesCovered'
    <2>1. current' = 0 /\ saved' = saved /\ \A c \in Conns : fval'[c] = 0 /\ start'[c] = Live
      BY <1>2 DEF Die, All, store
    <2>2. \A t \in Times : ~(t <= 0) /\ ~(t <= Live)
      BY Indices DEF Times, Live
    <2>3. QED
      BY <1>0, <2>1, <2>2 DEF CursorInv, CopiesCovered, Covered
  <1>3. ASSUME NEW c \in Conns, NewClient(c) PROVE CopiesCovered'
    <2>1. \A t \in Times : ~(t <= Live)
      BY Indices DEF Times, Live
    <2>2. QED
      BY <1>0, <1>3, <2>1
         DEF NewClient, CursorInv, CopiesCovered, Covered, TypeOK, ClientType, store, flusher
  <1>4. ASSUME NEW c \in Conns, SetCurrent(c) PROVE CopiesCovered'
    <2>1. wev[c] \in Times /\ PipeInv(c) /\ Busy(c) /\ InPipe(c, wev[c])
      BY <1>4 DEF SetCurrent, InHand, CursorInv, Busy, InPipe
    <2>2. ASSUME NEW t \in Times, t < wev[c] PROVE fate[t] # "none"
      <3>1. fate[t] # "none" \/ InPipe(c, t)
        BY <2>1, <2>2 DEF PipeInv, PipeComplete
      <3>2. t \in Nat /\ wev[c] \in Nat /\ ~(wev[c] < t) /\ t # wev[c]
        BY <2>1, <2>2 DEF Times
      <3>3. t \notin buf[c]
        BY <2>1, <3>2 DEF PipeInv, PipeOrdered
      <3>4. ~(rpc[c] = "send" /\ t = rev[c])
        BY <2>1, <3>2 DEF PipeInv, PipeOrdered
      <3>5. QED
        BY <3>1, <3>2, <3>3, <3>4 DEF InPipe
    <2>3. fate[wev[c]] # "none"
      BY <1>4, <2>1 DEF SetCurrent, PipeInv, PipeOrdered
    <2>4. Covered(wev[c])
      BY <2>1, <2>2, <2>3 DEF Covered, Times
    <2>5. QED
      BY <1>0, <1>4, <2>4
         DEF SetCurrent, CursorInv, CopiesCovered, Covered, store, clients, flusher
  <1>5. ASSUME NEW c \in Conns, FlushTick(c) \/ FinalFlush(c) PROVE CopiesCovered'
    BY <1>0, <1>5
       DEF FlushTick, FinalFlush, CursorInv, CopiesCovered, Covered, store, clients, TypeOK, FlusherType
  <1>6. ASSUME NEW c \in Conns, SaveCursor(c) \/ SaveFails(c) PROVE CopiesCovered'
    <2>1. \A t \in Times : ~(t <= 0)
      BY Indices DEF Times
    <2>2. QED
      BY <1>0, <1>6, <2>1
         DEF SaveCursor, SaveFails, AfterSave, CursorInv, CopiesCovered, Covered, store, clients,
             TypeOK, FlusherType
  <1>7. QED
    BY <1>1, <1>2, <1>3, <1>4, <1>5, <1>6
       DEF Next, Emit, Crash, Start, UpdateCollections, Resubscribe, Stop, EndLoop,
           Connection, BeginConnection, Connect, ConnectFails, ConnectNil, Launch, LaunchNil,
           RunCheck, RunRead, RunReadFails, RunSend, RunSendCancelled, RunSendClosed,
           ProcessEvents, Receive, EndOfEvents, ProcessOK, ProcessFails,
           Flush, vars, store, clients, flusher

\* Every connection's pipe stays complete and in order, as long as no two
\* connections share a Client.
LEMMA PipeNext ==
  ASSUME TypeOK, InHand, CursorInv, [Next]_vars, ~raced'
  PROVE  \A d \in Conns : PipeInv(d)'
  <1>0. \A t \in Times : fate[t] # "none" => fate'[t] # "none"
    BY SettledStays
  <1> SUFFICES ASSUME NEW d \in Conns PROVE PipeInv(d)'
    OBVIOUS
  <1>a. PipeInv(d)
    BY DEF CursorInv
  <1>b. \A t \in Times : t \in Nat
    BY DEF Times
  <1>c. \A c \in Conns : rpc[c] \in {"check", "read", "send"} \/ wpc[c] # "off" => rcl[c] = c
    <2>1. \A c \in Conns : rcl[c] \in {0, c} /\ 0 \notin Conns
      BY DEF CursorInv, PipeInv, OwnClient, Conns
    <2>2. QED
      BY <2>1 DEF InHand
  <1> DEFINE Kept == /\ rpc'[d] = rpc[d] /\ rcl'[d] = rcl[d] /\ rev'[d] = rev[d]
                     /\ recvd'[d] = recvd[d] /\ buf'[d] = buf[d]
                     /\ wpc'[d] = wpc[d] /\ wev'[d] = wev[d]
  <1>k. Kept => PipeInv(d)'
    BY <1>0, <1>a, PipeFrame
  <1> HIDE DEF Kept
  <1>1. ASSUME NEW how \in {"down", "panic"}, Die(how) PROVE PipeInv(d)'
    BY <1>1 DEF Die, All, PipeInv, OwnClient, PipeComplete, PipeOrdered, InPipe, Busy, Reading
  <1>2. CASE Emit \/ Start \/ Resubscribe
    BY <1>2, <1>k DEF Emit, Start, Resubscribe, Kept, runner, clients, worker
  <1>3. CASE UpdateCollections \/ Stop
    BY <1>3, <1>k DEF UpdateCollections, Stop, Kept, runner, worker
  <1>4. ASSUME NEW l \in Loops, EndLoop(l) PROVE PipeInv(d)'
    BY <1>4, <1>k DEF EndLoop, Kept, runner, clients, worker
  <1>5. ASSUME NEW c \in Conns, Flush(c) PROVE PipeInv(d)'
    BY <1>5, <1>k DEF Flush, FlushTick, FinalFlush, SaveCursor, SaveFails, Kept, runner, clients,
                      worker
  <1>6. ASSUME NEW l \in Loops, NEW c \in Conns, BeginConnection(l, c) PROVE PipeInv(d)'
    <2>1. CASE d # c
      BY <1>6, <1>k, <2>1 DEF BeginConnection, Kept, worker, TypeOK, RunnerType
    <2>2. CASE d = c
      <3>1. rpc[c] = "off" /\ rpc'[c] = "load" /\ rcl'[c] = rcl[c] /\ wpc'[c] = wpc[c] /\ buf'[c] = buf[c]
        BY <1>6 DEF BeginConnection, TypeOK, RunnerType, worker
      <3>2. QED
        BY <1>a, <2>2, <3>1
           DEF PipeInv, OwnClient, PipeComplete, PipeOrdered, InPipe, Busy, Reading
    <2>3. QED
      BY <2>1, <2>2
  <1>7. ASSUME NEW c \in Conns, NewClient(c) PROVE PipeInv(d)'
    <2>1. CASE d # c
      BY <1>7, <1>k, <2>1 DEF NewClient, Kept, worker, TypeOK, RunnerType
    <2>2. CASE d = c
      <3>1. rpc[c] = "load" /\ rpc'[c] = "connect" /\ rcl'[c] = rcl[c] /\ wpc'[c] = wpc[c] /\ buf'[c] = buf[c]
        BY <1>7 DEF NewClient, TypeOK, RunnerType, worker
      <3>2. QED
        BY <1>a, <2>2, <3>1
           DEF PipeInv, OwnClient, PipeComplete, PipeOrdered, InPipe, Busy, Reading
    <2>3. QED
      BY <2>1, <2>2
  <1>8. ASSUME NEW c \in Conns, Connect(c) PROVE PipeInv(d)'
    <2>0. client = c
      BY <1>8 DEF Connect
    <2>1. CASE d # c
      BY <1>8, <1>k, <2>0, <2>1 DEF Connect, Kept, worker, TypeOK, RunnerType, ClientType
    <2>2. CASE d = c
      <3>1. /\ rpc[c] = "connect" /\ rpc'[c] = "launch" /\ rcl'[c] = rcl[c]
            /\ wpc'[c] = wpc[c] /\ buf'[c] = buf[c]
            /\ recvd'[c] = IF Replay(c) THEN start[c] ELSE head
        BY <1>8, <2>0 DEF Connect, TypeOK, RunnerType, ClientType, worker
      <3>2. wpc[c] = "off" /\ buf[c] = {}
        BY <1>a, <2>2, <3>1 DEF PipeInv, OwnClient
      <3>3. ASSUME NEW t \in Times, t <= recvd'[c] PROVE fate'[t] # "none"
        <4>1. CASE Replay(c)
          BY <1>0, <3>1, <3>3, <4>1 DEF CursorInv, CopiesCovered, Covered
        <4>2. CASE ~Replay(c)
          <5>1. t \in 1 .. head
            BY <3>1, <3>3, <4>2 DEF Times, TypeOK, StoreType, Cursors
          <5>2. QED
            BY <1>8, <2>0, <4>2, <5>1 DEF Connect, Missed, TypeOK, HistoryType
        <4>3. QED
          BY <4>1, <4>2
      <3>4. OwnClient(d)'
        BY <1>a, <2>2, <3>1, <3>2 DEF PipeInv, OwnClient
      <3>5. PipeComplete(d)' /\ PipeOrdered(d)'
        BY <2>2, <3>1, <3>2, <3>3 DEF PipeComplete, PipeOrdered, InPipe, Busy, Reading
      <3>6. QED
        BY <3>4, <3>5 DEF PipeInv
    <2>3. QED
      BY <2>1, <2>2
  <1>9. ASSUME NEW c \in Conns, ConnectFails(c) PROVE PipeInv(d)'
    <2>1. CASE d # c
      BY <1>9, <1>k, <2>1 DEF ConnectFails, Return, Kept, clients, worker, TypeOK, RunnerType
    <2>2. CASE d = c
      <3>1. /\ rpc[c] = "connect" /\ rpc'[c] = "ret" /\ rcl'[c] = rcl[c]
            /\ wpc'[c] = wpc[c] /\ buf'[c] = buf[c]
        BY <1>9 DEF ConnectFails, Return, TypeOK, RunnerType, worker, clients
      <3>2. QED
        BY <1>a, <2>2, <3>1
           DEF PipeInv, OwnClient, PipeComplete, PipeOrdered, InPipe, Busy, Reading
    <2>3. QED
      BY <2>1, <2>2
  <1>10. ASSUME NEW c \in Conns, Launch(c) PROVE PipeInv(d)'
    <2>1. CASE d # c
      BY <1>10, <1>k, <2>1 DEF Launch, Kept, clients, TypeOK, RunnerType, WorkerType
    <2>2. CASE d = c
      <3>1. /\ rpc[c] = "launch" /\ rpc'[c] = "check" /\ rcl'[c] = c /\ wpc'[c] = "recv"
            /\ buf'[c] = buf[c] /\ recvd'[c] = recvd[c] /\ fate' = fate
        BY <1>10 DEF Launch, TypeOK, RunnerType, WorkerType, clients
      <3>2. wpc[c] = "off" /\ buf[c] = {}
        BY <1>a, <2>2, <3>1 DEF PipeInv, OwnClient
      <3>3. QED
        BY <1>a, <2>2, <3>1, <3>2
           DEF PipeInv, OwnClient, PipeComplete, PipeOrdered, InPipe, Busy, Reading
    <2>3. QED
      BY <2>1, <2>2
  <1>11. ASSUME NEW c \in Conns, RunCheck(c) PROVE PipeInv(d)'
    <2>0. rcl[c] = c
      BY <1>11, <1>c DEF RunCheck
    <2>1. CASE d # c
      BY <1>11, <1>k, <2>0, <2>1 DEF RunCheck, Return, Kept, clients, worker, TypeOK, RunnerType
    <2>2. CASE d = c
      <3>1. /\ rpc[c] = "check" /\ rpc'[c] \in {"read", "ret"} /\ rcl'[c] = rcl[c]
            /\ wpc'[c] = wpc[c] /\ wev'[c] = wev[c] /\ buf'[c] = buf[c]
            /\ recvd'[c] = recvd[c] /\ fate' = fate
        BY <1>11, <2>0 DEF RunCheck, Return, TypeOK, RunnerType, worker, clients, history
      <3>2. OwnClient(d)'
        BY <1>a, <2>2, <3>1 DEF PipeInv, OwnClient
      <3>3. PipeComplete(d)'
        BY <1>0, <1>a, <1>b, <2>2, <3>1 DEF PipeInv, PipeComplete, PipeOrdered, InPipe, Busy, Reading
      <3>4. PipeOrdered(d)'
        BY <1>0, <1>a, <1>b, <2>2, <3>1 DEF PipeInv, PipeOrdered, InPipe, Busy, Reading
      <3>5. QED
        BY <3>2, <3>3, <3>4 DEF PipeInv
    <2>3. QED
      BY <2>1, <2>2
  <1>12. ASSUME NEW c \in Conns, RunRead(c) PROVE PipeInv(d)'
    <2>0. rcl[c] = c /\ recvd[c] + 1 \in Times
      BY <1>12, <1>c, Indices DEF RunRead, TypeOK, ClientType, StoreType
    <2>1. CASE d # c
      BY <1>12, <1>k, <2>0, <2>1 DEF RunRead, Kept, worker, TypeOK, RunnerType, ClientType
    <2>2. CASE d = c
      <3>1. /\ rpc[c] = "read" /\ rcl'[c] = rcl[c] /\ wpc'[c] = wpc[c] /\ wev'[c] = wev[c]
            /\ buf'[c] = buf[c] /\ recvd'[c] = recvd[c] + 1
            /\ \/ rpc'[c] = "check" /\ fate'[recvd[c] + 1] # "none"
               \/ rpc'[c] = "send" /\ rev'[c] = recvd[c] + 1
        BY <1>12, <2>0 DEF RunRead, Missed, TypeOK, RunnerType, ClientType, HistoryType, worker
      <3>2. ASSUME NEW t \in Times, t <= recvd[c] PROVE fate'[t] # "none" \/ InPipe(c, t)'
        BY <1>0, <1>a, <2>2, <3>1, <3>2 DEF PipeInv, PipeComplete, InPipe, Busy, Reading
      <3>3. \A t \in Times : InPipe(c, t) => t <= recvd[c]
        BY <1>a, <2>2, <3>1 DEF PipeInv, PipeOrdered, Reading
      <3>4. recvd[c] \in Nat /\ \A x \in buf[c] : x \in Times
        BY <2>0, Indices DEF TypeOK, ClientType
      <3>5. OwnClient(d)'
        BY <1>a, <2>2, <3>1 DEF PipeInv, OwnClient
      <3>6. PipeComplete(d)'
        BY <1>b, <2>0, <2>2, <3>1, <3>2, <3>3, <3>4 DEF PipeComplete, InPipe, Busy, Reading
      <3>7. PipeOrdered(d)'
        BY <1>0, <1>a, <1>b, <2>0, <2>2, <3>1, <3>3, <3>4 DEF PipeInv, PipeOrdered, InPipe, Busy, Reading, InHand
      <3>8. QED
        BY <3>5, <3>6, <3>7 DEF PipeInv
    <2>3. QED
      BY <2>1, <2>2
  <1>13. ASSUME NEW c \in Conns, RunReadFails(c) PROVE PipeInv(d)'
    <2>0. rcl[c] = c
      BY <1>13, <1>c DEF RunReadFails
    <2>1. CASE d # c
      BY <1>13, <1>k, <2>0, <2>1 DEF RunReadFails, Return, Kept, worker, TypeOK, RunnerType, ClientType
    <2>2. CASE d = c
      <3>1. /\ rpc[c] = "read" /\ rpc'[c] = "ret" /\ rcl'[c] = rcl[c]
            /\ wpc'[c] = wpc[c] /\ wev'[c] = wev[c] /\ buf'[c] = buf[c] /\ fate' = fate
        BY <1>13, <2>0 DEF RunReadFails, Return, TypeOK, RunnerType, worker, history
      <3>2. OwnClient(d)'
        BY <1>a, <2>2, <3>1 DEF PipeInv, OwnClient
      <3>3. PipeComplete(d)'
        BY <1>0, <1>a, <1>b, <2>2, <3>1 DEF PipeInv, PipeComplete, PipeOrdered, InPipe, Busy, Reading
      <3>4. PipeOrdered(d)'
        BY <1>0, <1>a, <1>b, <2>2, <3>1 DEF PipeInv, PipeOrdered, InPipe, Busy, Reading
      <3>5. QED
        BY <3>2, <3>3, <3>4 DEF PipeInv
    <2>3. QED
      BY <2>1, <2>2
  <1>14. ASSUME NEW c \in Conns, RunSend(c) PROVE PipeInv(d)'
    <2>0. rcl[c] = c
      BY <1>14, <1>c DEF RunSend
    <2>1. CASE d # c
      BY <1>14, <1>k, <2>0, <2>1 DEF RunSend, Kept, worker, TypeOK, RunnerType, ClientType
    <2>2. CASE d = c
      <3>1. /\ rpc[c] = "send" /\ rpc'[c] = "check" /\ rcl'[c] = rcl[c]
            /\ wpc'[c] = wpc[c] /\ wev'[c] = wev[c] /\ buf'[c] = buf[c] \cup {rev[c]}
            /\ recvd'[c] = recvd[c] /\ fate' = fate
        BY <1>14, <2>0 DEF RunSend, TypeOK, RunnerType, ClientType, worker, history
      <3>2. OwnClient(d)'
        BY <1>a, <2>2, <3>1 DEF PipeInv, OwnClient
      <3>3. PipeComplete(d)'
        BY <1>0, <1>a, <1>b, <2>2, <3>1 DEF PipeInv, PipeComplete, PipeOrdered, InPipe, Busy, Reading
      <3>4. PipeOrdered(d)'
        BY <1>0, <1>a, <1>b, <2>2, <3>1 DEF PipeInv, PipeOrdered, InPipe, Busy, Reading
      <3>5. QED
        BY <3>2, <3>3, <3>4 DEF PipeInv
    <2>3. QED
      BY <2>1, <2>2
  <1>15. ASSUME NEW c \in Conns, RunSendCancelled(c) PROVE PipeInv(d)'
    <2>0. rcl[c] = c
      BY <1>15, <1>c DEF RunSendCancelled
    <2>1. CASE d # c
      BY <1>15, <1>k, <2>0, <2>1 DEF RunSendCancelled, Return, Kept, worker, clients, TypeOK, RunnerType
    <2>2. CASE d = c
      <3>1. /\ rpc[c] = "send" /\ rpc'[c] = "ret" /\ rcl'[c] = rcl[c]
            /\ wpc'[c] = wpc[c] /\ wev'[c] = wev[c] /\ buf'[c] = buf[c] /\ fate' = fate
            /\ rev[c] \in Times /\ (Busy(c) => wev[c] \in Times) /\ buf[c] \subseteq Times
        BY <1>15, <2>0 DEF RunSendCancelled, Return, InHand, Busy, TypeOK, RunnerType, ClientType, worker, clients, history
      <3>2. OwnClient(d)'
        BY <1>a, <2>2, <3>1 DEF PipeInv, OwnClient
      <3>3. PipeComplete(d)'
        BY <1>0, <1>a, <1>b, <2>2, <3>1 DEF PipeInv, PipeComplete, PipeOrdered, InPipe, Busy, Reading
      <3>4. PipeOrdered(d)'
        BY <1>0, <1>a, <1>b, <2>2, <3>1 DEF PipeInv, PipeOrdered, InPipe, Busy, Reading
      <3>5. QED
        BY <3>2, <3>3, <3>4 DEF PipeInv
    <2>3. QED
      BY <2>1, <2>2
  <1>16. ASSUME NEW c \in Conns, Receive(c) PROVE PipeInv(d)'
    <2>0. rcl[c] = c
      BY <1>16, <1>c DEF Receive
    <2>1. CASE d # c
      BY <1>16, <1>k, <2>0, <2>1 DEF Receive, Kept, runner, TypeOK, ClientType, WorkerType
    <2>2. CASE d = c
      <3>1. /\ wpc[c] = "recv" /\ wpc'[c] = "proc" /\ rpc'[c] = rpc[c] /\ rcl'[c] = rcl[c]
            /\ rev'[c] = rev[c] /\ recvd'[c] = recvd[c] /\ fate' = fate /\ wev'[c] \in buf[c]
            /\ buf'[c] = buf[c] \ {wev'[c]} /\ \A x \in buf[c] : wev'[c] <= x
            /\ buf[c] \subseteq Times
        BY <1>16, <2>0 DEF Receive, TypeOK, ClientType, WorkerType, runner, history
      <3>2. OwnClient(d)'
        BY <1>a, <2>2, <3>1 DEF PipeInv, OwnClient
      <3>3. PipeComplete(d)'
        BY <1>0, <1>a, <1>b, <2>2, <3>1 DEF PipeInv, PipeComplete, PipeOrdered, InPipe, Busy, Reading
      <3>4. PipeOrdered(d)'
        BY <1>0, <1>a, <1>b, <2>2, <3>1 DEF PipeInv, PipeOrdered, InPipe, Busy, Reading
      <3>5. QED
        BY <3>2, <3>3, <3>4 DEF PipeInv
    <2>3. QED
      BY <2>1, <2>2
  <1>17. ASSUME NEW c \in Conns, EndOfEvents(c) PROVE PipeInv(d)'
    <2>0. rcl[c] = c
      BY <1>17, <1>c DEF EndOfEvents
    <2>1. CASE d # c
      BY <1>17, <1>k, <2>0, <2>1 DEF EndOfEvents, Kept, runner, clients, TypeOK, WorkerType
    <2>2. CASE d = c
      <3>1. /\ wpc[c] = "recv" /\ wpc'[c] = "off" /\ rpc'[c] = rpc[c] /\ rcl'[c] = rcl[c]
            /\ rev'[c] = rev[c] /\ recvd'[c] = recvd[c] /\ fate' = fate /\ buf'[c] = buf[c]
        BY <1>17, <2>0 DEF EndOfEvents, TypeOK, WorkerType, runner, clients, history
      <3>2. OwnClient(d)'
        BY <1>a, <2>2, <3>1 DEF PipeInv, OwnClient
      <3>3. PipeComplete(d)'
        BY <1>0, <1>a, <1>b, <2>2, <3>1 DEF PipeInv, PipeComplete, PipeOrdered, InPipe, Busy, Reading
      <3>4. PipeOrdered(d)'
        BY <1>0, <1>a, <1>b, <2>2, <3>1 DEF PipeInv, PipeOrdered, InPipe, Busy, Reading
      <3>5. QED
        BY <3>2, <3>3, <3>4 DEF PipeInv
    <2>3. QED
      BY <2>1, <2>2
  <1>18. ASSUME NEW c \in Conns, ProcessOK(c) PROVE PipeInv(d)'
    <2>0. rcl[c] = c
      BY <1>18, <1>c DEF ProcessOK
    <2>1. CASE d # c
      BY <1>18, <1>k, <2>0, <2>1 DEF ProcessOK, Kept, runner, clients, TypeOK, WorkerType
    <2>2. CASE d = c
      <3>1. /\ wpc[c] = "proc" /\ wpc'[c] = "set" /\ rpc'[c] = rpc[c] /\ rcl'[c] = rcl[c]
            /\ rev'[c] = rev[c] /\ recvd'[c] = recvd[c] /\ wev'[c] = wev[c]
            /\ fate'[wev[c]] # "none" /\ buf'[c] = buf[c]
        BY <1>18, <2>0 DEF ProcessOK, InHand, TypeOK, WorkerType, HistoryType, runner, clients
      <3>2. OwnClient(d)'
        BY <1>a, <2>2, <3>1 DEF PipeInv, OwnClient
      <3>3. PipeComplete(d)'
        BY <1>0, <1>a, <1>b, <2>2, <3>1 DEF PipeInv, PipeComplete, PipeOrdered, InPipe, Busy, Reading
      <3>4. PipeOrdered(d)'
        BY <1>0, <1>a, <1>b, <2>2, <3>1 DEF PipeInv, PipeOrdered, InPipe, Busy, Reading
      <3>5. QED
        BY <3>2, <3>3, <3>4 DEF PipeInv
    <2>3. QED
      BY <2>1, <2>2
  <1>19. ASSUME NEW c \in Conns, ProcessFails(c) PROVE PipeInv(d)'
    <2>0. rcl[c] = c
      BY <1>19, <1>c DEF ProcessFails
    <2>1. CASE d # c
      BY <1>19, <1>k, <2>0, <2>1 DEF ProcessFails, Kept, runner, clients, TypeOK, WorkerType
    <2>2. CASE d = c
      <3>1. /\ wpc[c] = "proc" /\ wpc'[c] = "recv" /\ rpc'[c] = rpc[c] /\ rcl'[c] = rcl[c]
            /\ rev'[c] = rev[c] /\ recvd'[c] = recvd[c]
            /\ fate'[wev[c]] # "none" /\ buf'[c] = buf[c]
        BY <1>19, <2>0 DEF ProcessFails, InHand, TypeOK, WorkerType, HistoryType, runner, clients
      <3>2. OwnClient(d)'
        BY <1>a, <2>2, <3>1 DEF PipeInv, OwnClient
      <3>3. PipeComplete(d)'
        BY <1>0, <1>a, <1>b, <2>2, <3>1 DEF PipeInv, PipeComplete, PipeOrdered, InPipe, Busy, Reading
      <3>4. PipeOrdered(d)'
        BY <1>0, <1>a, <1>b, <2>2, <3>1 DEF PipeInv, PipeOrdered, InPipe, Busy, Reading
      <3>5. QED
        BY <3>2, <3>3, <3>4 DEF PipeInv
    <2>3. QED
      BY <2>1, <2>2
  <1>20. ASSUME NEW c \in Conns, SetCurrent(c) PROVE PipeInv(d)'
    <2>0. rcl[c] = c
      BY <1>20, <1>c DEF SetCurrent
    <2>1. CASE d # c
      BY <1>20, <1>k, <2>0, <2>1 DEF SetCurrent, Kept, runner, clients, TypeOK, WorkerType
    <2>2. CASE d = c
      <3>1. /\ wpc[c] = "set" /\ wpc'[c] = "recv" /\ rpc'[c] = rpc[c] /\ rcl'[c] = rcl[c]
            /\ rev'[c] = rev[c] /\ recvd'[c] = recvd[c]
            /\ fate' = fate /\ buf'[c] = buf[c]
        BY <1>20, <2>0 DEF SetCurrent, TypeOK, WorkerType, runner, clients, history
      <3>2. OwnClient(d)'
        BY <1>a, <2>2, <3>1 DEF PipeInv, OwnClient
      <3>3. PipeComplete(d)'
        BY <1>0, <1>a, <1>b, <2>2, <3>1 DEF PipeInv, PipeComplete, PipeOrdered, InPipe, Busy, Reading
      <3>4. PipeOrdered(d)'
        BY <1>0, <1>a, <1>b, <2>2, <3>1 DEF PipeInv, PipeOrdered, InPipe, Busy, Reading
      <3>5. QED
        BY <3>2, <3>3, <3>4 DEF PipeInv
    <2>3. QED
      BY <2>1, <2>2
  <1>21. CASE UNCHANGED vars
    BY <1>21, <1>k DEF vars, Kept, runner, clients, worker
  <1>22. QED
    BY <1>1, <1>2, <1>3, <1>4, <1>5, <1>6, <1>7, <1>8, <1>9, <1>10, <1>11, <1>12, <1>13,
       <1>14, <1>15, <1>16, <1>17, <1>18, <1>19, <1>20, <1>21
       DEF Next, Crash, Connection, ProcessEvents, ConnectNil, LaunchNil, RunSendClosed

-----------------------------------------------------------------------------
\* The consumer starts in the inductive invariant.
LEMMA InitInv == Init => IInv
  <1> SUFFICES ASSUME Init PROVE IInv
    OBVIOUS
  <1>1. StoreType /\ ControlType /\ HistoryType
    BY Indices DEF Init, StoreType, ControlType, HistoryType, Fates
  <1>2. RunnerType /\ ClientType /\ WorkerType /\ FlusherType
    BY Indices DEF Init, All, RunnerType, ClientType, WorkerType, FlusherType
  <1>3. InHand
    BY DEF Init, All, InHand
  <1>4. CopiesCovered
    BY DEF Init, All, CopiesCovered, Covered, Times, Live
  <1>5. \A c \in Conns : PipeInv(c)
    BY DEF Init, All, PipeInv, OwnClient, PipeComplete, PipeOrdered, InPipe, Busy, Reading
  <1>6. QED
    BY <1>1, <1>2, <1>3, <1>4, <1>5 DEF IInv, TypeOK, CursorInv

\* Sharing a Client is never forgotten.
LEMMA RacedStays == ASSUME TypeOK, [Next]_vars, raced PROVE raced'
  <1>1. ASSUME NEW c \in Conns, Connect(c) PROVE raced'
    BY <1>1 DEF Connect
  <1>2. ASSUME NEW c \in Conns, Launch(c) PROVE raced'
    BY <1>2 DEF Launch
  <1>3. ASSUME ~\E c \in Conns : Connect(c) \/ Launch(c) PROVE raced' = raced
    BY <1>3 DEF Next, Emit, Crash, Die, Start, UpdateCollections, Resubscribe, Stop,
         EndLoop, Connection, BeginConnection, NewClient, ConnectFails, ConnectNil,
         LaunchNil, RunCheck, RunRead, RunReadFails, RunSend, RunSendCancelled,
         RunSendClosed, ProcessEvents, Receive, EndOfEvents, ProcessOK, ProcessFails,
         SetCurrent, Flush, FlushTick, FinalFlush, SaveCursor, SaveFails, vars, history
  <1>4. QED
    BY <1>1, <1>2, <1>3

\* Every step keeps the inductive invariant.
LEMMA StepInv == IInv /\ [Next]_vars => IInv'
  <1> SUFFICES ASSUME IInv, [Next]_vars PROVE IInv'
    OBVIOUS
  <1>1. TypeOK' /\ InHand'
    BY TypeNext, InHandNext DEF IInv
  <1>2. CASE raced'
    BY <1>1, <1>2 DEF IInv
  <1>3. CASE ~raced'
    <2>1. CursorInv
      BY <1>3, RacedStays DEF IInv
    <2>2. CursorInv'
      BY <1>3, <2>1, CopiesNext, PipeNext DEF IInv, CursorInv
    <2>3. QED
      BY <1>1, <2>2 DEF IInv
  <1>4. QED
    BY <1>2, <1>3

\* The saved cursor is one of the covered copies.
LEMMA InvImpliesCovered == IInv => CursorCovered
  BY DEF IInv, CursorInv, CopiesCovered, Covered, CursorCovered, Settled, Times, TypeOK, StoreType,
         Cursors

\* Every variable of the consumer keeps its type, for every stream, buffer size
\* and number of connections, loops and restarts.
THEOREM TypeCorrect == Spec => []TypeOK
  <1>1. IInv => TypeOK
    BY DEF IInv
  <1>2. QED
    BY InitInv, StepInv, <1>1, PTL DEF Spec

\* The persisted Jetstream cursor never runs ahead of processEvents: everything
\* up to it has been processed, has failed, or was never to be delivered,
\* unless two reconnect loops have come to share one Client.
THEOREM CursorSafe == Spec => []CursorCovered
  BY InitInv, StepInv, InvImpliesCovered, PTL DEF Spec

-----------------------------------------------------------------------------
\* Only a flusher writes the cursor row, and then nothing else changes that the
\* abstract log sees.
LEMMA SavedChanges ==
  ASSUME [Next]_vars, saved' # saved
  PROVE  fate' = fate /\ raced' = raced /\ \E c \in Conns : saved' = fval[c]
  <1>1. PICK c \in Conns : SaveCursor(c)
    BY DEF Next, Emit, Crash, Die, Start, UpdateCollections, Resubscribe, Stop,
           EndLoop, Connection, BeginConnection, NewClient, Connect, ConnectFails, ConnectNil,
           Launch, LaunchNil, RunCheck, RunRead, RunReadFails, RunSend, RunSendCancelled,
           RunSendClosed, ProcessEvents, Receive, EndOfEvents, ProcessOK, ProcessFails,
           SetCurrent, Flush, FlushTick, FinalFlush, SaveFails, vars, store
  <1>2. QED
    BY <1>1 DEF SaveCursor, history

\* The consumer implements the abstract resumable log: each of its steps settles
\* events, moves the cursor to a covered position, or is invisible there.
THEOREM Refinement == Spec => ImplementsCursorLog
  <1> DEFINE done == IF raced THEN Times ELSE Settled
  <1>1. Init => Log!Init
    BY DEF Init, Log!Init, Settled
  <1>2. IInv /\ [Next]_vars => [Log!Next]_(Log!logVars)
    <2> SUFFICES ASSUME IInv, [Next]_vars PROVE [Log!Next]_(Log!logVars)
      OBVIOUS
    <2>1. CASE saved' = saved
      <3>1. done \subseteq done' /\ done' \subseteq Times
        BY SettledStays, RacedStays DEF IInv, Settled
      <3>2. done' \in SUBSET (1 .. Len(Stream)) /\ done' = done \cup done'
        BY <3>1 DEF Times
      <3>3. Log!Settle
        BY <2>1, <3>2 DEF Log!Settle
      <3>4. QED
        BY <3>3 DEF Log!Next
    <2>2. CASE saved' # saved
      <3>1. PICK c \in Conns : saved' = fval[c]
        BY <2>2, SavedChanges
      <3>2. done' = done
        BY <2>2, SavedChanges DEF Settled
      <3>3. saved' \in 0 .. Len(Stream)
        BY <3>1 DEF IInv, TypeOK, FlusherType, Cursors
      <3>4. 1 .. saved' \subseteq done
        <4>1. CASE raced
          BY <3>3, <4>1 DEF Times
        <4>2. CASE ~raced
          BY <3>1, <3>3, <4>2 DEF IInv, CursorInv, CopiesCovered, Covered, Settled, Times
        <4>3. QED
          BY <4>1, <4>2
      <3>5. Log!Persist
        BY <3>2, <3>3, <3>4 DEF Log!Persist
      <3>6. QED
        BY <3>5 DEF Log!Next
    <2>3. QED
      BY <2>1, <2>2
  <1>3. QED
    BY <1>1, <1>2, InitInv, StepInv, PTL DEF Spec, ImplementsCursorLog, Log!Spec
-----------------------------------------------------------------------------
\* The inductive invariant behind TableIsPrefix.  Events of connection c that are
\* behind what it has read and before what is done with: t is past the event
\* processed last or past one that is in the pipe.
Ahead(c, t) == last < t \/ \E x \in Times : InPipe(c, x) /\ x < t

WasRead(c, t) ==
    \/ rpc[c] \in {"check", "read", "send"} /\ t <= recvd[c]
    \/ \E y \in Times : InPipe(c, y) /\ t <= y

\* The pipe has no holes: what is not in it is a frame that does not parse.
NoHoles(c) ==
    \A t \in Times : Ahead(c, t) /\ WasRead(c, t) => InPipe(c, t) \/ Stream[t].kind = "bad"

\* One worker at a time, and it works on from the event processed last.
LoneWorker ==
    /\ \A c, d \in Conns : wpc[c] # "off" /\ wpc[d] # "off" => c = d
    /\ \A c \in Conns : wpc[c] = "set" => wev[c] = last
    /\ \A c \in Conns : wpc[c] # "off" => NoHoles(c)

LastDone == last = 0 \/ fate[last] = "done"

OrderInv == ordered => ~raced /\ LoneWorker /\ LastDone /\ TableIsPrefix

\* Commits that came out of order once are never in order again, and a step after
\* which they are in order shares no Client.
LEMMA OrderedStays ==
  ASSUME TypeOK, [Next]_vars, ordered'
  PROVE  ordered /\ (~raced => ~raced')
  <1>1. ASSUME NEW c \in Conns, Connect(c) PROVE ordered /\ (~raced => ~raced')
    BY <1>1 DEF Connect
  <1>2. ASSUME NEW c \in Conns, Launch(c) PROVE ordered /\ (~raced => ~raced')
    BY <1>2 DEF Launch
  <1>3. ASSUME NEW c \in Conns, ProcessFails(c) PROVE FALSE
    BY <1>3 DEF ProcessFails
  <1>4. ASSUME ~\E c \in Conns : Connect(c) \/ Launch(c) \/ ProcessFails(c)
        PROVE raced' = raced /\ ordered' = ordered
    BY <1>4 DEF Next, Emit, Crash, Die, Start, UpdateCollections, Resubscribe, Stop,
         EndLoop, Connection, BeginConnection, NewClient, ConnectFails, ConnectNil,
         LaunchNil, RunCheck, RunRead, RunReadFails, RunSend, RunSendCancelled,
         RunSendClosed, ProcessEvents, Receive, EndOfEvents, ProcessOK,
         SetCurrent, Flush, FlushTick, FinalFlush, SaveCursor, SaveFails, vars, history
  <1>5. CASE \E c \in Conns : Connect(c) \/ Launch(c) \/ ProcessFails(c)
    BY <1>1, <1>2, <1>3, <1>5
  <1>6. CASE ~\E c \in Conns : Connect(c) \/ Launch(c) \/ ProcessFails(c)
    <2>1. raced' = raced /\ ordered' = ordered
      BY <1>4, <1>6
    <2>2. QED
      BY <2>1
  <1>7. QED
    BY <1>5, <1>6

\* An event that was processed stays so.
LEMMA DoneStays ==
  ASSUME TypeOK, [Next]_vars, NEW t \in Times, fate[t] = "done"
  PROVE  fate'[t] = "done"
  <1> USE DEF TypeOK, HistoryType
  <1>1. ASSUME NEW c \in Conns, Connect(c) PROVE fate'[t] = "done"
    BY <1>1 DEF Connect, Missed
  <1>2. ASSUME NEW c \in Conns, RunRead(c) PROVE fate'[t] = "done"
    BY <1>2 DEF RunRead, Missed
  <1>3. ASSUME NEW c \in Conns, ProcessOK(c) \/ ProcessFails(c) PROVE fate'[t] = "done"
    BY <1>3 DEF ProcessOK, ProcessFails
  <1>4. CASE fate' = fate
    BY <1>4
  <1>5. QED
    BY <1>1, <1>2, <1>3, <1>4
       DEF Next, Emit, Crash, Die, Start, UpdateCollections, Resubscribe, Stop, EndLoop,
           Connection, BeginConnection, NewClient, ConnectFails, ConnectNil, Launch, LaunchNil,
           RunCheck, RunReadFails, RunSend, RunSendCancelled, RunSendClosed,
           ProcessEvents, Receive, EndOfEvents, SetCurrent,
           Flush, FlushTick, FinalFlush, SaveCursor, SaveFails, vars, history

\* Only ProcessOK writes the record table and moves last.
LEMMA TableWriters ==
  ASSUME [Next]_vars, ~\E c \in Conns : ProcessOK(c)
  PROVE  records' = records /\ last' = last
  <1> DEFINE Same == UNCHANGED <<records, last>>
  <1> USE DEF history, store
  <1>1. CASE Emit \/ Crash \/ Start \/ UpdateCollections \/ Resubscribe \/ Stop
    BY <1>1 DEF Emit, Crash, Die, Start, UpdateCollections, Resubscribe, Stop
  <1>2. ASSUME NEW l \in Loops, EndLoop(l) PROVE Same
    BY <1>2 DEF EndLoop
  <1>3. ASSUME NEW c \in Conns, Connection(c) PROVE Same
    <2>1. CASE \E l \in Loops : BeginConnection(l, c)
      BY <2>1 DEF BeginConnection
    <2>2. CASE NewClient(c)
      BY <2>2 DEF NewClient
    <2>3. CASE Connect(c)
      BY <2>3 DEF Connect
    <2>4. CASE ConnectFails(c) \/ ConnectNil(c)
      BY <2>4 DEF ConnectFails, ConnectNil, Die
    <2>5. CASE Launch(c) \/ LaunchNil(c)
      BY <2>5 DEF Launch, LaunchNil, Die
    <2>6. CASE \/ RunCheck(c) \/ RunRead(c) \/ RunReadFails(c)
               \/ RunSend(c) \/ RunSendCancelled(c) \/ RunSendClosed(c)
      BY <2>6 DEF RunCheck, RunRead, RunReadFails, RunSend, RunSendCancelled, RunSendClosed, Die
    <2>7. QED
      BY <1>3, <2>1, <2>2, <2>3, <2>4, <2>5, <2>6 DEF Connection
  <1>4. ASSUME NEW c \in Conns, ProcessEvents(c) PROVE Same
    BY <1>4 DEF ProcessEvents, Receive, EndOfEvents, ProcessFails, SetCurrent
  <1>5. ASSUME NEW c \in Conns, Flush(c) PROVE Same
    BY <1>5 DEF Flush, FlushTick, FinalFlush, SaveCursor, SaveFails
  <1>6. CASE UNCHANGED vars
    BY <1>6 DEF vars
  <1>7. QED
    BY <1>1, <1>2, <1>3, <1>4, <1>5, <1>6 DEF Next

\* A write is the version that it leaves, and events that do not write a record
\* leave its version alone.
LEMMA VersionAt ==
  ASSUME NEW e \in Times, Stream[e].kind \in {"put", "del"}
  PROVE  Version(Stream[e].uri, e) = IF Stream[e].kind = "put" THEN Stream[e].cid ELSE NoRecord
  <1> DEFINE W == Writes(Stream[e].uri, e)
  <1>1. e \in W /\ \A s \in W : s <= e
    BY DEF Writes, Times
  <1>2. \A t \in W : (\A s \in W : s <= t) => t = e
    BY <1>1 DEF Writes, Times
  <1>3. (CHOOSE t \in W : \A s \in W : s <= t) = e
    BY <1>1, <1>2
  <1>4. QED
    BY <1>1, <1>3 DEF Version

LEMMA VersionStays ==
  ASSUME NEW u, NEW m \in Cursors, NEW n \in Cursors, m <= n,
         \A t \in Times : m < t /\ t <= n => Stream[t].kind \notin {"put", "del"} \/ Stream[t].uri # u
  PROVE  Version(u, m) = Version(u, n)
  <1>1. Writes(u, m) = Writes(u, n)
    BY ConstantsAssumption DEF Writes, Cursors, Times
  <1>2. QED
    BY <1>1 DEF Version

\* What the worker has in hand is the oldest event of its pipe.
LEMMA HandFirst ==
  ASSUME NEW c \in Conns, TypeOK, InHand, PipeInv(c), Busy(c), NEW t \in Times, InPipe(c, t)
  PROVE  wev[c] \in Times /\ wev[c] <= t
  <1>1. wev[c] \in Times
    BY DEF InHand, Busy
  <1>2. QED
    BY <1>1 DEF PipeInv, PipeOrdered, InPipe, Times

\* ProcessOK keeps the table at or ahead of the event processed last.
LEMMA TableStep ==
  ASSUME IInv, OrderInv, ordered, NEW c \in Conns, ProcessOK(c)
  PROVE  TableIsPrefix' /\ LastDone'
  <1> DEFINE e == wev[c]
  <1>1. /\ e \in Times /\ e \in Cursors /\ last \in Cursors /\ Cursors \subseteq Nat
        /\ last' = e /\ fate' = [fate EXCEPT ![e] = "done"] /\ records' = Apply(e, records)
        /\ Stream[e] \in Event
    BY Indices DEF ProcessOK, IInv, InHand, TypeOK, HistoryType
  <1>2. /\ fate'[e] = "done"
        /\ \A t \in Times : fate[t] = "done" => fate'[t] = "done"
    BY <1>1 DEF IInv, TypeOK, HistoryType
  <1>3. LastDone'
    BY <1>1, <1>2 DEF LastDone
  <1>4. \A t \in Times : last < t /\ t < e => Stream[t].kind = "bad"
    <2> SUFFICES ASSUME NEW t \in Times, last < t, t < e PROVE Stream[t].kind = "bad"
      OBVIOUS
    <2>1. PipeInv(c) /\ Busy(c) /\ NoHoles(c) /\ InPipe(c, e)
      BY DEF OrderInv, LoneWorker, IInv, CursorInv, ProcessOK, Busy, InPipe
    <2>2. Ahead(c, t) /\ WasRead(c, t)
      BY <1>1, <2>1 DEF Ahead, WasRead, Times
    <2>3. ~InPipe(c, t)
      BY <1>1, <2>1, HandFirst DEF IInv, Times
    <2>4. QED
      BY <2>1, <2>2, <2>3 DEF NoHoles
  <1>5. ASSUME NEW u \in Uris
        PROVE  \E n \in e .. Len(Stream) : (n = e \/ fate'[n] = "done") /\ records'[u] = Version(u, n)
    <2>1. CASE Stream[e].kind \in {"put", "del"} /\ Stream[e].uri = u
      <3>1. records'[u] = Version(u, e)
        BY <1>1, <2>1, VersionAt DEF Apply, IInv, TypeOK, StoreType, Event
      <3>2. e \in e .. Len(Stream)
        BY <1>1 DEF Times
      <3>3. QED
        BY <3>1, <3>2
    <2>2. CASE ~(Stream[e].kind \in {"put", "del"} /\ Stream[e].uri = u)
      <3>1. records'[u] = records[u]
        BY <1>1, <2>2 DEF Apply, IInv, TypeOK, StoreType, Event
      <3>2. PICK n \in last .. Len(Stream) :
               (n = last \/ fate[n] = "done") /\ records[u] = Version(u, n)
        BY DEF OrderInv, TableIsPrefix
      <3>3. n \in Cursors
        BY <1>1, <3>2, ConstantsAssumption DEF Cursors
      <3>4. CASE e <= n
        <4>1. n = e \/ fate'[n] = "done"
          <5>1. n \in Times
            BY <1>1, <3>3, <3>4 DEF Times, Cursors
          <5>2. n = last => fate[n] = "done"
            BY <5>1 DEF OrderInv, LastDone, Times
          <5>3. QED
            BY <1>2, <3>2, <5>1, <5>2
        <4>2. n \in e .. Len(Stream)
          BY <1>1, <3>3, <3>4 DEF Times, Cursors
        <4>3. QED
          BY <3>1, <3>2, <4>1, <4>2
      <3>5. CASE n < e
        <4>1. \A t \in Times : n < t /\ t <= e => Stream[t].kind \notin {"put", "del"} \/ Stream[t].uri # u
          <5> SUFFICES ASSUME NEW t \in Times, n < t, t <= e
                       PROVE  Stream[t].kind \notin {"put", "del"} \/ Stream[t].uri # u
            OBVIOUS
          <5>1. last < t /\ (t < e \/ t = e)
            BY <1>1, <3>2, <3>3 DEF Times, Cursors
          <5>2. QED
            BY <1>4, <2>2, <5>1
        <4>2. n <= e
          BY <1>1, <3>3, <3>5 DEF Times, Cursors
        <4>3. Version(u, n) = Version(u, e)
          BY <1>1, <3>3, <4>1, <4>2, VersionStays
        <4>4. e \in e .. Len(Stream)
          BY <1>1 DEF Times
        <4>5. QED
          BY <3>1, <3>2, <4>3, <4>4
      <3>6. e <= n \/ n < e
        BY <1>1, <3>3 DEF Cursors, Times
      <3>7. QED
        BY <3>4, <3>5, <3>6
    <2>3. QED
      BY <2>1, <2>2
  <1>6. TableIsPrefix'
    BY <1>1, <1>5 DEF TableIsPrefix, Version, Writes
  <1>7. QED
    BY <1>3, <1>6

\* A worker whose own variables a step leaves alone keeps its pipe without holes.
LEMMA HolesFrame ==
  ASSUME NEW d \in Conns, NoHoles(d), last' = last,
         rpc'[d] = rpc[d], rev'[d] = rev[d], recvd'[d] = recvd[d],
         buf'[d] = buf[d], wpc'[d] = wpc[d], wev'[d] = wev[d]
  PROVE  NoHoles(d)'
  BY DEF NoHoles, Ahead, WasRead, InPipe, Busy

\* The pipe of the worker that runs after a step has no holes.
LEMMA HolesNext ==
  ASSUME IInv, OrderInv, [Next]_vars, ordered', NEW d \in Conns, wpc'[d] # "off"
  PROVE  NoHoles(d)'
  <1>0. /\ ordered /\ ~raced /\ LoneWorker /\ CursorInv /\ PipeInv(d) /\ TypeOK /\ InHand
        /\ ~raced'
    BY OrderedStays DEF IInv, OrderInv, CursorInv
  <1>a. wpc[d] # "off" => NoHoles(d) /\ rcl[d] = d
    BY <1>0 DEF LoneWorker, PipeInv, OwnClient, InHand, Conns
  <1>b. \A t \in Times : t \in Nat
    BY DEF Times
  <1>c. \A c \in Conns : rpc[c] \in {"check", "read", "send"} \/ wpc[c] # "off" => rcl[c] = c
    <2>1. \A c \in Conns : rcl[c] \in {0, c} /\ 0 \notin Conns
      BY <1>0 DEF CursorInv, PipeInv, OwnClient, Conns
    <2>2. QED
      BY <1>0, <2>1 DEF InHand
  <1> DEFINE Kept == /\ last' = last /\ rpc'[d] = rpc[d] /\ rev'[d] = rev[d]
                     /\ recvd'[d] = recvd[d] /\ buf'[d] = buf[d]
                     /\ wpc'[d] = wpc[d] /\ wev'[d] = wev[d]
  <1>k. Kept => NoHoles(d)'
    BY <1>a, HolesFrame
  <1> HIDE DEF Kept
  <1> USE DEF TypeOK, RunnerType, ClientType, WorkerType
  <1>1. ASSUME NEW how \in {"down", "panic"}, Die(how) PROVE FALSE
    BY <1>1 DEF Die, All
  <1>2. CASE Emit \/ Start \/ Resubscribe
    BY <1>2, <1>k DEF Emit, Start, Resubscribe, Kept, runner, clients, worker, history
  <1>3. CASE UpdateCollections \/ Stop
    BY <1>3, <1>k DEF UpdateCollections, Stop, Kept, runner, worker, history
  <1>4. ASSUME NEW l \in Loops, EndLoop(l) PROVE NoHoles(d)'
    BY <1>4, <1>k DEF EndLoop, Kept, runner, clients, worker, history
  <1>5. ASSUME NEW c \in Conns, Flush(c) PROVE NoHoles(d)'
    BY <1>5, <1>k DEF Flush, FlushTick, FinalFlush, SaveCursor, SaveFails, Kept, runner, clients,
                      worker, history
  <1>6. ASSUME NEW c \in Conns,
               \/ \E l \in Loops : BeginConnection(l, c)
               \/ NewClient(c) \/ Connect(c) \/ ConnectFails(c)
        PROVE  NoHoles(d)'
    <2>1. rpc[c] \in {"off", "load", "connect"} /\ wpc'[d] = wpc[d] /\ last' = last
      BY <1>6 DEF BeginConnection, NewClient, Connect, ConnectFails, worker, history
    <2>2. d # c
      BY <1>0, <2>1 DEF PipeInv, OwnClient
    <2>3. CASE Connect(c)
      <3>1. client = c
        BY <1>0, <2>3 DEF Connect
      <3>2. QED
        BY <1>0, <1>k, <2>1, <2>2, <2>3, <3>1 DEF Connect, Kept, worker
    <2>4. CASE ~Connect(c)
      BY <1>0, <1>6, <1>k, <2>1, <2>2, <2>4
         DEF BeginConnection, NewClient, ConnectFails, Return, Kept, clients, worker
    <2>5. QED
      BY <2>3, <2>4
  <1>7. ASSUME NEW c \in Conns, Launch(c) PROVE NoHoles(d)'
    <2>1. d = c /\ client = c /\ recvd[c] <= last
      BY <1>0, <1>7 DEF Launch
    <2>2. buf[d] = {} /\ last \in Nat /\ recvd[d] \in Nat
      BY <1>0, <1>7, <2>1, Indices DEF Launch, PipeInv, OwnClient, HistoryType
    <2>3. /\ buf'[d] = {} /\ rpc'[d] = "check" /\ wpc'[d] = "recv" /\ last' = last
          /\ recvd'[d] = recvd[d]
      BY <1>0, <1>7, <2>1, <2>2 DEF Launch, clients
    <2>4. \A t \in Times : ~InPipe(d, t)'
      BY <2>3 DEF InPipe, Busy
    <2>5. \A t \in Times : ~(Ahead(d, t)' /\ WasRead(d, t)')
      BY <1>b, <2>1, <2>2, <2>3, <2>4 DEF Ahead, WasRead
    <2>6. QED
      BY <2>5 DEF NoHoles
  <1>8. ASSUME NEW c \in Conns, d # c,
               \/ RunCheck(c) \/ RunRead(c) \/ RunReadFails(c) \/ RunSend(c) \/ RunSendCancelled(c)
               \/ Receive(c) \/ EndOfEvents(c) \/ ProcessFails(c) \/ SetCurrent(c)
        PROVE  NoHoles(d)'
    <2>1. rcl[c] = c
      BY <1>8, <1>c DEF RunCheck, RunRead, RunReadFails, RunSend, RunSendCancelled, Receive,
                        EndOfEvents, ProcessFails, SetCurrent
    <2>2. Kept
      BY <1>0, <1>8, <2>1
         DEF RunCheck, RunRead, RunReadFails, RunSend, RunSendCancelled, Return, Receive,
             EndOfEvents, ProcessFails, SetCurrent, Kept, runner, clients, worker, history
    <2>3. QED
      BY <1>k, <2>2
  <1>9. CASE RunCheck(d)
    <2>1. /\ \A t \in Times : InPipe(d, t)' <=> InPipe(d, t)
          /\ rpc[d] = "check" /\ recvd'[d] = recvd[d] /\ last' = last /\ wpc'[d] = wpc[d]
      BY <1>0, <1>9 DEF RunCheck, Return, InPipe, Busy, clients, worker, history
    <2>2. QED
      BY <1>a, <2>1 DEF NoHoles, Ahead, WasRead
  <1>10. CASE RunRead(d)
    <2>0. rcl[d] = d /\ recvd[d] \in Nat /\ recvd[d] + 1 \in Times
      BY <1>0, <1>10, <1>c, Indices DEF RunRead, StoreType
    <2>1. /\ rpc[d] = "read" /\ recvd'[d] = recvd[d] + 1 /\ last' = last /\ wpc'[d] = wpc[d]
          /\ buf'[d] = buf[d] /\ wev'[d] = wev[d] /\ rpc'[d] \in {"check", "send"}
          /\ rpc'[d] = "check" => Stream[recvd[d] + 1].kind = "bad"
          /\ rpc'[d] = "send" => rev'[d] = recvd[d] + 1
      BY <1>0, <1>10, <2>0 DEF RunRead, worker, history
    <2>2. \A t \in Times : InPipe(d, t)' <=> InPipe(d, t) \/ (rpc'[d] = "send" /\ t = recvd[d] + 1)
      BY <2>1 DEF InPipe, Busy
    <2>3. \A t \in Times : InPipe(d, t) => t <= recvd[d]
      BY <1>0, <2>1 DEF PipeInv, PipeOrdered, Reading
    <2>4. SUFFICES ASSUME NEW t \in Times, Ahead(d, t)', WasRead(d, t)'
                   PROVE  InPipe(d, t)' \/ Stream[t].kind = "bad"
      BY DEF NoHoles
    <2>5. t <= recvd[d] + 1
      BY <1>b, <2>0, <2>1, <2>2, <2>3, <2>4 DEF WasRead
    <2>6. CASE t = recvd[d] + 1
      BY <2>1, <2>2, <2>6
    <2>7. CASE t # recvd[d] + 1
      <3>1. WasRead(d, t)
        BY <1>b, <2>0, <2>1, <2>5, <2>7 DEF WasRead
      <3>2. Ahead(d, t)
        BY <1>b, <2>0, <2>1, <2>2, <2>4, <2>5, <2>7 DEF Ahead
      <3>3. QED
        BY <1>a, <2>1, <2>2, <3>1, <3>2 DEF NoHoles
    <2>8. QED
      BY <2>6, <2>7
  <1>11. CASE RunReadFails(d)
    <2>1. /\ \A t \in Times : InPipe(d, t)' <=> InPipe(d, t)
          /\ rpc'[d] = "ret" /\ last' = last /\ wpc'[d] = wpc[d]
      BY <1>0, <1>11 DEF RunReadFails, Return, InPipe, Busy, clients, worker, history
    <2>2. QED
      BY <1>a, <2>1 DEF NoHoles, Ahead, WasRead
  <1>12. CASE RunSend(d)
    <2>0. rcl[d] = d
      BY <1>12, <1>c DEF RunSend
    <2>1. /\ \A t \in Times : InPipe(d, t)' <=> InPipe(d, t)
          /\ rpc[d] = "send" /\ recvd'[d] = recvd[d] /\ last' = last /\ wpc'[d] = wpc[d]
      BY <1>0, <1>12, <2>0 DEF RunSend, InPipe, Busy, worker, history
    <2>2. QED
      BY <1>a, <2>1 DEF NoHoles, Ahead, WasRead
  <1>13. CASE RunSendCancelled(d)
    <2>1. /\ \A t \in Times : InPipe(d, t)' <=> t \in buf[d] \/ (Busy(d) /\ t = wev[d])
          /\ rpc[d] = "send" /\ rpc'[d] = "ret" /\ last' = last /\ wpc'[d] = wpc[d]
      BY <1>0, <1>13 DEF RunSendCancelled, Return, InPipe, Busy, clients, worker, history
    <2>2. \A t \in Times : InPipe(d, t)' => InPipe(d, t) /\ t < rev[d]
      BY <1>0, <2>1 DEF InPipe, PipeInv, PipeOrdered
    <2>3. rev[d] \in Times
      BY <1>0, <2>1 DEF InHand
    <2>4. SUFFICES ASSUME NEW t \in Times, Ahead(d, t)', WasRead(d, t)'
                   PROVE  InPipe(d, t)' \/ Stream[t].kind = "bad"
      BY DEF NoHoles
    <2>5. PICK y \in Times : InPipe(d, y)' /\ t <= y
      BY <2>1, <2>4 DEF WasRead
    <2>6. WasRead(d, t) /\ Ahead(d, t)
      BY <2>1, <2>2, <2>4, <2>5 DEF WasRead, Ahead
    <2>7. t < rev[d]
      BY <1>b, <2>2, <2>3, <2>5
    <2>8. InPipe(d, t) => InPipe(d, t)'
      BY <1>b, <2>1, <2>3, <2>7 DEF InPipe
    <2>9. QED
      BY <1>a, <2>1, <2>6, <2>8 DEF NoHoles
  <1>14. CASE Receive(d)
    <2>0. rcl[d] = d
      BY <1>14, <1>c DEF Receive
    <2>1. /\ \A t \in Times : InPipe(d, t)' <=> InPipe(d, t)
          /\ rpc'[d] = rpc[d] /\ recvd'[d] = recvd[d] /\ last' = last /\ wpc[d] # "off"
      BY <1>0, <1>14, <2>0 DEF Receive, InPipe, Busy, runner, history
    <2>2. QED
      BY <1>a, <2>1 DEF NoHoles, Ahead, WasRead
  <1>15. CASE EndOfEvents(d) \/ ProcessFails(d)
    BY <1>0, <1>15 DEF EndOfEvents, ProcessFails
  <1>16. ASSUME NEW c \in Conns, ProcessOK(c) PROVE NoHoles(d)'
    <2>0. c = d
      BY <1>0, <1>16 DEF ProcessOK, LoneWorker
    <2>1. /\ \A t \in Times : InPipe(d, t)' <=> InPipe(d, t)
          /\ rpc'[d] = rpc[d] /\ recvd'[d] = recvd[d] /\ last' = wev[d] /\ wpc[d] = "proc"
      BY <1>0, <1>16, <2>0 DEF ProcessOK, InPipe, Busy, runner, clients
    <2>2. wev[d] \in Times /\ InPipe(d, wev[d])
      BY <1>0, <2>1 DEF InHand, InPipe, Busy
    <2>3. \A t \in Times : Ahead(d, t)' => Ahead(d, t)
      BY <2>1, <2>2 DEF Ahead
    <2>4. QED
      BY <1>a, <2>1, <2>3 DEF NoHoles, WasRead
  <1>17. CASE SetCurrent(d)
    <2>1. /\ \A t \in Times : InPipe(d, t)' <=> t \in buf[d] \/ (rpc[d] = "send" /\ t = rev[d])
          /\ rpc'[d] = rpc[d] /\ recvd'[d] = recvd[d] /\ last' = last /\ wpc[d] = "set"
      BY <1>0, <1>17 DEF SetCurrent, InPipe, Busy, runner, clients, history
    <2>2. wev[d] = last /\ wev[d] \in Times /\ Busy(d)
      BY <1>0, <2>1 DEF LoneWorker, InHand, Busy
    <2>3. \A t \in Times : InPipe(d, t)' => InPipe(d, t) /\ last < t
      BY <1>0, <2>1, <2>2 DEF InPipe, PipeInv, PipeOrdered
    <2>4. SUFFICES ASSUME NEW t \in Times, Ahead(d, t)', WasRead(d, t)'
                   PROVE  InPipe(d, t)' \/ Stream[t].kind = "bad"
      BY DEF NoHoles
    <2>5. last < t
      BY <1>b, <2>1, <2>2, <2>3, <2>4 DEF Ahead
    <2>6. WasRead(d, t) /\ Ahead(d, t)
      BY <2>1, <2>3, <2>4, <2>5 DEF WasRead, Ahead
    <2>7. InPipe(d, t) => InPipe(d, t)'
      BY <1>b, <2>1, <2>2, <2>5 DEF InPipe
    <2>8. QED
      BY <1>a, <2>1, <2>6, <2>7 DEF NoHoles
  <1>18. CASE UNCHANGED vars
    BY <1>18, <1>k DEF vars, Kept, runner, clients, worker, history
  <1>19. QED
    BY <1>1, <1>2, <1>3, <1>4, <1>5, <1>6, <1>7, <1>8, <1>9, <1>10, <1>11, <1>12, <1>13,
       <1>14, <1>15, <1>16, <1>17, <1>18
       DEF Next, Crash, Connection, ProcessEvents, ConnectNil, LaunchNil, RunSendClosed

\* Every step keeps the table and the worker in order.
LEMMA OrderNext == IInv /\ OrderInv /\ [Next]_vars => OrderInv'
  <1> SUFFICES ASSUME IInv, OrderInv, [Next]_vars, ordered'
               PROVE  ~raced' /\ LoneWorker' /\ LastDone' /\ TableIsPrefix'
    BY DEF OrderInv
  <1>0. ordered /\ ~raced /\ ~raced' /\ LoneWorker /\ LastDone /\ TableIsPrefix /\ TypeOK
    BY OrderedStays DEF IInv, OrderInv
  <1>1. \A c \in Conns : wpc'[c] # "off" => NoHoles(c)'
    BY HolesNext
  <1>2. /\ \A c, d \in Conns : wpc'[c] # "off" /\ wpc'[d] # "off" => c = d
        /\ \A c \in Conns : wpc'[c] = "set" => wev'[c] = last'
    <2> USE <1>0 DEF LoneWorker, TypeOK, WorkerType
    <2>1. ASSUME NEW how \in {"down", "panic"}, Die(how) PROVE <1>2!1 /\ <1>2!2
      BY <2>1 DEF Die, All
    <2>2. ASSUME NEW c \in Conns, Launch(c) PROVE <1>2!1 /\ <1>2!2
      BY <2>2 DEF Launch
    <2>3. ASSUME NEW c \in Conns, Receive(c) \/ EndOfEvents(c) PROVE <1>2!1 /\ <1>2!2
      BY <2>3 DEF Receive, EndOfEvents, history
    <2>4. ASSUME NEW c \in Conns, ProcessOK(c) PROVE <1>2!1 /\ <1>2!2
      BY <2>4 DEF ProcessOK
    <2>5. ASSUME NEW c \in Conns, ProcessFails(c) \/ SetCurrent(c) PROVE <1>2!1 /\ <1>2!2
      BY <2>5 DEF ProcessFails, SetCurrent, history
    <2>6. CASE UNCHANGED <<wpc, wev, last>>
      BY <2>6
    <2>7. QED
      BY <2>1, <2>2, <2>3, <2>4, <2>5, <2>6
         DEF Next, Emit, Crash, Start, UpdateCollections, Resubscribe, Stop,
             EndLoop, Connection, BeginConnection, NewClient, Connect, ConnectFails, ConnectNil,
             LaunchNil, RunCheck, RunRead, RunReadFails, RunSend, RunSendCancelled,
             RunSendClosed, ProcessEvents, Flush, FlushTick, FinalFlush, SaveCursor, SaveFails,
             vars, worker, history
  <1>3. LastDone' /\ TableIsPrefix'
    <2>1. CASE \E c \in Conns : ProcessOK(c)
      BY <1>0, <2>1, TableStep
    <2>2. CASE ~\E c \in Conns : ProcessOK(c)
      <3>1. records' = records /\ last' = last
        BY <2>2, TableWriters
      <3>2. \A t \in Times : fate[t] = "done" => fate'[t] = "done"
        BY <1>0, DoneStays
      <3>3. last \in Cursors /\ \A n \in Cursors : n \in Times \/ n = 0
        BY <1>0 DEF TypeOK, HistoryType, Cursors, Times
      <3>4. LastDone'
        BY <1>0, <3>1, <3>2, <3>3 DEF LastDone
      <3>5. ASSUME NEW u \in Uris
            PROVE  \E n \in last .. Len(Stream) :
                      (n = last \/ fate'[n] = "done") /\ records[u] = Version(u, n)
        <4>1. PICK n \in last .. Len(Stream) :
                 (n = last \/ fate[n] = "done") /\ records[u] = Version(u, n)
          BY <1>0 DEF TableIsPrefix
        <4>2. n = last \/ n \in Times
          BY <3>3, <4>1 DEF Cursors, Times
        <4>3. QED
          BY <3>2, <4>1, <4>2
      <3>6. TableIsPrefix'
        BY <3>1, <3>5 DEF TableIsPrefix, Version, Writes
      <3>7. QED
        BY <3>4, <3>6
    <2>3. QED
      BY <2>1, <2>2
  <1>4. QED
    BY <1>0, <1>1, <1>2, <1>3 DEF LoneWorker

\* The record table is never behind the event processed last, for every stream,
\* crash, reconnect and replay, as long as commits arrive in order: each record is as
\* the stream left it there or at a later event that was processed before.
THEOREM TableCorrect == Spec => []TableIsPrefix
  <1>1. Init => OrderInv
    <2> SUFFICES ASSUME Init PROVE ~raced /\ LoneWorker /\ LastDone /\ TableIsPrefix
      BY DEF OrderInv
    <2>1. ~raced /\ LoneWorker /\ LastDone
      BY DEF Init, All, LoneWorker, LastDone
    <2>2. \A u \in Uris : Version(u, 0) = NoRecord
      BY DEF Version, Writes
    <2>3. 0 \in 0 .. Len(Stream)
      BY ConstantsAssumption
    <2>4. TableIsPrefix
      BY <2>2, <2>3 DEF Init, TableIsPrefix
    <2>5. QED
      BY <2>1, <2>4
  <1>2. IInv /\ OrderInv => TableIsPrefix
    BY DEF OrderInv, TableIsPrefix
  <1>3. QED
    BY <1>1, <1>2, InitInv, StepInv, OrderNext, PTL DEF Spec

-----------------------------------------------------------------------------
\* The inductive invariant behind PanicOnlyOnTeardown: as long as nothing was torn
\* down there is one loop, it waits for its connection, and that connection has the
\* consumer's client, which nobody stops.
Active(c) == rpc[c] \notin {"off", "ret"}

Quiet == cancelled = {} /\ upd = "idle"

OneLoop ==
    /\ \A l \in Loops : loop[l] # "off" => l = 1
    /\ proc = "up" => ctx = 1
    /\ \A c \in Conns : Active(c) => proc = "up" /\ rctx[c] = 1 /\ loop[1] = "busy"
    /\ \A c, d \in Conns : Active(c) /\ Active(d) => c = d

OwnClientOpen ==
    /\ client # 0 => rpc[client] \notin {"off", "load"}
    /\ \A c \in Conns :
        /\ rpc[c] # "ret" => ~closed[c]
        /\ rpc[c] \in {"connect", "launch"} => client = c
        /\ rpc[c] \in {"check", "read", "send"} => rcl[c] = c

TeardownInv == Quiet => OneLoop /\ OwnClientOpen

\* Every step keeps the invariant; a step that ends Quiet has nothing to show.
LEMMA TeardownNext == IInv /\ TeardownInv /\ [Next]_vars => TeardownInv'
  <1> SUFFICES ASSUME IInv, TeardownInv, [Next]_vars, Quiet' PROVE OneLoop' /\ OwnClientOpen'
    BY DEF TeardownInv
  <1> USE Indices DEF IInv, TypeOK, ControlType, RunnerType, ClientType, TeardownInv, Quiet, OneLoop,
                      OwnClientOpen, Active
  <1>1. ASSUME NEW how \in {"down", "panic"}, Die(how) PROVE OneLoop' /\ OwnClientOpen'
    BY <1>1 DEF Die, All
  <1>2. CASE Start
    BY <1>2 DEF Start, runner, clients, InHand
  <1>3. CASE UpdateCollections \/ Resubscribe \/ Stop
    BY <1>3 DEF UpdateCollections, Resubscribe, Stop
  <1>4. ASSUME NEW l \in Loops, EndLoop(l) PROVE OneLoop' /\ OwnClientOpen'
    BY <1>4 DEF EndLoop, runner, clients
  <1>5. ASSUME NEW l \in Loops, NEW c \in Conns, BeginConnection(l, c)
        PROVE OneLoop' /\ OwnClientOpen'
    <2>0. OneLoop /\ OwnClientOpen
      BY <1>5 DEF BeginConnection
    <2>1. l = 1 /\ c # client /\ loop[1] = "ready"
      BY <1>5, <2>0 DEF BeginConnection, Conns
    <2>2. \A d \in Conns : ~Active(d)
      BY <1>5, <2>1 DEF BeginConnection
    <2>3. OneLoop'
      BY <1>5, <2>1, <2>2 DEF BeginConnection
    <2>4. \A d \in Conns : d # client => closed'[d] = closed[d]
      BY <1>5 DEF BeginConnection, StopClient
    <2>5. client # 0 => rpc[client] = "ret"
      BY <2>0, <2>2
    <2>6. QED
      BY <1>5, <2>1, <2>2, <2>3, <2>4, <2>5 DEF BeginConnection
  <1>6. ASSUME NEW c \in Conns, NewClient(c) PROVE OneLoop' /\ OwnClientOpen'
    BY <1>6 DEF NewClient, Conns
  <1>7. ASSUME NEW c \in Conns, Connect(c) PROVE OneLoop' /\ OwnClientOpen'
    BY <1>7 DEF Connect, control
  <1>8. ASSUME NEW c \in Conns, Launch(c) PROVE OneLoop' /\ OwnClientOpen'
    BY <1>8 DEF Launch, control, clients
  <1>9. ASSUME NEW c \in Conns, ConnectFails(c) \/ RunCheck(c) \/ RunReadFails(c) \/ RunSendCancelled(c)
        PROVE OneLoop' /\ OwnClientOpen'
    BY <1>9 DEF ConnectFails, RunCheck, RunReadFails, RunSendCancelled, Return, clients
  <1>10. ASSUME NEW c \in Conns, RunRead(c) \/ RunSend(c) PROVE OneLoop' /\ OwnClientOpen'
    <2>1. /\ UNCHANGED <<cancelled, upd, loop, proc, ctx, client, rctx, rcl, closed>>
          /\ rpc[c] \in {"read", "send"} /\ \A d \in Conns : d # c => rpc'[d] = rpc[d]
          /\ rpc'[c] \in {"check", "send"}
      BY <1>10 DEF RunRead, RunSend, control
    <2>2. QED
      BY <2>1
  <1>11. CASE UNCHANGED <<cancelled, upd, loop, proc, ctx, client, rpc, rctx, rcl, closed>>
    BY <1>11
  <1>12. QED
    BY <1>1, <1>2, <1>3, <1>4, <1>5, <1>6, <1>7, <1>8, <1>9, <1>10, <1>11
       DEF Next, Emit, Crash, Connection, ConnectNil, LaunchNil, RunSendClosed, ProcessEvents,
           Receive, EndOfEvents, ProcessOK, ProcessFails, SetCurrent, Flush, FlushTick, FinalFlush,
           SaveCursor, SaveFails, vars, control, runner, clients

\* However often connections are lost and made again, the process does not die of a
\* send on a closed channel or of a nil client, unless Stop or UpdateCollections has
\* torn a client down.
THEOREM ReconnectsSafe == Spec => PanicOnlyOnTeardown
  <1>1. Init => TeardownInv
    BY DEF Init, All, TeardownInv, OneLoop, OwnClientOpen, Active, Conns
  <1>2. IInv /\ TeardownInv /\ [Next]_vars
          => [proc' = "panic" /\ proc # "panic" => cancelled # {} \/ upd = "stopped"]_vars
    <2> SUFFICES ASSUME IInv, TeardownInv, [Next]_vars, proc' = "panic", proc # "panic", Quiet
                 PROVE  FALSE
      BY DEF Quiet, IInv, TypeOK, ControlType
    <2>1. PICK c \in Conns : ConnectNil(c) \/ LaunchNil(c) \/ RunSendClosed(c)
      BY DEF Next, Emit, Crash, Die, Start, UpdateCollections, Resubscribe, Stop,
             EndLoop, Connection, BeginConnection, NewClient, Connect, ConnectFails, Launch,
             RunCheck, RunRead, RunReadFails, RunSend, RunSendCancelled,
             ProcessEvents, Receive, EndOfEvents, ProcessOK, ProcessFails,
             SetCurrent, Flush, FlushTick, FinalFlush, SaveCursor, SaveFails, vars, control
    <2>2. OwnClientOpen /\ 0 \notin Conns
      BY DEF TeardownInv, Conns
    <2>3. QED
      BY <2>1, <2>2 DEF ConnectNil, LaunchNil, RunSendClosed, OwnClientOpen
  <1>3. QED
    BY <1>1, <1>2, InitInv, StepInv, TeardownNext, PTL DEF Spec, PanicOnlyOnTeardown

=============================================================================
