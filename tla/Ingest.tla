-------------------------------- MODULE Ingest --------------------------------
(***************************************************************************)
(* Tap mode: the consumer of internal/tap, the record pipeline of          *)
(* internal/ingestion/processor.go it drives, and the start-up work of     *)
(* cmd/hypergoat/main.go on the activity log (workers.ActivityCleanup-     *)
(* Worker, populateActivityIfEmpty).  One goroutine reads, processes and   *)
(* acknowledges; every SQL statement is an action of its own, and each may *)
(* fail, which is also how a 30 second event context that runs out shows.  *)
(*                                                                         *)
(* The Tap sidecar is external: it sends the events of a repository in     *)
(* order, the next one only after the last was acknowledged, each once per *)
(* connection, and starts again from the first unacknowledged one when the *)
(* consumer reconnects.  Acknowledgements are on (TAP_DISABLE_ACKS unset). *)
(***************************************************************************)
EXTENDS IndexDB

CONSTANTS
    MaxRetries      \* TAP_MAX_RETRIES

ASSUME IngestAssumption == MaxRetries \in Nat /\ Null \notin EventIds

VARIABLES
    proc,           \* "up", or "down" between a crash and the next start
    conn,           \* Tap websocket: "up" or "down"
    tracked,        \* Tap: repositories it still follows
    acked,          \* Tap: per repository, events acknowledged
    sent,           \* Tap: repositories whose next event this connection has had
    disp,           \* dispatch and ProcessRecord: the statement about to run (pc),
                    \* its event, the retries so far, activityID or Null (row)
    boot,           \* start-up work not done yet: "populate", "backfill"
    missed          \* history: events whose activity write failed in their last attempt

tapVars == <<conn, tracked, acked, sent>>
ingestVars == <<proc, tapVars, disp, boot, missed>>

Idle == [pc |-> "read", ev |-> Null, attempt |-> 0, row |-> Null]
pc == disp.pc
cur == disp.ev

IngestInit ==
    /\ proc = "up" /\ conn = "down" /\ tracked = Dids
    /\ acked = [d \in Dids |-> 0] /\ sent = {}
    /\ disp = Idle /\ boot = {"populate", "backfill"} /\ missed = {}

IngestTypeOK ==
    /\ {proc, conn} \subseteq {"up", "down"} /\ tracked \subseteq Dids /\ sent \subseteq Dids
    /\ \A d \in Dids : acked[d] \in 0 .. pub[d]
    /\ disp \in [pc : {"read", "handle", "actor", "store", "success", "error", "reject", "failed", "ack"},
                 ev : EventIds \cup {Null}, attempt : 0 .. MaxRetries, row : EventIds \cup {Null}]
    /\ (pc = "read") = (cur = Null)
    /\ boot \subseteq {"populate", "backfill"} /\ missed \subseteq EventIds

-----------------------------------------------------------------------------
(* tap.Consumer *)

\* runOnce dials; a failed dial is retried with backoff and changes nothing.
Dial ==
    /\ proc = "up" /\ conn = "down"
    /\ conn' = "up" /\ sent' = {}
    /\ UNCHANGED <<dbVars, proc, tracked, acked, disp, boot, missed>>

Deliverable(d) == d \in tracked \ sent /\ acked[d] < pub[d]

\* ReadMessage and ParseEvent.
ReadEvent(d) ==
    /\ conn = "up" /\ pc = "read" /\ Deliverable(d)
    /\ sent' = sent \cup {d}
    /\ disp' = [Idle EXCEPT !.pc = "handle", !.ev = <<d, acked[d] + 1>>]
    /\ UNCHANGED <<dbVars, proc, conn, tracked, acked, boot, missed>>

\* ParseEvent fails: the frame is skipped without an acknowledgement.
SkipGarbled(d) ==
    /\ conn = "up" /\ pc = "read" /\ Deliverable(d)
    /\ Fault /\ sent' = sent \cup {d}
    /\ UNCHANGED <<tables, pub, ghosts, proc, conn, tracked, acked, disp, boot, missed>>

\* Mutant: keepalive pings count as frames, so a connection on which an event is
\* left unacknowledged lives on.
ReadTimeoutPinged ==
    /\ conn = "up" /\ pc = "read" /\ sent = {} /\ \A d \in Dids : ~Deliverable(d)
    /\ conn' = "down"
    /\ UNCHANGED <<dbVars, proc, tracked, acked, sent, disp, boot, missed>>

\* No frame within the 60 second read deadline: runOnce returns.
ReadTimeout ==
    /\ conn = "up" /\ pc = "read" /\ \A d \in Dids : ~Deliverable(d)
    /\ conn' = "down"
    /\ UNCHANGED <<dbVars, proc, tracked, acked, sent, disp, boot, missed>>

\* The connection breaks: the next read or the acknowledgement returns an error.
Disconnect ==
    /\ conn = "up" /\ pc \in {"read", "ack"} /\ Fault
    /\ conn' = "down" /\ disp' = Idle
    /\ UNCHANGED <<tables, pub, ghosts, proc, tracked, acked, sent, boot, missed>>

\* Mutant: one retry too many.
RetryOnceMore ==
    /\ pc = "failed"
    /\ disp' = IF disp.attempt <= MaxRetries
               THEN [disp EXCEPT !.pc = "handle", !.attempt = @ + 1] ELSE Idle
    /\ UNCHANGED <<dbVars, proc, tapVars, boot, missed>>

\* Mutant: an event is acknowledged whether it was processed or not.
RetryThenAck ==
    /\ pc = "failed"
    /\ disp' = IF disp.attempt < MaxRetries
               THEN [disp EXCEPT !.pc = "handle", !.attempt = @ + 1]
               ELSE [disp EXCEPT !.pc = "ack"]
    /\ UNCHANGED <<dbVars, proc, tapVars, boot, missed>>

\* An attempt ended in an error: dispatch tries again, or gives up and runOnce
\* reads on without acknowledging.
Retry ==
    /\ pc = "failed"
    /\ disp' = IF disp.attempt < MaxRetries
               THEN [disp EXCEPT !.pc = "handle", !.attempt = @ + 1] ELSE Idle
    /\ UNCHANGED <<dbVars, proc, tapVars, boot, missed>>

\* A panic in the handler is recovered by dispatch and not retried.
Panic ==
    /\ pc \in {"handle", "actor", "store"} /\ Fault
    /\ disp' = Idle /\ missed' = missed \cup {cur}
    /\ UNCHANGED <<tables, pub, ghosts, proc, tapVars, boot>>

\* The acknowledgement is written and arrives.
Ack ==
    /\ pc = "ack" /\ disp' = Idle
    /\ acked' = [acked EXCEPT ![cur[1]] = cur[2]] /\ sent' = sent \ {cur[1]}
    /\ UNCHANGED <<dbVars, proc, conn, tracked, boot, missed>>

-----------------------------------------------------------------------------
(* IndexHandler and RecordProcessor.ProcessRecord *)

Goto(l) == disp' = [disp EXCEPT !.pc = l]

\* handleEvent for an identity event, and for one of unknown type.
HandleIdentity ==
    /\ pc = "handle" /\ Event(cur).kind # "record"
    /\ \/ Event(cur).kind = "other" /\ Goto("ack") /\ Fine /\ UNCHANGED actor
       \/ Event(cur).kind = "identity" /\ Fine /\ Goto("ack")
          /\ actor' = UpsertWithPDS(actor, cur[1], Event(cur).handle, Null)
       \/ Event(cur).kind = "identity" /\ Fault /\ Goto("failed") /\ UNCHANGED actor
    /\ UNCHANGED <<record, activity, bulk, pub, ghosts, proc, tapVars, boot, missed>>

\* The operation must be known; an unlisted collection and a body that is not a
\* JSON object are passed over.
Refuse ==
    /\ pc = "handle" /\ Event(cur).kind = "record" /\ PassedOver(Event(cur))
    /\ Goto(IF Event(cur).op \in RecordOps THEN "ack" ELSE "failed")
    /\ UNCHANGED <<dbVars, proc, tapVars, boot, missed>>

\* LogActivity (its failure is only logged), then validation, then the branch on
\* the operation.
BeginRecord ==
    /\ pc = "handle" /\ Event(cur).kind = "record" /\ ~PassedOver(Event(cur))
    /\ LET next == IF Rejected(Event(cur)) THEN "reject"
                   ELSE IF Event(cur).op = "delete" THEN "store" ELSE "actor"
           logged == LogActivity(activity, cur)
       IN \/ /\ Fine /\ activity' = logged.log /\ missed' = missed \ {cur}
             /\ disp' = [disp EXCEPT !.pc = next, !.row = logged.row]
          \/ /\ Fault /\ missed' = missed \cup {cur} /\ UNCHANGED activity
             /\ disp' = [disp EXCEPT !.pc = next, !.row = Null]
    /\ UNCHANGED <<record, actor, bulk, pub, ghosts, proc, tapVars, boot>>

\* The actor row: created or refreshed with an empty handle and the PDS that
\* resolvePDS found.  A failure of either is only logged.
EnsureActor ==
    /\ pc = "actor" /\ Goto("store")
    /\ \/ Fine /\ actor' = UpsertWithPDS(actor, cur[1], Null, "pds")
       \/ Fault /\ actor' \in {actor, UpsertWithPDS(actor, cur[1], Null, Null)}
    /\ UNCHANGED <<record, activity, bulk, pub, ghosts, proc, tapVars, boot, missed>>

\* InsertWithParams or Delete; PublishRecord follows success (module Subscription).
Store ==
    /\ pc = "store"
    /\ LET e == Event(cur) IN
       \/ /\ Fine /\ Goto("success")
          /\ record' = IF e.op = "delete" THEN DeleteRow(record, e.uri)
                       ELSE InsertWithParams(record, e.uri, e.cid, TRUE)
          /\ applied' = [applied EXCEPT ![e.uri] = cur[2]]
          /\ raced' = raced \ {e.uri} /\ unchecked' = unchecked \ {e.uri}
       \/ Fault /\ Goto("error") /\ UNCHANGED <<record, ghosts>>
    /\ UNCHANGED <<actor, activity, bulk, pub, proc, tapVars, boot, missed>>

\* updateStatus writes how it went; a failure is only logged.  The hook runs after
\* it and its policy is HookLogContinue (module Notifications).
SetStatus ==
    /\ pc \in {"success", "error", "reject"}
    /\ \/ /\ Fine /\ UNCHANGED missed
          /\ activity' = IF disp.row = Null THEN activity
                         ELSE UpdateStatus(activity, disp.row, IF pc = "reject" THEN "rejected" ELSE pc)
       \/ Fault /\ disp.row # Null /\ missed' = missed \cup {cur} /\ UNCHANGED activity
    /\ Goto(IF pc = "error" THEN "failed" ELSE "ack")
    /\ UNCHANGED <<record, actor, bulk, pub, ghosts, proc, tapVars, boot>>

-----------------------------------------------------------------------------
(* Start-up *)

\* populateActivityFromRecords walks over all records and logs a 'success' for each.
FromRecords == {<<u, record[u].cid>> : u \in Stored(record)}

\* initServices looks at both counts in a goroutine of its own and fills an empty
\* activity table from the records (counts and walk in one step).
PopulateActivityIfEmpty ==
    /\ proc = "up" /\ "populate" \in boot /\ boot' = boot \ {"populate"}
    /\ bulk' = IF Stored(record) # {} /\ DOMAIN activity = {} /\ bulk = {}
               THEN FromRecords ELSE bulk
    /\ UNCHANGED <<record, actor, activity, pub, quota, ghosts, proc, tapVars, disp, missed>>

\* startWorkers: Start runs cleanup once.  Its ticker is stopped when Start
\* returns, so cleanup is not run again before the next start.
Restart ==
    /\ proc = "down" /\ proc' = "up" /\ boot' = {"populate", "backfill"}
    /\ \/ Fine /\ activity' = OrphanPendingActivity(CleanupOldActivity(activity))
       \/ Fault /\ activity' \in {activity, OrphanPendingActivity(activity), CleanupOldActivity(activity)}
    /\ UNCHANGED <<record, actor, bulk, pub, ghosts, tapVars, disp, missed>>

\* External: more than 10 minutes go by without an event being dispatched, which
\* takes two minutes at most.
TimePasses ==
    /\ pc = "read" /\ \E i \in DOMAIN activity : activity[i].age < 2
    /\ Spend("pause")
    /\ activity' = [i \in DOMAIN activity |-> [activity[i] EXCEPT !.age = IF @ < 2 THEN @ + 1 ELSE 2]]
    /\ UNCHANGED <<record, actor, bulk, pub, ghosts, ingestVars>>

\* The part of a crash that concerns this module; an event in hand is lost with
\* the status it still had to write.
CrashIngest ==
    /\ proc = "up" /\ Spend("crash")
    /\ proc' = "down" /\ conn' = "down" /\ disp' = Idle /\ boot' = {}
    /\ missed' = IF cur = Null \/ pc = "ack" THEN missed ELSE missed \cup {cur}
    /\ UNCHANGED <<tables, pub, ghosts, tracked, acked, sent>>

ConsumerStep ==
    \/ \E d \in Dids : ReadEvent(d)
    \/ Dial \/ ReadTimeout \/ Retry \/ Ack
    \/ HandleIdentity \/ Refuse \/ BeginRecord \/ EnsureActor \/ Store \/ SetStatus

IngestNext ==
    \/ \E d \in Dids : Publish(d) /\ UNCHANGED ingestVars
    \/ \E d \in Dids : SkipGarbled(d)
    \/ ConsumerStep \/ Disconnect \/ Panic \/ PopulateActivityIfEmpty \/ TimePasses
=============================================================================
