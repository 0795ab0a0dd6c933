---------------------------- MODULE Notifications ----------------------------
(***************************************************************************)
(* The notification tables: internal/notifications/service.go and repo.go, *)
(* and what the extractors of internal/notifications/extractors return.    *)
(*                                                                         *)
(* The hook runs in the processEvents goroutines of a consumer, which      *)
(* deliver a log of record operations at least once: each one starts at    *)
(* some position the consumer has already passed, and an old one may still *)
(* be working when the next starts.  No operation runs in a transaction,   *)
(* so every SQL statement is an action of its own.                         *)
(***************************************************************************)
EXTENDS Integers, Sequences, FiniteSets, Functions

CONSTANTS
    Workers,        \* processEvents goroutines
    Records,        \* record URIs
    Actors,         \* DIDs that did.IsValid accepts
    Keys,           \* group keys, one per endorsed subject
    NoKey,          \* the empty GroupKey: not aggregated
    Times,          \* values of sort_at
    NoTime,         \* a createdAt that clampSortAt replaces by the current time
    Logs,           \* operation logs the upstream may serve
    MaxFanOutPerRecord,
    MaxIds,         \* bound: envelopes ever inserted
    MaxStarts,      \* bound: goroutines ever started
    MaxFaults       \* bound: crashes and failed statements

Operations == {"create", "update", "delete"}

ASSUME NotificationsAssumption ==
    /\ IsFiniteSet(Workers) /\ IsFiniteSet(Records) /\ IsFiniteSet(Actors)
    /\ NoKey \notin Keys /\ NoTime \notin Times /\ Times \subseteq Nat
    /\ MaxFanOutPerRecord \in Nat /\ MaxIds \in Nat /\ MaxStarts \in Nat /\ MaxFaults \in Nat
    /\ \A l \in Logs : l \in Seq(Range(l))
    /\ \A l \in Logs : \A i \in DOMAIN l :
          /\ l[i].op \in Operations /\ l[i].uri \in Records
          /\ l[i].author \in Actors /\ l[i].to \in Seq(Range(l[i].to)) /\ l[i].key \in Keys \cup {NoKey}
          /\ l[i].at \in Times \cup {NoTime}

\* A record is created when it is not there: a repository's create of a record comes first,
\* or after its delete.
ASSUME CreatesAssumption ==
    \A l \in Logs : \A i, j \in DOMAIN l :
        (/\ i < j /\ l[i].uri = l[j].uri /\ l[j].op = "create"
         /\ \A k \in i + 1 .. j - 1 : l[k].uri # l[j].uri)
        => l[i].op = "delete"

Ids == 1 .. MaxIds
NoRow == 0

VARIABLES
    log,            \* the operations of the upstream
    env,            \* table notification: id -> row (or the dead row)
    nextId,         \* its id sequence
    part,           \* table notification_participant: (record_uri, recipient_did) -> row
    pc, pos,        \* per worker: statement it is about to run, operations it has finished
    todo, at,       \*   Apply: recipients left to notify, sort_at of the operation
    ids, cur,       \*   DeleteByRecordURI: envelopes left; the envelope in hand
    done,           \* operations some worker has finished (the consumer's cursor)
    starts, faults, \* goroutines started; faults so far
    drift,          \* history: participants minus counts that cut-off operations left, per envelope
    torn,           \* history: envelopes an operation left half done
    dropped,        \* history: an operation was given up after a failed statement
    last,           \* history: position of the operation begun or finished last
    ordered         \* history: one worker at a time, none started past last

tables == <<env, nextId, part>>
local  == <<pc, pos, todo, at, ids, cur>>
bounds == <<done, starts, faults, drift>>
hist   == <<torn, dropped, last, ordered>>
vars   == <<log, tables, local, bounds, hist>>

Dead == [live |-> FALSE, to |-> NoRow, key |-> NoKey, sort |-> 0, count |-> 0, latest |-> NoRow]
Live(e) == env[e].live
NoPart == [id |-> NoRow, sort |-> 0]

Op(w) == log[pos[w] + 1]

\* The participants of envelope e, and the newest of them.
Participants(e) == {p \in Records \X Actors : part[p[1]][p[2]].id = e}
Newest(e) == {p \in Participants(e) :
                 \A q \in Participants(e) : part[q[1]][q[2]].sort <= part[p[1]][p[2]].sort}

\* A foreign key with ON DELETE CASCADE: the rows that reference e go with it.
Cascade(e) == [r \in Records |-> [d \in Actors |->
                  IF part[r][d].id = e THEN NoPart ELSE part[r][d]]]

\* Where a record names the DIDs that Extract takes: valid ones other than the author,
\* each where it is mentioned first.
Mentions(o) == {i \in DOMAIN o.to : /\ o.to[i] \in Actors \ {o.author}
                                    /\ \A j \in 1 .. i - 1 : o.to[j] # o.to[i]}

\* Extract: those DIDs in their order, at most MaxFanOutPerRecord; none at all from a
\* record with more than twice as many contributors.  An endorsement has one subject.
Extract(o) ==
    LET M == Mentions(o)
        n == IF Cardinality(M) < MaxFanOutPerRecord THEN Cardinality(M) ELSE MaxFanOutPerRecord
        Nth(k) == CHOOSE i \in M : Cardinality({j \in M : j <= i}) = k
    IN IF Len(o.to) > 2 * MaxFanOutPerRecord THEN <<>> ELSE [k \in 1 .. n |-> o.to[Nth(k)]]

\* clampSortAt: the record's createdAt, or the time of processing.
SortAt(o) == IF o.at = NoTime THEN Times ELSE {o.at}

Init ==
    /\ log \in Logs
    /\ env = [e \in Ids |-> Dead] /\ nextId = 1
    /\ part = [r \in Records |-> [d \in Actors |-> NoPart]]
    /\ pc = [w \in Workers |-> "off"] /\ pos = [w \in Workers |-> 0]
    /\ todo = [w \in Workers |-> <<>>] /\ at = [w \in Workers |-> 0]
    /\ ids = [w \in Workers |-> {}] /\ cur = [w \in Workers |-> NoRow]
    /\ done = 0 /\ starts = 0 /\ faults = 0 /\ drift = [e \in Ids |-> 0]
    /\ torn = {} /\ dropped = FALSE /\ last = 0 /\ ordered = TRUE

\* A connection opens and its processEvents starts to read after position p, a
\* cursor that was saved earlier.
Start(w, p) ==
    /\ pc[w] = "off" /\ starts < MaxStarts
    /\ starts' = starts + 1
    /\ pc' = [pc EXCEPT ![w] = "idle"] /\ pos' = [pos EXCEPT ![w] = p]
    /\ ordered' = (ordered /\ p <= last /\ \A v \in Workers : pc[v] = "off")
    /\ UNCHANGED <<log, tables, todo, at, ids, cur, done, faults, drift, torn, dropped, last>>

\* Its channel is closed and drained.
End(w) ==
    /\ pc[w] = "idle" /\ pc' = [pc EXCEPT ![w] = "off"]
    /\ UNCHANGED <<log, tables, pos, todo, at, ids, cur, bounds, hist>>

\* process returns; the next event is taken.
Finish(w) ==
    /\ pc' = [pc EXCEPT ![w] = "idle"] /\ pos' = [pos EXCEPT ![w] = @ + 1]
    /\ done' = (IF done > pos[w] THEN done ELSE pos[w] + 1) /\ last' = pos[w] + 1
    /\ todo' = [todo EXCEPT ![w] = <<>>] /\ at' = [at EXCEPT ![w] = 0]
    /\ ids' = [ids EXCEPT ![w] = {}] /\ cur' = [cur EXCEPT ![w] = NoRow]

\* The part of process after the deletion: extract, then start Apply.
ExtractAndApply(w) ==
    \/ Extract(Op(w)) = <<>> /\ Finish(w)
    \/ /\ Extract(Op(w)) # <<>>
       /\ pc' = [pc EXCEPT ![w] = "envelope"]
       /\ todo' = [todo EXCEPT ![w] = Extract(Op(w))]
       /\ \E s \in SortAt(Op(w)) : at' = [at EXCEPT ![w] = s]
       /\ ids' = [ids EXCEPT ![w] = {}] /\ cur' = [cur EXCEPT ![w] = NoRow]
       /\ last' = pos[w]
       /\ UNCHANGED <<pos, done>>

\* Mutant: an update keeps the participants of the version before it.
ProcessKeepsPrior(w) ==
    /\ pc[w] = "idle" /\ pos[w] < Len(log)
    /\ \/ /\ Op(w).op = "delete"
          /\ pc' = [pc EXCEPT ![w] = "delete"]
          /\ last' = pos[w]
          /\ UNCHANGED <<pos, todo, at, ids, cur, done>>
       \/ Op(w).op # "delete" /\ ExtractAndApply(w)
    /\ UNCHANGED <<log, tables, starts, faults, drift, torn, dropped, ordered>>

\* process takes the next operation.
Process(w) ==
    /\ pc[w] = "idle" /\ pos[w] < Len(log)
    /\ \/ /\ Op(w).op \in {"update", "delete"}
          /\ pc' = [pc EXCEPT ![w] = "delete"]
          /\ last' = pos[w]
          /\ UNCHANGED <<pos, todo, at, ids, cur, done>>
       \/ Op(w).op = "create" /\ ExtractAndApply(w)
    /\ UNCHANGED <<log, tables, starts, faults, drift, torn, dropped, ordered>>

\* The loop of DeleteByRecordURI: the next envelope in S, or its end.
NextDeleted(w, S) ==
    \/ /\ S # {}
       /\ pc' = [pc EXCEPT ![w] = "decrement"] /\ ids' = [ids EXCEPT ![w] = S]
       /\ \E e \in S : cur' = [cur EXCEPT ![w] = e]
       /\ UNCHANGED <<pos, todo, at, done, last>>
    \/ S = {} /\ Op(w).op = "delete" /\ Finish(w)
    \/ S = {} /\ Op(w).op = "update" /\ ExtractAndApply(w)

DeleteParticipants(w) ==
    /\ pc[w] = "delete"
    /\ part' = [part EXCEPT ![Op(w).uri] = [d \in Actors |-> NoPart]]
    /\ NextDeleted(w, {part[Op(w).uri][d].id : d \in Actors} \ {NoRow})
    /\ UNCHANGED <<log, env, nextId, starts, faults, drift, torn, dropped, ordered>>

\* UPDATE notification SET count = count - 1
Decrement(w) ==
    /\ pc[w] = "decrement"
    /\ pc' = [pc EXCEPT ![w] = "sweep"]
    /\ ids' = [ids EXCEPT ![w] = @ \ {cur[w]}]
    /\ env' = IF Live(cur[w]) THEN [env EXCEPT ![cur[w]].count = @ - 1] ELSE env
    /\ UNCHANGED <<log, nextId, part, pos, todo, at, cur, bounds, hist>>

\* Mutant: an envelope goes with its last but one participant.
SweepEarly(w) ==
    /\ pc[w] = "sweep"
    /\ \/ /\ Live(cur[w]) /\ env[cur[w]].count <= 1
          /\ env' = [env EXCEPT ![cur[w]] = Dead] /\ part' = Cascade(cur[w])
          /\ NextDeleted(w, ids[w])
       \/ /\ ~(Live(cur[w]) /\ env[cur[w]].count <= 1)
          /\ pc' = [pc EXCEPT ![w] = "recompute"]
          /\ UNCHANGED <<env, part, pos, todo, at, ids, cur, done, last>>
    /\ UNCHANGED <<log, nextId, starts, faults, drift, torn, dropped, ordered>>

\* DELETE FROM notification WHERE count <= 0, else recompute what is left.
Sweep(w) ==
    /\ pc[w] = "sweep"
    /\ \/ /\ Live(cur[w]) /\ env[cur[w]].count <= 0
          /\ env' = [env EXCEPT ![cur[w]] = Dead] /\ part' = Cascade(cur[w])
          /\ NextDeleted(w, ids[w])
       \/ /\ ~(Live(cur[w]) /\ env[cur[w]].count <= 0)
          /\ pc' = [pc EXCEPT ![w] = "recompute"]
          /\ UNCHANGED <<env, part, pos, todo, at, ids, cur, done, last>>
    /\ UNCHANGED <<log, nextId, starts, faults, drift, torn, dropped, ordered>>

\* Mutant: latest_* keeps pointing at the deleted record.
RecomputeNothing(w) ==
    /\ pc[w] = "recompute" /\ UNCHANGED env
    /\ NextDeleted(w, ids[w])
    /\ UNCHANGED <<log, nextId, part, starts, faults, drift, torn, dropped, ordered>>

\* latest_* and sort_at from the newest participant (of several with the same
\* sort_at any one: the code takes the last one inserted).
Recompute(w) ==
    /\ pc[w] = "recompute"
    /\ \/ /\ Live(cur[w])
          /\ \E p \in Newest(cur[w]) :
                env' = [env EXCEPT ![cur[w]].latest = p[1],
                                   ![cur[w]].sort = part[p[1]][p[2]].sort]
       \/ (~Live(cur[w]) \/ Newest(cur[w]) = {}) /\ UNCHANGED env
    /\ NextDeleted(w, ids[w])
    /\ UNCHANGED <<log, nextId, part, starts, faults, drift, torn, dropped, ordered>>

\* applyOne for the next recipient: find its envelope by group key, or insert one.
Group(d, k) == {e \in Ids : Live(e) /\ k # NoKey /\ env[e].to = d /\ env[e].key = k}

Envelope(w) ==
    LET d == Head(todo[w]) k == Op(w).key IN
    /\ pc[w] = "envelope"
    /\ pc' = [pc EXCEPT ![w] = "participant"]
    /\ \/ /\ \E e \in Group(d, k) : cur' = [cur EXCEPT ![w] = e]
          /\ UNCHANGED <<env, nextId>>
       \/ /\ Group(d, k) = {} /\ nextId \in Ids
          /\ env' = [env EXCEPT ![nextId] = [live |-> TRUE, to |-> d, key |-> k,
                                   sort |-> at[w], count |-> 0, latest |-> Op(w).uri]]
          /\ cur' = [cur EXCEPT ![w] = nextId] /\ nextId' = nextId + 1
    /\ UNCHANGED <<log, part, pos, todo, at, ids, bounds, hist>>

\* The loop of Apply: the next recipient, or its end.
NextNotification(w) ==
    \/ Len(todo[w]) = 1 /\ Finish(w)
    \/ /\ Len(todo[w]) > 1
       /\ pc' = [pc EXCEPT ![w] = "envelope"] /\ todo' = [todo EXCEPT ![w] = Tail(@)]
       /\ cur' = [cur EXCEPT ![w] = NoRow]
       /\ UNCHANGED <<pos, at, ids, done, last>>

\* Mutant: a conflicting participant is updated in place and counted again.
ParticipantUpserts(w) ==
    LET r == Op(w).uri d == Head(todo[w]) IN
    /\ pc[w] = "participant" /\ Live(cur[w])
    /\ part' = [part EXCEPT ![r][d] = [id |-> cur[w], sort |-> at[w]]]
    /\ pc' = [pc EXCEPT ![w] = "bump"]
    /\ UNCHANGED <<pos, todo, at, ids, cur, done, last, torn, dropped>>
    /\ UNCHANGED <<log, env, nextId, starts, faults, drift, ordered>>

\* INSERT INTO notification_participant ... ON CONFLICT DO NOTHING.  A conflict
\* ends an aggregated notification; a fresh envelope is removed otherwise.  A row
\* whose envelope is gone violates the foreign key: Apply returns the error.
Participant(w) ==
    LET r == Op(w).uri d == Head(todo[w]) IN
    /\ pc[w] = "participant"
    /\ \/ /\ part[r][d] # NoPart /\ Op(w).key = NoKey
          /\ pc' = [pc EXCEPT ![w] = "undo"]
          /\ UNCHANGED <<part, pos, todo, at, ids, cur, done, last, torn, dropped>>
       \/ /\ part[r][d] # NoPart /\ Op(w).key # NoKey
          /\ torn' = IF Participants(cur[w]) = {} THEN torn \cup {cur[w]} ELSE torn
          /\ NextNotification(w)
          /\ UNCHANGED <<part, dropped>>
       \/ /\ part[r][d] = NoPart /\ Live(cur[w])
          /\ part' = [part EXCEPT ![r][d] = [id |-> cur[w], sort |-> at[w]]]
          /\ pc' = [pc EXCEPT ![w] = "bump"]
          /\ UNCHANGED <<pos, todo, at, ids, cur, done, last, torn, dropped>>
       \/ /\ part[r][d] = NoPart /\ ~Live(cur[w])
          /\ dropped' = TRUE
          /\ Finish(w)
          /\ UNCHANGED <<part, torn>>
    /\ UNCHANGED <<log, env, nextId, starts, faults, drift, ordered>>

\* DELETE FROM notification WHERE id = $1 AND count = 0
Undo(w) ==
    /\ pc[w] = "undo"
    /\ IF env[cur[w]].count = 0
       THEN env' = [env EXCEPT ![cur[w]] = Dead] /\ part' = Cascade(cur[w])
       ELSE UNCHANGED <<env, part>>
    /\ NextNotification(w)
    /\ UNCHANGED <<log, nextId, starts, faults, drift, torn, dropped, ordered>>

\* UPDATE notification SET count = count + 1, sort_at, latest_*
Bump(w) ==
    /\ pc[w] = "bump"
    /\ \/ /\ Live(cur[w])
          /\ env' = [env EXCEPT
                ![cur[w]].count = @ + 1,
                ![cur[w]].sort = IF at[w] > @ THEN at[w] ELSE @,
                ![cur[w]].latest = IF at[w] >= env[cur[w]].sort THEN Op(w).uri ELSE @]
       \/ ~Live(cur[w]) /\ UNCHANGED env
    /\ NextNotification(w)
    /\ UNCHANGED <<log, nextId, part, starts, faults, drift, torn, dropped, ordered>>

\* What worker w leaves half done when it stops where it is.
Left(w) == ids[w] \cup (IF pc[w] \in {"participant", "undo", "bump", "sweep", "recompute"}
                        THEN {cur[w]} ELSE {})

\* Workers that have inserted a participant of e and not yet counted it, and
\* workers that have removed one and not yet discounted it.
Uncounted(e) == {w \in Workers : pc[w] = "bump" /\ cur[w] = e}
Undiscounted(e) == {w \in Workers : e \in ids[w]}

\* How far the counts are behind the participants once the workers in W have stopped.
Drift(W) == [e \in Ids |-> drift[e] + Cardinality(Uncounted(e) \cap W)
                                    - Cardinality(Undiscounted(e) \cap W)]

InStatement(w) == pc[w] \notin {"off", "idle"}

\* A statement fails: process returns the error, the hook's policy is to log it,
\* and the consumer goes on to the next event.  (The error of Undo is ignored.)
Fail(w) ==
    /\ InStatement(w) /\ faults < MaxFaults /\ faults' = faults + 1
    /\ torn' = torn \cup Left(w) /\ drift' = Drift({w})
    /\ \/ pc[w] = "undo" /\ NextNotification(w) /\ UNCHANGED dropped
       \/ pc[w] # "undo" /\ Finish(w) /\ dropped' = TRUE
    /\ UNCHANGED <<log, tables, starts, ordered>>

\* The process dies; the tables stay.
Crash ==
    /\ faults < MaxFaults /\ faults' = faults + 1
    /\ \E w \in Workers : pc[w] # "off"
    /\ torn' = torn \cup UNION {Left(w) : w \in Workers} /\ drift' = Drift(Workers)
    /\ pc' = [w \in Workers |-> "off"] /\ pos' = [w \in Workers |-> 0]
    /\ todo' = [w \in Workers |-> <<>>] /\ at' = [w \in Workers |-> 0]
    /\ ids' = [w \in Workers |-> {}] /\ cur' = [w \in Workers |-> NoRow]
    /\ UNCHANGED <<log, tables, done, starts, dropped, last, ordered>>

Next ==
    \/ \E w \in Workers :
          \/ \E p \in 0 .. done : Start(w, p)
          \/ End(w) \/ Process(w)
          \/ DeleteParticipants(w) \/ Decrement(w) \/ Sweep(w) \/ Recompute(w)
          \/ Envelope(w) \/ Participant(w) \/ Undo(w) \/ Bump(w)
          \/ Fail(w)
    \/ Crash

Spec == Init /\ [][Next]_vars

-----------------------------------------------------------------------------
\* However applyOne and DeleteByRecordURI interleave, an envelope's count
\* differs from the number of its participants by exactly the statements that
\* workers still have to run and those that operations cut short never ran.
CountAccounts ==
    \A e \in Ids : Live(e) =>
        env[e].count + Cardinality(Uncounted(e)) + drift[e]
            = Cardinality(Participants(e)) + Cardinality(Undiscounted(e))

Untouched(e) == \A w \in Workers : e \notin ids[w] /\ cur[w] # e

\* Between operations, and as long as no two workers have raced, an envelope
\* that no operation left half done is right: it has participants, counts them
\* all, and shows the newest.
EnvelopesSettled ==
    ordered => \A e \in Ids \ torn : Live(e) /\ Untouched(e) =>
        /\ env[e].count = Cardinality(Participants(e))
        /\ \E p \in Newest(e) : /\ env[e].latest = p[1]
                                /\ env[e].sort = part[p[1]][p[2]].sort

\* The recipients that the log, read to its end, names for record r.
LastOp(r) == {i \in DOMAIN log : log[i].uri = r /\ \A j \in DOMAIN log : log[j].uri = r => j <= i}
Named(r) == UNION {IF log[i].op = "delete" THEN {} ELSE Range(Extract(log[i])) : i \in LastOp(r)}

\* Redelivery from any earlier position ends in the same participants: when a
\* lone worker has read the log to its end and nothing was cut short, exactly
\* the recipients of the current version of each record are notified.
ReplayConverges ==
    (/\ torn = {} /\ ~dropped /\ ordered
     /\ \E w \in Workers : pc[w] = "idle" /\ pos[w] = Len(log))
        => \A r \in Records : {d \in Actors : part[r][d] # NoPart} = Named(r)

\* A participant goes when its own record is deleted or updated, or with its envelope;
\* and an envelope is deleted with participants (of other records) only as far as its
\* count is behind: at most as many as workers have inserted and not yet counted, in
\* that moment or when they were cut short.  With none of either, a deletion takes no
\* other record's participant with it.
OnlyOwnRowsGo ==
    [][/\ \A r \in Records, d \in Actors :
             part[r][d] # NoPart /\ part'[r][d] = NoPart
                => \/ \E w \in Workers : pc[w] = "delete" /\ pc'[w] # "delete" /\ Op(w).uri = r
                   \/ \E e \in Ids : part[r][d].id = e /\ Live(e) /\ ~Live(e)'
       /\ \A e \in Ids : Live(e) /\ ~Live(e)' =>
             Cardinality(Participants(e)) <= Cardinality(Uncounted(e)) + drift[e]]_vars

\* "For aggregated, the upsert was a no-op on an existing row" (applyOne): when a
\* lone worker has replayed the log to its end, without any fault, no envelope is
\* left behind without participants.
NoGhost ==
    (faults = 0 /\ ordered /\ \E w \in Workers : pc[w] = "idle" /\ pos[w] = Len(log))
        => \A e \in Ids : Live(e) => Participants(e) # {}
=============================================================================
