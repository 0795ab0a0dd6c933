------------------------------- MODULE IndexDB -------------------------------
(***************************************************************************)
(* The three tables that ingestion, backfill and the destructive admin     *)
(* operations share, and the statements of their repositories:             *)
(* internal/database/repositories/records.go, actors.go and                *)
(* jetstream_activity.go.  A statement is an operator from the table to    *)
(* its new value; the modules that extend this one say who runs it when.   *)
(* Also here: the upstream repositories (external) the index follows.      *)
(***************************************************************************)
EXTENDS Integers, Sequences, FiniteSets

CONSTANTS
    Dids,           \* repositories (their authors)
    Uris,           \* record URIs
    Cids,           \* content identifiers
    Handles,        \* account handles
    Owner,          \* [Uris -> Dids]: the authority part of the URI
    Feed,           \* [Dids -> Seq(Event)]: what happens upstream, in order
    ValMode,        \* VALIDATION_MODE
    Quotas,         \* bound: the choices of how many upstream events, failures,
                    \* crashes, long pauses, backfills and purge operations there may be
    NoRow,          \* SQL: no such row
    Null            \* SQL NULL, the empty string

RecordOps == {"create", "update", "delete"}
Troubles == {"publish", "fault", "crash", "pause", "backfill", "purge"}

ASSUME IndexDBAssumption ==
    /\ Owner \in [Uris -> Dids]
    /\ ValMode \in {"disabled", "warn", "enforce"}
    /\ Null \notin Handles \cup Dids /\ Quotas \subseteq [Troubles -> Nat]
    /\ IsFiniteSet(Dids) /\ IsFiniteSet(Uris) /\ IsFiniteSet(Cids)
    /\ NoRow \notin [cid : Cids, sorted : BOOLEAN]
    /\ \A d \in Dids : Len(Feed[d]) \in Nat /\ DOMAIN Feed[d] = 1 .. Len(Feed[d])
    /\ \A d \in Dids : \A n \in DOMAIN Feed[d] :
          LET e == Feed[d][n] IN
          \/ e.kind = "identity" /\ e.handle \in Handles
          \/ e.kind = "other"
          \/ /\ e.kind = "record" /\ e.uri \in Uris /\ Owner[e.uri] = d
             /\ e.cid \in Cids /\ {e.listed, e.object, e.valid} \subseteq BOOLEAN

VARIABLES
    record,         \* table record: uri -> [cid, sorted] or NoRow
    actor,          \* table actor: did -> [handle, pds] or NoRow
    activity,       \* table jetstream_activity, rows with a source_event_id: id -> row
    bulk,           \* the same table, rows without one: (uri, cid), all 'success'
    pub,            \* per repository: events of Feed that have happened upstream
    quota,          \* what is left of the choice from Quotas
    applied,        \* history: per URI, the last event that ingestion applied
    raced,          \* history: URIs that a backfill set back to an older version
    unchecked       \* history: URIs with a version that ingestion would not have stored

ghosts == <<applied, raced, unchecked>>
tables == <<record, actor, activity, bulk>>
dbVars == <<tables, pub, quota, ghosts>>

\* A statement or a request fails, or does not.
Spend(c) == quota[c] > 0 /\ quota' = [quota EXCEPT ![c] = @ - 1]
Fault == Spend("fault")
Fine == UNCHANGED quota

EventIds == UNION {{d} \X DOMAIN Feed[d] : d \in Dids}
Event(id) == Feed[id[1]][id[2]]
Statuses == {"pending", "success", "error", "rejected", "orphaned"}
Ages == 0 .. 2          \* younger than 10 minutes, than 7 days, older

-----------------------------------------------------------------------------
(* record *)

\* INSERT ... ON CONFLICT(uri) DO UPDATE ... WHERE cid IS DISTINCT FROM: a row
\* with the same cid is left alone, sort_at is only ever replaced by a value.
InsertWithParams(t, u, c, sortAt) ==
    IF t[u] = NoRow THEN [t EXCEPT ![u] = [cid |-> c, sorted |-> sortAt]]
    ELSE IF t[u].cid = c THEN t
    ELSE [t EXCEPT ![u] = [cid |-> c, sorted |-> sortAt \/ @.sorted]]

\* The batch insert of a transaction: all rows or none, sort_at not mentioned.
BatchInsert(t, recs) ==
    [u \in Uris |-> IF u \in DOMAIN recs THEN InsertWithParams(t, u, recs[u], FALSE)[u] ELSE t[u]]

Stored(t) == {u \in Uris : t[u] # NoRow}
GetCIDsByURIs(t, us) == [u \in us \cap Stored(t) |-> t[u].cid]
GetExistingCIDs(t, cs) == {t[u].cid : u \in Stored(t)} \cap cs
ByDID(t, d) == {u \in Stored(t) : Owner[u] = d}
CountByDID(t, d) == Cardinality(ByDID(t, d))
DeleteRow(t, u) == [t EXCEPT ![u] = NoRow]
DeleteByDID(t, d) == [u \in Uris |-> IF Owner[u] = d THEN NoRow ELSE t[u]]

(* actor *)

\* The handle is overwritten with whatever the caller passes, "" too; an empty
\* pds keeps the old one.
UpsertWithPDS(a, d, handle, pds) ==
    [a EXCEPT ![d] = [handle |-> handle,
                      pds |-> IF pds = Null /\ @ # NoRow THEN @.pds ELSE pds]]
BatchUpsert(a, handles) ==
    [d \in Dids |-> IF d \in DOMAIN handles THEN UpsertWithPDS(a, d, handles[d], Null)[d] ELSE a[d]]
\* A pure UPDATE: nothing happens without a row.
SetPDS(a, d, pds) == IF a[d] = NoRow THEN a ELSE [a EXCEPT ![d].pds = pds]

(* jetstream_activity *)

\* Mutant: a conflicting insert returns no id.
LogActivityNoId(log, id) ==
    IF id \in DOMAIN log THEN [log |-> log, row |-> Null]
    ELSE [log |-> [i \in DOMAIN log \cup {id} |->
                      IF i = id THEN [status |-> "pending", age |-> 0] ELSE log[i]],
          row |-> id]

\* A row 'pending', or on a conflict of source_event_id the row already there, as
\* it is; the id returned is the row's in both cases.
LogActivity(log, id) ==
    [log |-> IF id \in DOMAIN log THEN log
             ELSE [i \in DOMAIN log \cup {id} |->
                      IF i = id THEN [status |-> "pending", age |-> 0] ELSE log[i]],
     row |-> id]
LogActivityWithStatus(rows, recs) == rows \cup {<<u, recs[u]>> : u \in DOMAIN recs}

\* An UPDATE by id: nothing happens when the row has gone.
UpdateStatus(log, id, s) == IF id \in DOMAIN log THEN [log EXCEPT ![id].status = s] ELSE log

CleanupOldActivity(log) ==
    [i \in {j \in DOMAIN log : log[j].age < 2} |-> log[i]]
OrphanPendingActivity(log) ==
    [i \in DOMAIN log |->
        IF log[i].status = "pending" /\ log[i].age > 0
        THEN [log[i] EXCEPT !.status = "orphaned"] ELSE log[i]]

-----------------------------------------------------------------------------
(* Upstream *)

Touches(d, n, u) == Feed[d][n].kind = "record" /\ Feed[d][n].uri = u

\* What validation makes of a version (lexicon.Validator is modelled elsewhere).
Rejected(e) == ValMode = "enforce" /\ ~e.valid /\ e.op # "delete"
PassedOver(e) == e.op \notin RecordOps \/ ~e.listed \/ (e.op # "delete" /\ ~e.object)
Accepted(e) == ~PassedOver(e) /\ ~Rejected(e)

RecordEvents(d) == {k \in 1 .. pub[d] : Feed[d][k].kind = "record"}

\* Per URI, the version it has after the events at the given positions: the position
\* of the event that wrote it.
Versions(d, events) ==
    LET touch(u) == {k \in events : Touches(d, k, u)}
        last(u) == CHOOSE k \in touch(u) : \A j \in touch(u) : j <= k
        live == {u \in Uris : touch(u) # {} /\ Feed[d][last(u)].op # "delete"}
    IN [u \in live |-> last(u)]

DBTypeOK ==
    /\ record \in [Uris -> [cid : Cids, sorted : BOOLEAN] \cup {NoRow}]
    /\ actor \in [Dids -> [handle : Handles \cup Dids \cup {Null}, pds : {"pds", Null}] \cup {NoRow}]
    /\ DOMAIN activity \subseteq EventIds
    /\ \A i \in DOMAIN activity : activity[i] \in [status : Statuses, age : Ages]
    /\ bulk \subseteq Uris \X Cids
    /\ \A d \in Dids : pub[d] \in 0 .. Len(Feed[d])
    /\ quota \in [Troubles -> Nat]
    /\ \A u \in Uris : applied[u] \in 0 .. Len(Feed[Owner[u]])
    /\ raced \subseteq Uris /\ unchecked \subseteq Uris

DBInit ==
    /\ record = [u \in Uris |-> NoRow]
    /\ actor = [d \in Dids |-> NoRow]
    /\ activity = << >> /\ bulk = {}
    /\ pub = [d \in Dids |-> 0]
    /\ quota \in Quotas /\ applied = [u \in Uris |-> 0] /\ raced = {} /\ unchecked = {}

\* External: the account's owner writes to the repository.
Publish(d) ==
    /\ pub[d] < Len(Feed[d]) /\ Spend("publish")
    /\ pub' = [pub EXCEPT ![d] = @ + 1]
    /\ UNCHANGED <<tables, ghosts>>
=============================================================================
