----------------------------- MODULE IndexProofs -----------------------------
(***************************************************************************)
(* The safety properties of the index for any repositories, feeds,         *)
(* administrators and bounds.  The inductive invariant adds to the types   *)
(* what the event in hand has done so far, which version of a record a row *)
(* holds, and what the signer knows of a token.                            *)
(***************************************************************************)
EXTENDS Index, FiniteSetTheorems, WellFoundedInduction, TLAPS

-----------------------------------------------------------------------------
(* The types, with the domains of the functions.                           *)

Record == [cid : Cids, sorted : BOOLEAN] \cup {NoRow}
Actor  == [handle : Handles \cup Dids \cup {Null}, pds : {"pds", Null}] \cup {NoRow}
PCs    == {"read", "handle", "actor", "store", "success", "error", "reject", "failed", "ack"}
Steps  == {"none", "fetch", "list", "dedup", "write", "insert"}
Work   == [step : Steps, recs : UNION {[S -> Nat] : S \in SUBSET Uris}]

AllRows ==
    ({"record"} \X Uris) \cup ({"actor"} \X Dids) \cup ({"activity"} \X EventIds)
        \cup ({"bulk"} \X (Uris \X Cids))

QuotaType == quota \in [Troubles -> Nat]
RecordType == record \in [Uris -> Record]
ActorType == actor \in [Dids -> Actor]
ActivityType ==
    /\ DOMAIN activity \subseteq EventIds
    /\ \A i \in DOMAIN activity : activity[i] \in [status : Statuses, age : Ages]
BulkType == bulk \subseteq Uris \X Cids
GhostType ==
    /\ applied \in [Uris -> Nat] /\ \A u \in Uris : applied[u] <= Len(Feed[Owner[u]])
    /\ raced \subseteq Uris /\ unchecked \subseteq Uris
FeedType ==
    /\ pub \in [Dids -> Nat] /\ acked \in [Dids -> Nat]
    /\ \A d \in Dids : acked[d] <= pub[d] /\ pub[d] <= Len(Feed[d])
TapType ==
    /\ {proc, conn} \subseteq {"up", "down"} /\ tracked \subseteq Dids /\ sent \subseteq Dids
    /\ boot \subseteq {"populate", "backfill"}

\* The event in hand is the first that its repository has not acknowledged.
DispType ==
    /\ disp \in [pc : PCs, ev : EventIds \cup {Null}, attempt : 0 .. MaxRetries, row : EventIds \cup {Null}]
    /\ (disp.pc = "read") = (disp.ev = Null)
    /\ disp.ev # Null => disp.ev[2] = acked[disp.ev[1]] + 1 /\ disp.ev[2] <= pub[disp.ev[1]]
    /\ missed \subseteq EventIds

\* Versions of a repository's records that are among its first n events.
Published(d, n, recs) ==
    /\ DOMAIN recs \subseteq Uris
    /\ \A u \in DOMAIN recs :
          Owner[u] = d /\ recs[u] \in 1 .. n /\ Touches(d, recs[u], u) /\ Feed[d][recs[u]].op # "delete"

\* What a job has in hand are versions that were published.
WorkType ==
    /\ job \in [Jobs -> {"idle", "resolve", "upsert", "repos"}]
    /\ work \in [Jobs -> [Dids -> Work]]
    /\ \A j \in Jobs, d \in Dids :
          /\ work[j][d].step # "none" => job[j] # "idle"
          /\ Published(d, pub[d], work[j][d].recs)
          /\ job[j] = "upsert" => work[j][d].step \in {"none", "fetch"}
    /\ \A d, e \in Dids : work["actor"][d].step # "none" /\ work["actor"][e].step # "none" => d = e

TokenType ==
    /\ now \in 0 .. MaxClock
    /\ used \subseteq tokens \X Spellings /\ evicted \subseteq tokens \X Spellings
    /\ DOMAIN redeemed \subseteq tokens \X Spellings
    /\ \A t \in tokens :
          t.scope \in Scopes /\ t.admin \in Admins /\ t.count \in Nat /\ t.exp \in Nat /\ t.exp <= now + TTL
    /\ req \in [Reqs -> [step : {"none", "verify", "mark", "delete", "tap"}, tok : tokens \cup {Null},
                         text : Spellings \cup {Null}, count : Nat, at : Nat]]
    /\ \A r \in Reqs : /\ req[r].step # "none" => req[r].tok \in tokens
                       /\ req[r].step \in {"verify", "mark"} => req[r].text \in Spellings

Types ==
    /\ QuotaType /\ RecordType /\ ActorType /\ ActivityType /\ BulkType /\ GhostType
    /\ FeedType /\ TapType /\ DispType /\ WorkType /\ TokenType

-----------------------------------------------------------------------------
(* What the invariant says beyond the types.                               *)

IsAccepted(d, k, u) == Touches(d, k, u) /\ Accepted(Feed[d][k])

\* How far the event in hand has come.
InHand ==
    LET e == Event(disp.ev) IN
    /\ disp.pc \in {"actor", "store", "success", "error"} => e.kind = "record" /\ Accepted(e)
    /\ disp.pc = "reject" => e.kind = "record" /\ Rejected(e)
    /\ disp.pc = "success" => applied[e.uri] = disp.ev[2]
    /\ disp.pc = "ack" /\ e.kind = "record" /\ Accepted(e) => applied[e.uri] = disp.ev[2]

\* Ingestion has applied, of every record, an accepted event that is not older than
\* any that was acknowledged.
AppliedSound ==
    \A u \in Uris : LET d == Owner[u] IN
        /\ applied[u] # 0 => applied[u] \in 1 .. pub[d] /\ IsAccepted(d, applied[u], u)
        /\ \A k \in 1 .. acked[d] : IsAccepted(d, k, u) => k <= applied[u]

\* A row that nothing set back holds a version not older than the applied one; without
\* a row, the applied event deleted it.
Holds(u, k) ==
    /\ IsAccepted(Owner[u], k, u) /\ Feed[Owner[u]][k].op # "delete"
    /\ record[u].cid = Feed[Owner[u]][k].cid /\ k >= applied[u]
RowSound(u) ==
    IF record[u] = NoRow THEN applied[u] # 0 => Feed[Owner[u]][applied[u]].op = "delete"
    ELSE \E k \in 1 .. pub[Owner[u]] : Holds(u, k)
RowsSound == \A u \in Uris : Owner[u] \notin gone /\ u \notin raced \cup unchecked => RowSound(u)

\* The rows of the activity log are for events that ProcessRecord takes up, and the
\* event in hand either has its row to write to or counts as missed.
LogSound ==
    /\ \A i \in DOMAIN activity : Event(i).kind = "record" /\ ~PassedOver(Event(i))
    /\ disp.pc \in {"actor", "store", "success", "error", "reject"} =>
          disp.row = disp.ev \/ (disp.row = Null /\ disp.ev \in missed)
    /\ disp.pc = "ack" /\ disp.ev \in DOMAIN activity =>
          (activity[disp.ev].status \in {"pending", "orphaned", "error"} => disp.ev \in missed)
Unsettled(i) == activity[i].status \in {"pending", "orphaned", "error"} /\ i \notin missed
Settled == \A i \in DOMAIN activity : i[2] <= acked[i[1]] => ~Unsettled(i)

\* A text that was redeemed is remembered, or its token has expired, or it was driven out; a
\* request that waits for the lock read the time before, and its token was good then.
TokensSound ==
    /\ \A k \in DOMAIN redeemed :
          /\ redeemed[k] \in Nat
          /\ k \in used \/ now >= k[1].exp \/ k \in evicted
          /\ redeemed[k] > 1 => k \in evicted
    /\ \A r \in Reqs : req[r].step = "mark" => req[r].at <= now /\ req[r].at < req[r].tok.exp

IndexInv == Types /\ InHand /\ AppliedSound /\ RowsSound /\ LogSound /\ Settled /\ TokensSound
-----------------------------------------------------------------------------
(* Lemmas about the operators.                                             *)

LEMMA LastOne ==
    ASSUME NEW n \in Nat, NEW S, S \subseteq 1 .. n, S # {}
    PROVE  \E k \in S : \A j \in S : j <= k
<1> DEFINE T == {m \in Nat : n - m \in S}
           R == OpToRel(<, Nat)
<1>1. T \subseteq Nat /\ T # {}
  <2>1. PICK k \in S : TRUE
    OBVIOUS
  <2>2. n - k \in Nat /\ n - (n - k) \in S
    BY <2>1
  <2> QED
    BY <2>2
<1>2. \E m \in T : \A y \in T : ~(<<y, m>> \in R)
  <2> HIDE DEF T, R
  <2>1. IsWellFoundedOn(R, Nat)
    BY NatLessThanWellFounded DEF R
  <2> QED
    BY <1>1, <2>1, WFMin
<1>3. PICK m \in T : \A y \in T : ~(<<y, m>> \in R)
  BY <1>2
<1>4. \A y \in T : ~(y < m)
  BY <1>3 DEF OpToRel
<1>5. n - m \in S
  OBVIOUS
<1>6. ASSUME NEW j \in S PROVE j <= n - m
  <2>1. n - j \in Nat /\ n - (n - j) = j
    OBVIOUS
  <2> QED
    BY <1>4, <2>1
<1> QED
  BY <1>5, <1>6

LEMMA Positions ==
    \A d \in Dids : /\ Len(Feed[d]) \in Nat /\ DOMAIN Feed[d] = 1 .. Len(Feed[d])
BY IndexDBAssumption

LEMMA EventIdsAre ==
    /\ \A d \in Dids : \A n \in 1 .. Len(Feed[d]) : <<d, n>> \in EventIds
    /\ \A i \in EventIds : i[1] \in Dids /\ i[2] \in 1 .. Len(Feed[i[1]]) /\ i = <<i[1], i[2]>>
BY Positions DEF EventIds

\* A record event is about a record of its repository.
LEMMA RecordEventsAre ==
    ASSUME NEW d \in Dids, NEW n \in 1 .. Len(Feed[d]), Feed[d][n].kind = "record"
    PROVE  Feed[d][n].uri \in Uris /\ Owner[Feed[d][n].uri] = d /\ Feed[d][n].cid \in Cids
BY IndexDBAssumption, Positions

\* Versions maps exactly the live records to the last event that touched them.
LEMMA VersionsAre ==
    ASSUME NEW d \in Dids, NEW n \in Nat, NEW events, events \subseteq 1 .. n
    PROVE  LET v == Versions(d, events) IN
           /\ DOMAIN v \subseteq Uris
           /\ \A u \in DOMAIN v : /\ v[u] \in events /\ Touches(d, v[u], u) /\ Feed[d][v[u]].op # "delete"
                                  /\ \A j \in events : Touches(d, j, u) => j <= v[u]
           /\ \A u \in Uris : \A k \in events :
                 Touches(d, k, u) /\ (\A j \in events : Touches(d, j, u) => j <= k) /\ Feed[d][k].op # "delete"
                 => u \in DOMAIN v /\ v[u] = k
<1> DEFINE touch(u) == {k \in events : Touches(d, k, u)}
           last(u) == CHOOSE k \in touch(u) : \A j \in touch(u) : j <= k
           live == {u \in Uris : touch(u) # {} /\ Feed[d][last(u)].op # "delete"}
           v == Versions(d, events)
<1>1. v = [u \in live |-> last(u)]
  BY DEF Versions
<1>i. \A u : \A m \in touch(u) : m \in Int
  OBVIOUS
<1>2. ASSUME NEW u, touch(u) # {}
      PROVE  last(u) \in touch(u) /\ \A j \in touch(u) : j <= last(u)
  <2>1. \E k \in touch(u) : \A j \in touch(u) : j <= k
    BY <1>2, LastOne
  <2> QED
    BY <2>1
<1>3. ASSUME NEW u, NEW k \in touch(u), \A j \in touch(u) : j <= k
      PROVE  last(u) = k
  <2>1. last(u) \in touch(u) /\ last(u) >= k
    BY <1>2, <1>3
  <2> HIDE DEF last
  <2>2. last(u) <= k
    BY <1>3, <2>1
  <2>3. last(u) \in Int /\ k \in Int
    BY <1>i, <2>1, Zenon
  <2> QED
    BY <2>1, <2>2, <2>3
<1> HIDE DEF last, v
<1>4. DOMAIN v \subseteq Uris
  BY <1>1
<1>5. ASSUME NEW u \in DOMAIN v
      PROVE  /\ v[u] \in events /\ Touches(d, v[u], u) /\ Feed[d][v[u]].op # "delete"
             /\ \A j \in events : Touches(d, j, u) => j <= v[u]
  BY <1>1, <1>2
<1>6. ASSUME NEW u \in Uris, NEW k \in events, Touches(d, k, u),
             \A j \in events : Touches(d, j, u) => j <= k, Feed[d][k].op # "delete"
      PROVE  u \in DOMAIN v /\ v[u] = k
  <2>1. last(u) = k
    BY <1>3, <1>6
  <2> QED
    BY <1>1, <1>6, <2>1
<1> QED
  BY <1>4, <1>5, <1>6 DEF v

LEMMA EventIdsFinite == IsFiniteSet(EventIds)
<1> DEFINE f == [d \in Dids |-> {d} \X DOMAIN Feed[d]]
           family == {{d} \X DOMAIN Feed[d] : d \in Dids}
<1>1. f \in Surjection(Dids, family)
  BY DEF Surjection
<1>2. IsFiniteSet(family)
  BY <1>1, FS_Surjection, IndexDBAssumption
<1>3. ASSUME NEW d \in Dids PROVE IsFiniteSet({d} \X DOMAIN Feed[d])
  <2>1. IsFiniteSet(DOMAIN Feed[d])
    BY Positions, FS_Interval
  <2>2. IsFiniteSet({d})
    BY FS_Singleton
  <2> QED
    BY <2>1, <2>2, FS_Product
<1>4. \A T \in family : IsFiniteSet(T)
  BY <1>3
<1> QED
  BY <1>2, <1>4, FS_UNION DEF EventIds

LEMMA AllRowsFinite == IsFiniteSet(AllRows)
<1>1. \A S, x : IsFiniteSet(S) => IsFiniteSet({x} \X S)
  BY FS_Singleton, FS_Product
<1>2. IsFiniteSet(Uris \X Cids)
  BY IndexDBAssumption, FS_Product
<1>3. /\ IsFiniteSet({"record"} \X Uris) /\ IsFiniteSet({"actor"} \X Dids)
      /\ IsFiniteSet({"activity"} \X EventIds) /\ IsFiniteSet({"bulk"} \X (Uris \X Cids))
  BY <1>1, <1>2, EventIdsFinite, IndexDBAssumption
<1> QED
  BY <1>3, FS_Union DEF AllRows

\* What a request counts is a finite set of rows.
LEMMA RowsCounted ==
    ASSUME RecordType, ActorType, ActivityType, BulkType, NEW t
    PROVE  RowsOf(t) \subseteq AllRows /\ Count(t) \in Nat
<1>1. RowsOf(t) \subseteq AllRows
  BY DEF RowsOf, AllRows, Stored, ActivityType, BulkType
<1> QED
  BY <1>1, AllRowsFinite, FS_Subset, FS_CardinalityType DEF Count

-----------------------------------------------------------------------------
(* Who writes what.                                                        *)

\* A backfill leaves ingestion and the log of the events alone; it writes records
\* when it stores versions, and actors when it resolves them.
BackfillFrame ==
    /\ UNCHANGED <<activity, pub, proc, tapVars, disp, missed>>
    /\ \/ UNCHANGED <<record, bulk, ghosts>>
       \/ \E j \in Jobs, d \in Dids : Write(j, d)
       \/ \E j \in Jobs, d \in Dids, u \in Uris : InsertOne(j, d, u)
    /\ \/ UNCHANGED actor
       \/ ResolveActor
       \/ \E d \in Dids : BackfillActor(d) \/ FillPDS(d)
       \/ \E j \in Jobs : Resolve(j)
LEMMA BackfillWrites ==
    ASSUME BackfillNext
    PROVE  BackfillFrame
<1> USE DEF dbVars, tables, ghosts, ingestVars, tapVars, backfillVars, BackfillFrame
<1>1. CASE StartBackfill \/ TriggerBackfill
  BY <1>1 DEF StartBackfill, TriggerBackfill
<1>2. CASE \E d \in Dids : BackfillActor(d) \/ FillPDS(d)
  BY <1>2 DEF BackfillActor, FillPDS
<1>3. CASE ResolveActor
  BY <1>3 DEF ResolveActor
<1>4. ASSUME NEW j \in Jobs, Discover(j) \/ Resolve(j) PROVE BackfillFrame
  BY <1>4 DEF Discover, Resolve
<1>5. ASSUME NEW j \in Jobs, NEW d \in Dids, WorkerStep(j, d) \/ WorkerPanic(j, d) PROVE BackfillFrame
  <2>1. CASE Fetch(j, d) \/ WorkerPanic(j, d)
    BY <2>1 DEF Fetch, WorkerPanic
  <2>2. CASE List(j, d)
    BY <2>2 DEF List
  <2>3. CASE Dedup(j, d)
    <3>1. UNCHANGED <<tables, pub, ghosts, ingestVars>>
      BY <2>3 DEF Dedup
    <3> QED
      BY <3>1
  <2>4. CASE Write(j, d)
    <3>1. UNCHANGED <<actor, activity, pub, ingestVars>>
      BY <2>4 DEF Write
    <3> QED
      BY <2>4, <3>1
  <2>5. ASSUME NEW u \in Uris, InsertOne(j, d, u) PROVE BackfillFrame
    <3>1. UNCHANGED <<actor, activity, pub, ingestVars>>
      BY <2>5 DEF InsertOne
    <3> QED
      BY <2>5, <3>1
  <2> QED
    BY <1>5, <2>1, <2>2, <2>3, <2>4, <2>5 DEF WorkerStep
<1> QED
  BY <1>1, <1>2, <1>3, <1>4, <1>5 DEF BackfillNext

\* The steps that change the records or what is remembered of them.
LEMMA RowWriters ==
    ASSUME Next
    PROVE  \/ UNCHANGED <<record, applied, raced, unchecked, gone>>
           \/ Store /\ UNCHANGED gone
           \/ \E j \in Jobs, d \in Dids : Write(j, d) /\ UNCHANGED gone
           \/ \E j \in Jobs, d \in Dids, u \in Uris : InsertOne(j, d, u) /\ UNCHANGED gone
           \/ \E r \in Reqs : PurgeActor(r)
           \/ \E r \in Reqs : ResetAll(r)
<1>1. CASE IngestNext /\ UNCHANGED <<backfillVars, purgeVars>>
  BY <1>1 DEF IngestNext, ConsumerStep, Publish, SkipGarbled, ReadEvent, Dial, ReadTimeout, Retry, Ack,
     HandleIdentity, Refuse, BeginRecord, EnsureActor, SetStatus, Disconnect, Panic,
     PopulateActivityIfEmpty, TimePasses, dbVars, tables, ghosts, ingestVars, tapVars, backfillVars,
     purgeVars
<1>2. CASE BackfillNext /\ UNCHANGED purgeVars
  BY <1>2, BackfillWrites DEF BackfillFrame, ingestVars, tapVars, ghosts, purgeVars
<1>3. CASE PurgeNext /\ UNCHANGED backfillVars
  BY <1>3 DEF PurgeNext, PreviewResetAll, PreviewPurgeActor, Request, Verify, Mark, RemoveRepos, SweepExpired,
     Tick, dbVars, tables, ghosts, ingestVars, tapVars, backfillVars, purgeVars
<1>4. CASE Crash \/ Start
  BY <1>4 DEF Crash, CrashIngest, CrashBackfill, CrashPurge, Start, Restart, dbVars, tables, ghosts,
     ingestVars, tapVars, backfillVars, purgeVars
<1> QED
  BY <1>1, <1>2, <1>3, <1>4 DEF Next

\* The steps that change the actors.
LEMMA ActorWriters ==
    ASSUME Next
    PROVE  \/ UNCHANGED <<actor>>
           \/ HandleIdentity \/ EnsureActor \/ ResolveActor
           \/ \E d \in Dids : BackfillActor(d)
           \/ \E d \in Dids : FillPDS(d)
           \/ \E j \in Jobs : Resolve(j)
           \/ \E r \in Reqs : PurgeActor(r)
           \/ \E r \in Reqs : ResetAll(r)
<1>1. CASE IngestNext /\ UNCHANGED <<backfillVars, purgeVars>>
  BY <1>1 DEF IngestNext, ConsumerStep, Publish, SkipGarbled, ReadEvent, Dial, ReadTimeout, Retry, Ack,
     Refuse, BeginRecord, Store, SetStatus, Disconnect, Panic, PopulateActivityIfEmpty, TimePasses, dbVars,
     tables, ghosts, ingestVars, tapVars, backfillVars, purgeVars
<1>2. CASE BackfillNext /\ UNCHANGED purgeVars
  BY <1>2, BackfillWrites DEF BackfillFrame, ingestVars, tapVars, ghosts, purgeVars
<1>3. CASE PurgeNext /\ UNCHANGED backfillVars
  BY <1>3 DEF PurgeNext, PreviewResetAll, PreviewPurgeActor, Request, Verify, Mark, RemoveRepos, SweepExpired,
     Tick, dbVars, tables, ghosts, ingestVars, tapVars, backfillVars, purgeVars
<1>4. CASE Crash \/ Start
  BY <1>4 DEF Crash, CrashIngest, CrashBackfill, CrashPurge, Start, Restart, dbVars, tables, ghosts,
     ingestVars, tapVars, backfillVars, purgeVars
<1> QED
  BY <1>1, <1>2, <1>3, <1>4 DEF Next

\* The steps that change the activity log.
LEMMA LogWriters ==
    ASSUME Next
    PROVE  \/ UNCHANGED <<activity>>
           \/ BeginRecord \/ SetStatus \/ TimePasses \/ Restart
           \/ \E r \in Reqs : ResetAll(r)
<1>1. CASE IngestNext /\ UNCHANGED <<backfillVars, purgeVars>>
  BY <1>1 DEF IngestNext, ConsumerStep, Publish, SkipGarbled, ReadEvent, Dial, ReadTimeout, Retry, Ack,
     HandleIdentity, Refuse, EnsureActor, Store, Disconnect, Panic, PopulateActivityIfEmpty, dbVars, tables,
     ghosts, ingestVars, tapVars, backfillVars, purgeVars
<1>2. CASE BackfillNext /\ UNCHANGED purgeVars
  BY <1>2, BackfillWrites DEF BackfillFrame, ingestVars, tapVars, ghosts, purgeVars
<1>3. CASE PurgeNext /\ UNCHANGED backfillVars
  BY <1>3 DEF PurgeNext, PreviewResetAll, PreviewPurgeActor, Request, Verify, Mark, PurgeActor, RemoveRepos,
     SweepExpired, Tick, dbVars, tables, ghosts, ingestVars, tapVars, backfillVars, purgeVars
<1>4. CASE Crash \/ Start
  BY <1>4 DEF Crash, CrashIngest, CrashBackfill, CrashPurge, Start, dbVars, tables, ghosts, ingestVars,
     tapVars, backfillVars, purgeVars
<1> QED
  BY <1>1, <1>2, <1>3, <1>4 DEF Next

\* The steps that change its rows without a source event.
LEMMA BulkWriters ==
    ASSUME Next
    PROVE  \/ UNCHANGED <<bulk>>
           \/ PopulateActivityIfEmpty
           \/ \E j \in Jobs, d \in Dids : Write(j, d)
           \/ \E j \in Jobs, d \in Dids, u \in Uris : InsertOne(j, d, u)
           \/ \E r \in Reqs : ResetAll(r)
<1>1. CASE IngestNext /\ UNCHANGED <<backfillVars, purgeVars>>
  BY <1>1 DEF IngestNext, ConsumerStep, Publish, SkipGarbled, ReadEvent, Dial, ReadTimeout, Retry, Ack,
     HandleIdentity, Refuse, BeginRecord, EnsureActor, Store, SetStatus, Disconnect, Panic, TimePasses,
     dbVars, tables, ghosts, ingestVars, tapVars, backfillVars, purgeVars
<1>2. CASE BackfillNext /\ UNCHANGED purgeVars
  BY <1>2, BackfillWrites DEF BackfillFrame, ingestVars, tapVars, ghosts, purgeVars
<1>3. CASE PurgeNext /\ UNCHANGED backfillVars
  BY <1>3 DEF PurgeNext, PreviewResetAll, PreviewPurgeActor, Request, Verify, Mark, PurgeActor, RemoveRepos,
     SweepExpired, Tick, dbVars, tables, ghosts, ingestVars, tapVars, backfillVars, purgeVars
<1>4. CASE Crash \/ Start
  BY <1>4 DEF Crash, CrashIngest, CrashBackfill, CrashPurge, Start, Restart, dbVars, tables, ghosts,
     ingestVars, tapVars, backfillVars, purgeVars
<1> QED
  BY <1>1, <1>2, <1>3, <1>4 DEF Next

\* The steps that publish or acknowledge.
LEMMA FeedWriters ==
    ASSUME Next
    PROVE  \/ UNCHANGED <<pub, acked>>
           \/ Ack
           \/ \E d \in Dids : Publish(d) /\ UNCHANGED ingestVars
<1>1. CASE IngestNext /\ UNCHANGED <<backfillVars, purgeVars>>
  BY <1>1 DEF IngestNext, ConsumerStep, SkipGarbled, ReadEvent, Dial, ReadTimeout, Retry, HandleIdentity,
     Refuse, BeginRecord, EnsureActor, Store, SetStatus, Disconnect, Panic, PopulateActivityIfEmpty,
     TimePasses, dbVars, tables, ghosts, ingestVars, tapVars, backfillVars, purgeVars
<1>2. CASE BackfillNext /\ UNCHANGED purgeVars
  BY <1>2, BackfillWrites DEF BackfillFrame, ingestVars, tapVars, ghosts, purgeVars
<1>3. CASE PurgeNext /\ UNCHANGED backfillVars
  BY <1>3 DEF PurgeNext, PreviewResetAll, PreviewPurgeActor, Request, Verify, Mark, PurgeActor, ResetAll,
     RemoveRepos, SweepExpired, Tick, dbVars, tables, ghosts, ingestVars, tapVars, backfillVars, purgeVars
<1>4. CASE Crash \/ Start
  BY <1>4 DEF Crash, CrashIngest, CrashBackfill, CrashPurge, Start, Restart, dbVars, tables, ghosts,
     ingestVars, tapVars, backfillVars, purgeVars
<1> QED
  BY <1>1, <1>2, <1>3, <1>4 DEF Next

\* The steps of the dispatcher.
LEMMA DispWriters ==
    ASSUME Next
    PROVE  \/ UNCHANGED <<disp, missed>>
           \/ Retry \/ Ack \/ HandleIdentity \/ Refuse \/ BeginRecord \/ EnsureActor \/ Store \/ SetStatus
           \/ Disconnect \/ Panic \/ CrashIngest
           \/ \E d \in Dids : ReadEvent(d)
<1>1. CASE IngestNext /\ UNCHANGED <<backfillVars, purgeVars>>
  BY <1>1 DEF IngestNext, ConsumerStep, Publish, SkipGarbled, Dial, ReadTimeout, PopulateActivityIfEmpty,
     TimePasses, dbVars, tables, ghosts, ingestVars, tapVars, backfillVars, purgeVars
<1>2. CASE BackfillNext /\ UNCHANGED purgeVars
  BY <1>2, BackfillWrites DEF BackfillFrame, ingestVars, tapVars, ghosts, purgeVars
<1>3. CASE PurgeNext /\ UNCHANGED backfillVars
  BY <1>3 DEF PurgeNext, PreviewResetAll, PreviewPurgeActor, Request, Verify, Mark, PurgeActor, ResetAll,
     RemoveRepos, SweepExpired, Tick, dbVars, tables, ghosts, ingestVars, tapVars, backfillVars, purgeVars
<1>4. CASE Crash \/ Start
  BY <1>4 DEF Crash, CrashBackfill, CrashPurge, Start, Restart, dbVars, tables, ghosts, ingestVars, tapVars,
     backfillVars, purgeVars
<1> QED
  BY <1>1, <1>2, <1>3, <1>4 DEF Next

-----------------------------------------------------------------------------
(* Backfills.                                                              *)

LEMMA PublishedCids ==
    ASSUME FeedType, NEW d \in Dids, NEW recs, Published(d, pub[d], recs)
    PROVE  \A u \in DOMAIN recs : recs[u] \in 1 .. Len(Feed[d]) /\ Cid(d, recs[u]) \in Cids
<1> SUFFICES ASSUME NEW u \in DOMAIN recs PROVE recs[u] \in 1 .. Len(Feed[d]) /\ Cid(d, recs[u]) \in Cids
  OBVIOUS
<1>1. recs[u] \in 1 .. pub[d] /\ pub[d] \in Nat /\ pub[d] <= Len(Feed[d]) /\ Len(Feed[d]) \in Nat
  BY Positions DEF Published, FeedType
<1>2. recs[u] \in 1 .. Len(Feed[d])
  BY <1>1
<1>3. Feed[d][recs[u]].kind = "record"
  BY DEF Published, Touches
<1> QED
  BY <1>2, <1>3, RecordEventsAre DEF Cid

\* What Stores does to one record.
LEMMA StoresAre ==
    ASSUME RecordType, NEW d \in Dids, NEW recs, NEW legacy, DOMAIN recs \subseteq Uris,
           \A u \in DOMAIN recs : Cid(d, recs[u]) \in Cids,
           Stores(d, recs, legacy)
    PROVE  /\ record' \in [Uris -> Record]
           /\ applied' = applied /\ raced' \subseteq raced \cup Uris /\ unchecked' \subseteq unchecked \cup Uris
           /\ bulk' \subseteq bulk \cup (Uris \X Cids)
           /\ \A u \in Uris :
                 \/ /\ record'[u] = record[u]
                    /\ (u \in raced' <=> u \in raced) /\ (u \in unchecked' <=> u \in unchecked)
                 \/ /\ u \in DOMAIN recs /\ record'[u] # NoRow /\ record'[u].cid = Cid(d, recs[u])
                    /\ u \notin raced' => ~(applied[u] > recs[u])
                    /\ u \notin unchecked' => Accepted(Feed[d][recs[u]])
<1> DEFINE cids == [u \in DOMAIN recs |-> Cid(d, recs[u])]
           changed == {u \in DOMAIN recs : record[u] = NoRow \/ record[u].cid # cids[u]}
           logged == [u \in IF legacy THEN changed ELSE DOMAIN recs |-> cids[u]]
<1>1. /\ record' = BatchInsert(record, cids) /\ applied' = applied
      /\ raced' = (raced \ changed) \cup {u \in changed : applied[u] > recs[u]}
      /\ unchecked' = (unchecked \ changed) \cup {u \in changed : ~Accepted(Feed[d][recs[u]])}
  BY DEF Stores
<1>2. bulk' = bulk \/ bulk' = LogActivityWithStatus(bulk, logged)
  BY DEF Stores
<1>3. LogActivityWithStatus(bulk, logged) \subseteq bulk \cup (Uris \X Cids)
  <2>1. DOMAIN logged \subseteq DOMAIN recs /\ \A u \in DOMAIN logged : logged[u] \in Cids
    OBVIOUS
  <2> HIDE DEF logged
  <2> QED
    BY <2>1 DEF LogActivityWithStatus
<1>4. \A u \in Uris :
          record'[u] = IF u \in DOMAIN recs THEN InsertWithParams(record, u, cids[u], FALSE)[u] ELSE record[u]
  BY <1>1 DEF BatchInsert
<1>5. record' \in [Uris -> Record]
  <2>1. \A u \in Uris : u \in DOMAIN recs => InsertWithParams(record, u, cids[u], FALSE)[u] \in Record
    BY DEF InsertWithParams, RecordType, Record
  <2>2. \A u \in Uris : record[u] \in Record
    BY DEF RecordType
  <2> QED
    BY <1>1, <2>1, <2>2 DEF BatchInsert
<1>6. ASSUME NEW u \in Uris, u \notin changed PROVE record'[u] = record[u]
  BY <1>4, <1>6 DEF InsertWithParams
<1>7. ASSUME NEW u \in changed PROVE record'[u] # NoRow /\ record'[u].cid = cids[u]
  <2>1. record'[u] = InsertWithParams(record, u, cids[u], FALSE)[u]
    BY <1>4
  <2>2. cids[u] \in Cids /\ record[u] \in Record /\ u \in Uris
    BY DEF RecordType
  <2>3. \E b \in BOOLEAN : record'[u] = [cid |-> cids[u], sorted |-> b]
    BY <2>1, <2>2 DEF InsertWithParams, RecordType, Record
  <2> QED
    BY <2>2, <2>3, IndexDBAssumption
<1> QED
  BY <1>1, <1>2, <1>3, <1>5, <1>6, <1>7

\* A backfill stores published versions or nothing.
LEMMA BackfillStores ==
    ASSUME WorkType, NEW j \in Jobs, NEW d \in Dids, NEW u, Write(j, d) \/ InsertOne(j, d, u)
    PROVE  \/ UNCHANGED <<record, bulk, applied, raced, unchecked>>
           \/ \E recs, legacy : Published(d, pub[d], recs) /\ Stores(d, recs, legacy)
<1> DEFINE recs == work[j][d].recs
           one == [v \in {u} |-> recs[u]]
<1>1. Published(d, pub[d], recs)
  BY DEF WorkType
<1>2. CASE Write(j, d)
  BY <1>1, <1>2 DEF Write, ghosts
<1>3. CASE InsertOne(j, d, u)
  <2>1. u \in DOMAIN recs /\ Published(d, pub[d], one)
    BY <1>1, <1>3 DEF InsertOne, Published
  <2> QED
    BY <1>3, <2>1 DEF InsertOne, ghosts
<1> QED
  BY <1>2, <1>3

-----------------------------------------------------------------------------
(* The types are kept, table by table.                                     *)

LEMMA RowTypes ==
    ASSUME IndexInv, Next
    PROVE  RecordType' /\ GhostType'
<1> USE DEF IndexInv, Types
<1>1. CASE UNCHANGED <<record, applied, raced, unchecked, gone>>
  BY <1>1 DEF RecordType, GhostType
<1>2. CASE Store
  <2> DEFINE e == Event(disp.ev)
  <2>1. /\ disp.ev \in EventIds /\ disp.ev[1] \in Dids /\ disp.ev[2] \in 1 .. Len(Feed[disp.ev[1]])
        /\ e = Feed[disp.ev[1]][disp.ev[2]] /\ e.kind = "record"
    BY <1>2, EventIdsAre DEF DispType, InHand, Store, pc, Event
  <2>2. e.uri \in Uris /\ e.cid \in Cids /\ Owner[e.uri] = disp.ev[1]
    BY <2>1, RecordEventsAre
  <2>3. /\ record' \in {record, DeleteRow(record, e.uri), InsertWithParams(record, e.uri, e.cid, TRUE)}
        /\ applied' \in {applied, [applied EXCEPT ![e.uri] = disp.ev[2]]}
        /\ raced' \subseteq raced /\ unchecked' \subseteq unchecked
    BY <1>2 DEF Store, cur, ghosts
  <2> HIDE DEF e
  <2>4. RecordType'
    <3>1. DeleteRow(record, e.uri) \in [Uris -> Record]
      BY <2>2 DEF RecordType, Record, DeleteRow
    <3>2. \A row \in [cid : Cids, sorted : BOOLEAN] :
             [cid |-> e.cid, sorted |-> TRUE \/ row.sorted] \in [cid : Cids, sorted : BOOLEAN]
      BY <2>2
    <3>3. InsertWithParams(record, e.uri, e.cid, TRUE) \in [Uris -> Record]
      BY <2>2, <3>2 DEF RecordType, Record, InsertWithParams
    <3> QED
      BY <2>3, <3>1, <3>3 DEF RecordType
  <2>5. GhostType'
    <3>1. disp.ev[2] \in Nat /\ disp.ev[2] <= Len(Feed[Owner[e.uri]])
      BY <2>1, <2>2, Positions
    <3> QED
      BY <2>2, <2>3, <3>1 DEF GhostType
  <2> QED
    BY <2>4, <2>5
<1>3. ASSUME NEW j \in Jobs, NEW d \in Dids, NEW u, Write(j, d) \/ InsertOne(j, d, u)
      PROVE  RecordType' /\ GhostType'
  <2>1. CASE UNCHANGED <<record, bulk, applied, raced, unchecked>>
    BY <2>1 DEF RecordType, GhostType
  <2>2. ASSUME NEW recs, NEW legacy, Published(d, pub[d], recs), Stores(d, recs, legacy)
        PROVE  RecordType' /\ GhostType'
    <3>1. DOMAIN recs \subseteq Uris /\ \A v \in DOMAIN recs : Cid(d, recs[v]) \in Cids
      BY <2>2, PublishedCids DEF Published
    <3>2. record' \in [Uris -> Record] /\ applied' = applied
          /\ raced' \subseteq raced \cup Uris /\ unchecked' \subseteq unchecked \cup Uris
      BY <2>2, <3>1, StoresAre
    <3> QED
      BY <3>2 DEF RecordType, GhostType
  <2> QED
    BY <1>3, <2>1, <2>2, BackfillStores
<1>4. ASSUME NEW r \in Reqs, PurgeActor(r) \/ ResetAll(r) PROVE RecordType' /\ GhostType'
  BY <1>4 DEF PurgeActor, ResetAll, RecordType, Record, GhostType, DeleteByDID, ghosts, tables
<1> QED
  BY <1>1, <1>2, <1>3, <1>4, RowWriters

LEMMA ActorTypes ==
    ASSUME IndexInv, Next
    PROVE  ActorType'
<1> USE DEF IndexInv, Types
<1>1. CASE UNCHANGED actor
  BY <1>1 DEF ActorType
<1>2. ASSUME NEW a \in [Dids -> Actor], NEW d \in Dids,
             NEW h \in Handles \cup Dids \cup {Null}, NEW p \in {"pds", Null}
      PROVE  UpsertWithPDS(a, d, h, p) \in [Dids -> Actor]
  BY DEF UpsertWithPDS, Actor
<1>3. ASSUME NEW d \in Dids PROVE DocHandle(d) \in Handles \cup Dids \cup {Null}
  <2> DEFINE ids == {n \in 1 .. pub[d] : Feed[d][n].kind = "identity"}
  <2>1. CASE ids = {}
    BY <2>1 DEF DocHandle
  <2>2. CASE ids # {}
    <3>1. pub[d] \in Nat /\ pub[d] <= Len(Feed[d]) /\ Len(Feed[d]) \in Nat
      BY Positions DEF FeedType
    <3>2. \E n \in ids : \A m \in ids : m <= n
      BY <2>2, <3>1, LastOne
    <3>3. PICK n \in ids : n = CHOOSE k \in ids : \A m \in ids : m <= k
      BY <3>2
    <3>4. n \in DOMAIN Feed[d] /\ Feed[d][n].kind = "identity"
      BY <3>1, Positions
    <3>5. Feed[d][n].handle \in Handles
      BY <3>4, IndexDBAssumption
    <3>6. DocHandle(d) = Feed[d][n].handle
      BY <2>2, <3>3 DEF DocHandle
    <3> QED
      BY <3>5, <3>6
  <2> QED
    BY <2>1, <2>2
<1>4. ASSUME NEW S \in SUBSET Dids PROVE BatchUpsert(actor, [d \in S |-> DocHandle(d)]) \in [Dids -> Actor]
  <2>1. \A d \in S : UpsertWithPDS(actor, d, DocHandle(d), Null) \in [Dids -> Actor]
    BY <1>2, <1>3 DEF ActorType
  <2> QED
    BY <2>1 DEF BatchUpsert, ActorType
<1>5. CASE HandleIdentity
  <2>1. disp.ev \in EventIds /\ disp.ev[1] \in Dids /\ disp.ev[2] \in DOMAIN Feed[disp.ev[1]]
    BY <1>5, EventIdsAre, Positions DEF DispType, HandleIdentity, pc
  <2>2. Event(disp.ev).kind = "identity" => Event(disp.ev).handle \in Handles
    BY <2>1, IndexDBAssumption DEF Event
  <2> QED
    BY <1>2, <1>5, <2>1, <2>2 DEF HandleIdentity, ActorType, cur
<1>6. CASE EnsureActor
  <2>1. disp.ev \in EventIds /\ disp.ev[1] \in Dids
    BY <1>6, EventIdsAre DEF DispType, EnsureActor, pc
  <2>2. /\ UpsertWithPDS(actor, disp.ev[1], Null, "pds") \in [Dids -> Actor]
        /\ UpsertWithPDS(actor, disp.ev[1], Null, Null) \in [Dids -> Actor]
    BY <1>2, <2>1 DEF ActorType
  <2> QED
    BY <1>6, <2>2 DEF EnsureActor, ActorType, cur
<1>7. ASSUME NEW d \in Dids, BackfillActor(d) \/ FillPDS(d) PROVE ActorType'
  <2>1. UpsertWithPDS(actor, d, Null, Null) \in [Dids -> Actor]
    BY <1>2 DEF ActorType
  <2>2. actor[d] # NoRow => SetPDS(actor, d, "pds") \in [Dids -> Actor]
    BY DEF ActorType, Actor, SetPDS
  <2> QED
    BY <1>7, <2>1, <2>2 DEF BackfillActor, FillPDS, ActorType
<1>8. CASE ResolveActor
  <2>1. \A d \in Dids : UpsertWithPDS(actor, d, DocHandle(d), Null) \in [Dids -> Actor]
    BY <1>2, <1>3 DEF ActorType
  <2> QED
    BY <1>8, <2>1 DEF ResolveActor, ActorType
<1>9. ASSUME NEW j \in Jobs, Resolve(j) PROVE ActorType'
  <2> DEFINE S == {d \in Dids : work[j][d].step = "fetch"}
  <2>1. \/ actor' = actor
        \/ actor' = BatchUpsert(actor, [d \in S |-> DocHandle(d)])
        \/ \E T \in SUBSET S : actor' = BatchUpsert(actor, [d \in S \ T |-> DocHandle(d)])
    BY <1>9 DEF Resolve
  <2>2. \A T \in SUBSET S : S \ T \in SUBSET Dids
    OBVIOUS
  <2> HIDE DEF S
  <2>3. S \in SUBSET Dids
    BY DEF S
  <2> QED
    BY <1>4, <2>1, <2>2, <2>3 DEF ActorType
<1>10. ASSUME NEW r \in Reqs, PurgeActor(r) \/ ResetAll(r) PROVE ActorType'
  BY <1>10 DEF PurgeActor, ResetAll, ActorType, Actor, tables
<1> QED
  BY <1>1, <1>5, <1>6, <1>7, <1>8, <1>9, <1>10, ActorWriters

LEMMA LogTypes ==
    ASSUME IndexInv, Next
    PROVE  ActivityType' /\ BulkType'
<1> USE DEF IndexInv, Types
<1>1. ActivityType'
  <2> USE DEF ActivityType, Statuses, Ages
  <2>1. CASE UNCHANGED activity
    BY <2>1
  <2>2. CASE BeginRecord
    <3>1. disp.ev \in EventIds
      BY <2>2 DEF BeginRecord, DispType, pc
    <3> QED
      BY <2>2, <3>1 DEF BeginRecord, LogActivity, cur
  <2>3. CASE SetStatus
    BY <2>3 DEF SetStatus, UpdateStatus, pc
  <2>4. CASE TimePasses
    BY <2>4 DEF TimePasses
  <2>5. CASE Restart
    <3>1. ASSUME NEW log, DOMAIN log \subseteq EventIds,
                 \A i \in DOMAIN log : log[i] \in [status : Statuses, age : Ages]
          PROVE  /\ DOMAIN CleanupOldActivity(log) \subseteq EventIds
                 /\ \A i \in DOMAIN CleanupOldActivity(log) :
                       CleanupOldActivity(log)[i] \in [status : Statuses, age : Ages]
                 /\ DOMAIN OrphanPendingActivity(log) \subseteq EventIds
                 /\ \A i \in DOMAIN OrphanPendingActivity(log) :
                       OrphanPendingActivity(log)[i] \in [status : Statuses, age : Ages]
      BY <3>1 DEF CleanupOldActivity, OrphanPendingActivity
    <3>2. \/ activity' = OrphanPendingActivity(CleanupOldActivity(activity))
          \/ activity' = activity
          \/ activity' = OrphanPendingActivity(activity)
          \/ activity' = CleanupOldActivity(activity)
      BY <2>5 DEF Restart
    <3>3. /\ DOMAIN CleanupOldActivity(activity) \subseteq EventIds
          /\ \A i \in DOMAIN CleanupOldActivity(activity) :
                CleanupOldActivity(activity)[i] \in [status : Statuses, age : Ages]
      BY <3>1
    <3> HIDE DEF Statuses, Ages
    <3> QED
      BY <3>1, <3>2, <3>3
  <2>6. ASSUME NEW r \in Reqs, ResetAll(r) PROVE ActivityType'
    BY <2>6 DEF ResetAll, tables
  <2> QED
    BY <2>1, <2>2, <2>3, <2>4, <2>5, <2>6, LogWriters
<1>2. BulkType'
  <2>1. CASE UNCHANGED bulk
    BY <2>1 DEF BulkType
  <2>2. CASE PopulateActivityIfEmpty
    BY <2>2 DEF PopulateActivityIfEmpty, FromRecords, Stored, BulkType, RecordType, Record
  <2>3. ASSUME NEW j \in Jobs, NEW d \in Dids, NEW u, Write(j, d) \/ InsertOne(j, d, u) PROVE BulkType'
    <3>1. CASE UNCHANGED <<record, bulk, applied, raced, unchecked>>
      BY <3>1 DEF BulkType
    <3>2. ASSUME NEW recs, NEW legacy, Published(d, pub[d], recs), Stores(d, recs, legacy) PROVE BulkType'
      <4>1. DOMAIN recs \subseteq Uris /\ \A v \in DOMAIN recs : Cid(d, recs[v]) \in Cids
        BY <3>2, PublishedCids DEF Published
      <4>2. bulk' \subseteq bulk \cup (Uris \X Cids)
        BY <3>2, <4>1, StoresAre
      <4> QED
        BY <4>2 DEF BulkType
    <3> QED
      BY <2>3, <3>1, <3>2, BackfillStores
  <2>4. ASSUME NEW r \in Reqs, ResetAll(r) PROVE BulkType'
    BY <2>4 DEF ResetAll, BulkType, tables
  <2> QED
    BY <2>1, <2>2, <2>3, <2>4, BulkWriters, Zenon
<1> QED
  BY <1>1, <1>2

LEMMA FeedTypes ==
    ASSUME IndexInv, Next
    PROVE  FeedType' /\ \A d \in Dids : pub[d] <= pub'[d] /\ acked[d] <= acked'[d]
<1> USE DEF IndexInv, Types
<1>1. CASE UNCHANGED <<pub, acked>>
  BY <1>1 DEF FeedType
<1>2. CASE Ack
  <2>1. disp.ev \in EventIds /\ disp.ev[2] = acked[disp.ev[1]] + 1 /\ disp.ev[2] <= pub[disp.ev[1]]
    BY <1>2 DEF Ack, DispType, pc
  <2>2. acked' = [acked EXCEPT ![disp.ev[1]] = disp.ev[2]] /\ pub' = pub /\ disp.ev[1] \in Dids
    BY <1>2, <2>1, EventIdsAre DEF Ack, cur, dbVars
  <2> QED
    BY <2>1, <2>2 DEF FeedType
<1>3. ASSUME NEW d \in Dids, Publish(d), UNCHANGED ingestVars
      PROVE  FeedType' /\ \A e \in Dids : pub[e] <= pub'[e] /\ acked[e] <= acked'[e]
  BY <1>3, Positions DEF Publish, FeedType, ingestVars, tapVars
<1> QED
  BY <1>1, <1>2, <1>3, FeedWriters

LEMMA TapTypes ==
    ASSUME IndexInv, Next
    PROVE  TapType'
<1> USE DEF IndexInv, Types, TapType
<1>1. CASE IngestNext
  BY <1>1 DEF IngestNext, ConsumerStep, Publish, SkipGarbled, ReadEvent, Dial, ReadTimeout, Retry, Ack,
     HandleIdentity, Refuse, BeginRecord, EnsureActor, Store, SetStatus, Disconnect, Panic,
     PopulateActivityIfEmpty, TimePasses, Idle, dbVars, tables, ghosts, ingestVars, tapVars
<1>2. CASE BackfillNext
  <2>1. CASE StartBackfill
    BY <2>1 DEF StartBackfill, tapVars
  <2>2. CASE UNCHANGED ingestVars
    BY <2>2 DEF ingestVars, tapVars
  <2>3. ASSUME NEW j, NEW d, NEW u, InsertOne(j, d, u) \/ Write(j, d) \/ Dedup(j, d)
        PROVE  UNCHANGED ingestVars
    <3>1. CASE InsertOne(j, d, u)
      BY <3>1 DEF InsertOne
    <3>2. CASE Write(j, d)
      BY <3>2 DEF Write
    <3>3. CASE Dedup(j, d)
      BY <3>3 DEF Dedup
    <3> QED
      BY <2>3, <3>1, <3>2, <3>3
  <2> QED
    BY <1>2, <2>1, <2>2, <2>3 DEF BackfillNext, WorkerStep, TriggerBackfill, BackfillActor, FillPDS,
       ResolveActor, Discover, Resolve, Fetch, List, WorkerPanic
<1>3. CASE PurgeNext
  BY <1>3 DEF PurgeNext, PreviewResetAll, PreviewPurgeActor, Request, Verify, Mark, PurgeActor, ResetAll,
     RemoveRepos, SweepExpired, Tick, ingestVars, tapVars
<1>4. CASE Crash \/ Start
  BY <1>4 DEF Crash, CrashIngest, Start, Restart, tapVars
<1> QED
  BY <1>1, <1>2, <1>3, <1>4 DEF Next

LEMMA DispTypes ==
    ASSUME IndexInv, Next
    PROVE  DispType'
<1> USE DEF IndexInv, Types, DispType, PCs
<1>a. \A d \in Dids : acked[d] \in Nat /\ pub[d] \in Nat /\ pub'[d] \in Nat /\ pub[d] <= pub'[d]
  BY FeedTypes DEF FeedType
<1>b. Null \notin EventIds /\ \A i \in EventIds : i[1] \in Dids /\ i[2] \in Nat
  BY EventIdsAre, IngestAssumption, Positions
<1>1. CASE UNCHANGED <<disp, missed>>
  <2>1. UNCHANGED acked
    BY <1>1, FeedWriters DEF Ack, Idle, pc, ingestVars, tapVars
  <2> QED
    BY <1>1, <1>a, <1>b, <2>1
<1>i. 0 \in 0 .. MaxRetries
  BY IngestAssumption
<1>2. CASE disp' = Idle /\ missed' \subseteq EventIds
  BY <1>2, <1>i DEF Idle
<1>3. CASE Retry
  <2>1. CASE disp' = Idle
    BY <1>2, <1>3, <2>1 DEF Retry
  <2>2. CASE disp' # Idle
    <3>1. /\ disp.pc = "failed" /\ disp.attempt < MaxRetries /\ UNCHANGED <<pub, acked, missed>>
          /\ disp' = [disp EXCEPT !.pc = "handle", !.attempt = @ + 1]
      BY <1>3, <2>2 DEF Retry, pc, dbVars, tapVars
    <3>2. disp.attempt + 1 \in 0 .. MaxRetries
      BY <3>1, IngestAssumption
    <3> QED
      BY <3>1, <3>2
  <2> QED
    BY <2>1, <2>2
<1>4. CASE Ack \/ Disconnect
  BY <1>2, <1>4 DEF Ack, Disconnect
<1>5. CASE Panic \/ CrashIngest
  BY <1>2, <1>5 DEF Panic, CrashIngest, pc, cur
<1>6. ASSUME NEW d \in Dids, ReadEvent(d) PROVE DispType'
  <2>1. acked[d] < pub[d] /\ pub[d] <= Len(Feed[d]) /\ UNCHANGED <<pub, acked, missed>>
    BY <1>6 DEF ReadEvent, Deliverable, FeedType, dbVars
  <2>2. <<d, acked[d] + 1>> \in EventIds
    BY <1>a, <2>1, EventIdsAre, Positions
  <2>3. disp' = [pc |-> "handle", ev |-> <<d, acked[d] + 1>>, attempt |-> 0, row |-> Null]
    BY <1>6 DEF ReadEvent, Idle
  <2> QED
    BY <1>a, <1>b, <1>i, <2>1, <2>2, <2>3
<1>7. CASE HandleIdentity \/ Refuse \/ EnsureActor \/ Store \/ SetStatus
  <2>1. UNCHANGED <<pub, acked>> /\ missed' \subseteq EventIds
    BY <1>7 DEF HandleIdentity, Refuse, EnsureActor, Store, SetStatus, dbVars, tapVars, pc, cur
  <2>2. disp.pc # "read" /\ \E l \in PCs \ {"read"} : disp' = [disp EXCEPT !.pc = l]
    BY <1>7 DEF HandleIdentity, Refuse, EnsureActor, Store, SetStatus, Goto, pc
  <2> QED
    BY <2>1, <2>2
<1>8. CASE BeginRecord
  <2>1. UNCHANGED <<pub, acked>> /\ missed' \subseteq EventIds /\ disp.pc = "handle"
    BY <1>8 DEF BeginRecord, tapVars, pc, cur
  <2>2. \E l \in PCs \ {"read"}, i \in {Null, disp.ev} : disp' = [disp EXCEPT !.pc = l, !.row = i]
    BY <1>8 DEF BeginRecord, LogActivity, cur
  <2> QED
    BY <2>1, <2>2
<1> QED
  BY <1>1, <1>3, <1>4, <1>5, <1>6, <1>7, <1>8, DispWriters

LEMMA PublishedMore ==
    ASSUME NEW d, NEW n \in Nat, NEW m \in Nat, n <= m, NEW recs, Published(d, n, recs)
    PROVE  Published(d, m, recs)
BY DEF Published

\* The versions in hand stay published.
LEMMA WorkStays ==
    ASSUME WorkType, FeedType, FeedType', UNCHANGED <<job, work>>, \A d \in Dids : pub[d] <= pub'[d]
    PROVE  WorkType'
<1>1. \A d \in Dids : pub[d] \in Nat /\ pub'[d] \in Nat
  BY DEF FeedType
<1>2. \A j \in Jobs, d \in Dids : Published(d, pub'[d], work[j][d].recs)
  BY <1>1, PublishedMore DEF WorkType
<1> QED
  BY <1>2 DEF WorkType

\* The pieces of work that a job begins with.
LEMMA WorkParts ==
    /\ NoWork \in Work /\ NoWork.step = "none" /\ \A d, n : Published(d, n, NoWork.recs)
    /\ \A w \in Work : \A s \in Steps :
          LET v == [w EXCEPT !.step = s] IN v \in Work /\ v.step = s /\ v.recs = w.recs
<1>1. NoVersions \in [{} -> Nat] /\ DOMAIN NoVersions = {}
  BY DEF NoVersions
<1>2. NoWork \in Work
  BY <1>1 DEF NoWork, Work, Steps
<1> QED
  BY <1>1, <1>2 DEF NoWork, Work, Steps, Published

LEMMA TodoType ==
    ASSUME FeedType, NEW d \in Dids, NEW recs, Published(d, pub[d], recs),
           NEW S, S \subseteq DOMAIN recs, NEW step \in Steps
    PROVE  /\ Todo(step, recs, S) \in Work /\ Published(d, pub[d], Todo(step, recs, S).recs)
           /\ NoWork \in Work /\ Published(d, pub[d], NoWork.recs)
<1>1. NoWork \in Work /\ Published(d, pub[d], NoWork.recs)
  BY WorkParts
<1>2. \A u \in S : recs[u] \in Nat
  BY DEF Published, FeedType
<1>3. [u \in S |-> recs[u]] \in [S -> Nat] /\ S \in SUBSET Uris
  BY <1>2 DEF Published
<1>4. [step |-> step, recs |-> [u \in S |-> recs[u]]] \in Work
  BY <1>3 DEF Work
<1>5. Published(d, pub[d], [u \in S |-> recs[u]])
  BY DEF Published
<1> QED
  BY <1>1, <1>4, <1>5 DEF Todo

LEMMA ProceedType ==
    ASSUME WorkType, UNCHANGED pub, NEW j \in Jobs, NEW d \in Dids, NEW w \in Work, Published(d, pub[d], w.recs),
           job[j] = "repos", work[j][d].step # "none", Proceed(j, d, w)
    PROVE  WorkType'
<1>1. work' = [work EXCEPT ![j][d] = w] /\ work' \in [Jobs -> [Dids -> Work]]
  BY DEF Proceed, WorkType
<1>2. job' \in [Jobs -> {"idle", "resolve", "upsert", "repos"}]
  BY DEF Proceed, WorkType
<1>3. ASSUME NEW i \in Jobs, NEW e \in Dids PROVE work'[i][e] = IF i = j /\ e = d THEN w ELSE work[i][e]
  BY <1>1 DEF WorkType
<1>4. ASSUME NEW i \in Jobs, NEW e \in Dids, work'[i][e].step # "none" PROVE job'[i] # "idle"
  BY <1>3, <1>4 DEF Proceed, WorkType
<1>6. ASSUME NEW i \in Jobs, NEW e \in Dids, job'[i] = "upsert" PROVE work'[i][e].step \in {"none", "fetch"}
  BY <1>3, <1>6 DEF Proceed, WorkType
<1>7. ASSUME NEW e \in Dids, NEW f \in Dids, work'["actor"][e].step # "none", work'["actor"][f].step # "none"
      PROVE  e = f
  BY <1>3, <1>7 DEF WorkType, Jobs
<1>5. ASSUME NEW i \in Jobs, NEW e \in Dids PROVE Published(e, pub'[e], work'[i][e].recs)
  <2>1. Published(e, pub[e], work[i][e].recs)
    BY DEF WorkType
  <2> QED
    BY <1>3, <2>1
<1>8. work' \in [Jobs -> [Dids -> Work]]
  BY <1>1
<1> QED
  BY <1>2, <1>4, <1>5, <1>6, <1>7, <1>8, Zenon DEF WorkType

\* What the downloads return was published.
LEMMA GotPublished ==
    ASSUME FeedType, NEW d \in Dids
    PROVE  Published(d, pub[d], GetRepo(d)) /\ Published(d, pub[d], ListRecords(d))
<1>1. pub[d] \in Nat /\ pub[d] <= Len(Feed[d]) /\ Len(Feed[d]) \in Nat
  BY Positions DEF FeedType
<1> DEFINE v == Versions(d, Listed(d))
<1>2. Listed(d) \subseteq 1 .. pub[d]
  BY DEF Listed, RecordEvents
<1>3. /\ DOMAIN v \subseteq Uris
      /\ \A u \in DOMAIN v : v[u] \in Listed(d) /\ Touches(d, v[u], u) /\ Feed[d][v[u]].op # "delete"
  BY <1>1, <1>2, VersionsAre
<1> HIDE DEF v
<1>4. ASSUME NEW u \in DOMAIN v PROVE Owner[u] = d /\ v[u] \in 1 .. pub[d]
  <2>1. v[u] \in 1 .. pub[d] /\ v[u] \in 1 .. Len(Feed[d])
    BY <1>1, <1>2, <1>3
  <2>2. Feed[d][v[u]].kind = "record" /\ Feed[d][v[u]].uri = u
    BY <1>3 DEF Touches
  <2> QED
    BY <2>1, <2>2, RecordEventsAre
<1>5. Published(d, pub[d], v)
  BY <1>3, <1>4 DEF Published
<1> QED
  BY <1>5 DEF v, GetRepo, ListRecords

LEMMA WorkTypes ==
    ASSUME IndexInv, Next
    PROVE  WorkType'
<1> USE DEF IndexInv, Types
<1>0. FeedType' /\ \A d \in Dids : pub[d] <= pub'[d]
  BY FeedTypes
<1>1. CASE UNCHANGED backfillVars
  BY <1>0, <1>1, WorkStays DEF backfillVars
<1>2. CASE Crash
  <2>1. UNCHANGED pub
    BY <1>2 DEF Crash, CrashIngest
  <2> QED
    BY <1>2, <2>1, WorkParts DEF Crash, CrashBackfill, WorkType, Jobs
<1>3. CASE BackfillNext
  <2>0. UNCHANGED pub
    BY <1>3, BackfillWrites DEF BackfillFrame
  <2>w. \A j \in Jobs, d \in Dids : Published(d, pub[d], work[j][d].recs)
    BY DEF WorkType
  <2>s. {"none", "fetch", "list"} \subseteq Steps
    BY DEF Steps
  <2>1. CASE StartBackfill \/ TriggerBackfill
    BY <2>0, <2>1 DEF StartBackfill, TriggerBackfill, WorkType, Jobs
  <2>2. ASSUME NEW d \in Dids, BackfillActor(d) \/ FillPDS(d) PROVE WorkType'
    <3>1. CASE FillPDS(d)
      BY <1>1, <3>1 DEF FillPDS
    <3>2. CASE BackfillActor(d)
      <4>1. /\ "actor" \in Jobs /\ job["actor"] = "idle" /\ job' = [job EXCEPT !["actor"] = "resolve"]
            /\ work' = [work EXCEPT !["actor"][d].step = "fetch"]
        BY <3>2 DEF BackfillActor, Jobs
      <4>2. [work["actor"][d] EXCEPT !.step = "fetch"] \in Work
            /\ [work["actor"][d] EXCEPT !.step = "fetch"].recs = work["actor"][d].recs
        BY <2>s, <4>1, WorkParts DEF WorkType
      <4>3. work' \in [Jobs -> [Dids -> Work]] /\ job' \in [Jobs -> {"idle", "resolve", "upsert", "repos"}]
        BY <4>1, <4>2 DEF WorkType
      <4>4. \A j \in Jobs, e \in Dids : work'[j][e].recs = work[j][e].recs
                                       /\ (j # "actor" \/ e # d => work'[j][e] = work[j][e])
        BY <4>1, <4>2 DEF WorkType
      <4> QED
        BY <2>0, <4>1, <4>3, <4>4 DEF WorkType
    <3> QED
      BY <2>2, <3>1, <3>2
  <2>3. CASE ResolveActor
    <3>a. "actor" \in Jobs
      BY DEF Jobs
    <3>1. CASE UNCHANGED work /\ job' = [job EXCEPT !["actor"] = "repos"]
      BY <2>0, <3>a, <3>1 DEF WorkType
    <3>2. ASSUME NEW d \in Dids, job' = [job EXCEPT !["actor"] = "idle"],
                 work' = [work EXCEPT !["actor"][d] = NoWork],
                 \A e \in Dids : work["actor"][e].step # "none" => e = d
          PROVE  WorkType'
      <4>1. work' \in [Jobs -> [Dids -> Work]]
        BY <3>a, <3>2, WorkParts DEF WorkType
      <4>2. \A j \in Jobs, e \in Dids : work'[j][e] = IF j = "actor" /\ e = d THEN NoWork ELSE work[j][e]
        BY <3>a, <3>2 DEF WorkType
      <4> QED
        BY <2>0, <3>a, <3>2, <4>1, <4>2, WorkParts DEF WorkType
    <3> QED
      BY <2>3, <3>1, <3>2 DEF ResolveActor, WorkType
  <2>4. ASSUME NEW j \in Jobs, Discover(j) PROVE WorkType'
    <3>1. PICK S \in SUBSET Dids :
             /\ j # "actor"
             /\ work' = [work EXCEPT ![j] =
                           [d \in Dids |-> IF d \in S THEN [NoWork EXCEPT !.step = "fetch"] ELSE NoWork]]
             /\ job' = [job EXCEPT ![j] = IF S = {} THEN "idle" ELSE "upsert"]
      BY <2>4 DEF Discover, ListReposByCollection
    <3>2. [NoWork EXCEPT !.step = "fetch"] \in Work /\ [NoWork EXCEPT !.step = "fetch"].recs = NoWork.recs
      BY <2>s, WorkParts
    <3>3. work' \in [Jobs -> [Dids -> Work]] /\ job' \in [Jobs -> {"idle", "resolve", "upsert", "repos"}]
      BY <3>1, <3>2, WorkParts DEF WorkType
    <3>4. \A i \in Jobs, d \in Dids :
             work'[i][d] = IF i # j THEN work[i][d]
                           ELSE IF d \in S THEN [NoWork EXCEPT !.step = "fetch"] ELSE NoWork
      BY <3>1 DEF WorkType
    <3>5. [NoWork EXCEPT !.step = "fetch"].step = "fetch"
      BY <2>s, WorkParts
    <3>6. ASSUME NEW i \in Jobs, NEW d \in Dids PROVE Published(d, pub'[d], work'[i][d].recs)
      <4>1. work'[i][d].recs = work[i][d].recs \/ work'[i][d].recs = NoWork.recs
        BY <3>2, <3>4
      <4> QED
        BY <2>0, <2>w, <4>1, WorkParts
    <3>7. \A d, e \in Dids : work'["actor"][d].step # "none" /\ work'["actor"][e].step # "none" => d = e
      BY <3>1, <3>4 DEF WorkType, Jobs
    <3>8. ASSUME NEW i \in Jobs, NEW d \in Dids
          PROVE  /\ work'[i][d].step # "none" => job'[i] # "idle"
                 /\ job'[i] = "upsert" => work'[i][d].step \in {"none", "fetch"}
      BY <3>1, <3>4, <3>5, WorkParts DEF WorkType
    <3> QED
      BY <3>3, <3>6, <3>7, <3>8, Zenon DEF WorkType
  <2>5. ASSUME NEW j \in Jobs, Resolve(j) PROVE WorkType'
    <3> DEFINE S == {d \in Dids : work[j][d].step = "fetch"}
    <3>1. CASE job' = [job EXCEPT ![j] = "repos"] /\ UNCHANGED work
      BY <2>0, <3>1 DEF WorkType
    <3>2. ASSUME NEW T \in SUBSET S, job' = [job EXCEPT ![j] = IF T = S THEN "idle" ELSE "repos"],
                 work' = [work EXCEPT ![j] = [d \in Dids |-> IF d \in T THEN NoWork ELSE @[d]]],
                 \A d \in Dids : work[j][d].step \in {"none", "fetch"}
          PROVE  WorkType'
      BY <2>0, <3>2, WorkParts DEF WorkType
    <3> QED
      BY <2>5, <3>1, <3>2 DEF Resolve, WorkType
  <2>6. ASSUME NEW j \in Jobs, NEW d \in Dids, WorkerStep(j, d) \/ WorkerPanic(j, d) PROVE WorkType'
    <3> DEFINE recs == work[j][d].recs
    <3>0. /\ Published(d, pub[d], recs)
          /\ Published(d, pub[d], GetRepo(d)) /\ Published(d, pub[d], ListRecords(d))
      BY <2>w, GotPublished
    <3>t. ASSUME NEW v, Published(d, pub[d], v), NEW S, S \subseteq DOMAIN v, NEW step \in Steps,
                 job[j] = "repos", work[j][d].step # "none",
                 Proceed(j, d, Todo(step, v, S)) \/ Proceed(j, d, NoWork)
          PROVE  WorkType'
      BY <2>0, <3>t, TodoType, ProceedType
    <3>1. CASE Fetch(j, d)
      <4>1. CASE Proceed(j, d, Todo("dedup", GetRepo(d), DOMAIN GetRepo(d)))
        BY <3>0, <3>1, <3>t, <4>1 DEF Fetch, Working, Steps
      <4>2. CASE Proceed(j, d, [NoWork EXCEPT !.step = "list"])
        <5>1. /\ [NoWork EXCEPT !.step = "list"] \in Work
              /\ Published(d, pub[d], [NoWork EXCEPT !.step = "list"].recs)
          BY <2>s, WorkParts
        <5> QED
          BY <2>0, <3>1, <4>2, <5>1, ProceedType DEF Fetch, Working
      <4> QED
        BY <3>1, <4>1, <4>2 DEF Fetch
    <3>2. CASE List(j, d)
      <4>1. Validated(j, d, ListRecords(d)) \subseteq DOMAIN ListRecords(d)
        BY DEF Validated
      <4>2. /\ job[j] = "repos" /\ work[j][d].step # "none"
            /\ \/ Proceed(j, d, Todo("insert", ListRecords(d), Validated(j, d, ListRecords(d))))
               \/ Proceed(j, d, NoWork)
        BY <3>2 DEF List, Working
      <4> QED
        BY <3>0, <3>t, <4>1, <4>2 DEF Steps
    <3>3. CASE Dedup(j, d)
      <4>1. /\ job[j] = "repos" /\ work[j][d].step # "none"
            /\ \E S : S \subseteq DOMAIN recs /\ Proceed(j, d, Todo("write", recs, S))
        <5>1. Validated(j, d, recs) \subseteq DOMAIN recs
          BY DEF Validated
        <5> HIDE DEF recs
        <5> QED
          BY <3>3, <5>1 DEF Dedup, Working, recs
      <4> QED
        BY <3>0, <3>t, <4>1 DEF Steps
    <3>4. CASE Write(j, d)
      <4>1. job[j] = "repos" /\ work[j][d].step # "none" /\ Proceed(j, d, NoWork)
        BY <3>4 DEF Write, Working
      <4> QED
        BY <3>0, <3>t, <4>1 DEF Steps
    <3>5. ASSUME NEW u \in Uris, InsertOne(j, d, u) PROVE WorkType'
      <4>1. /\ job[j] = "repos" /\ work[j][d].step # "none"
            /\ Proceed(j, d, Todo("insert", recs, DOMAIN recs \ {u}))
        BY <3>5 DEF InsertOne, Working
      <4> QED
        BY <3>0, <3>t, <4>1 DEF Steps
    <3>6. CASE WorkerPanic(j, d)
      <4>1. job[j] = "repos" /\ work[j][d].step # "none" /\ Proceed(j, d, NoWork)
        BY <3>6 DEF WorkerPanic
      <4> QED
        BY <3>0, <3>t, <4>1 DEF Steps
    <3> QED
      BY <2>6, <3>1, <3>2, <3>3, <3>4, <3>5, <3>6 DEF WorkerStep
  <2> QED
    BY <1>3, <2>1, <2>2, <2>3, <2>4, <2>5, <2>6 DEF BackfillNext
<1> QED
  BY <1>1, <1>2, <1>3 DEF Next, Start

LEMMA TokenTypes ==
    ASSUME IndexInv, Next
    PROVE  TokenType'
<1> USE DEF IndexInv, Types
<1> DEFINE Req(S) == [step : {"none", "verify", "mark", "delete", "tap"}, tok : S \cup {Null},
                      text : Spellings \cup {Null}, count : Nat, at : Nat]
           Held(S) == \A q \in Reqs : /\ req'[q].step # "none" => req'[q].tok \in S
                                      /\ req'[q].step \in {"verify", "mark"} => req'[q].text \in Spellings
<1>f. Free \in Req(tokens') /\ Free.step = "none"
  BY DEF Free
<1>1. CASE UNCHANGED purgeVars
  BY <1>1 DEF purgeVars, TokenType
<1>2. CASE Crash
  BY <1>2 DEF Crash, CrashPurge, TokenType, Free
<1>3. CASE PurgeNext
  <2>1. ASSUME NEW a \in Admins, NEW s \in Scopes, tokens' = tokens \cup {Sign(a, s)},
               UNCHANGED <<now, used, req, redeemed, evicted, gone>>
        PROVE  TokenType'
    <3>1. Count(s) \in Nat
      BY RowsCounted
    <3>2. /\ Sign(a, s).scope = s /\ Sign(a, s).admin = a /\ Sign(a, s).count = Count(s)
          /\ Sign(a, s).exp = now + TTL /\ now + TTL \in Nat
      BY PurgeAssumption DEF Sign, TokenType
    <3> HIDE DEF Sign
    <3>3. req' \in [Reqs -> Req(tokens')]
      BY <2>1 DEF TokenType
    <3> QED
      BY <2>1, <3>1, <3>2, <3>3 DEF TokenType
  <2>2. ASSUME NEW a \in Admins, NEW d \in Dids, PreviewResetAll(a) \/ PreviewPurgeActor(a, d)
        PROVE  TokenType'
    <3>1. d \in Scopes /\ ScopeResetAll \in Scopes
      BY DEF Scopes
    <3> QED
      BY <2>1, <2>2, <3>1 DEF PreviewResetAll, PreviewPurgeActor
  <2>3. ASSUME NEW a \in Admins, PreviewResetAll(a) PROVE TokenType'
    <3>1. ScopeResetAll \in Scopes
      BY DEF Scopes
    <3> QED
      BY <2>1, <2>3, <3>1 DEF PreviewResetAll
  <2>4. ASSUME NEW r \in Reqs, NEW tok \in tokens, NEW text \in Spellings, Request(r, tok, text)
        PROVE  TokenType'
    <3>1. Count(tok.scope) \in Nat
      BY RowsCounted DEF TokenType
    <3>2. [step |-> "verify", tok |-> tok, text |-> text, count |-> Count(tok.scope), at |-> 0] \in Req(tokens)
      BY <3>1
    <3>3. req' \in [Reqs -> Req(tokens)] /\ Held(tokens)
      BY <2>4, <3>2 DEF Request, TokenType
    <3> QED
      BY <2>4, <3>3 DEF Request, TokenType
  <2>5. ASSUME NEW r \in Reqs, NEW a \in Admins, Verify(r, a) PROVE TokenType'
    <3>1. /\ req[r] \in Req(tokens) /\ req[r].tok \in tokens /\ req[r].text \in Spellings /\ now \in Nat
          /\ UNCHANGED <<now, tokens, used, redeemed, evicted>>
      BY <2>5, PurgeAssumption DEF Verify, TokenType
    <3>4. PICK f : f = [req[r] EXCEPT !.step = "mark", !.at = now]
      OBVIOUS
    <3>2. req' = [req EXCEPT ![r] = f] \/ req' = [req EXCEPT ![r] = Free]
      BY <2>5, <3>4 DEF Verify
    <3>5. f \in Req(tokens) /\ f.tok = req[r].tok /\ f.text = req[r].text
      BY <3>1, <3>4
    <3>3. req' \in [Reqs -> Req(tokens)] /\ Held(tokens)
      BY <1>f, <3>1, <3>2, <3>5 DEF TokenType
    <3> QED
      BY <3>1, <3>3 DEF TokenType
  <2>a. ASSUME NEW r \in Reqs, Mark(r) PROVE TokenType'
    <3>1. PICK t \in tokens, x \in Spellings : t = req[r].tok /\ x = req[r].text
      BY <2>a DEF Mark, TokenType
    <3>2. UNCHANGED <<now, tokens, evicted>>
      BY <2>a DEF Mark
    <3>3. used' \subseteq tokens \X Spellings /\ DOMAIN redeemed' \subseteq tokens \X Spellings
      <4>1. used' \subseteq used \cup {<<t, x>>} /\ DOMAIN redeemed' \subseteq DOMAIN redeemed \cup {<<t, x>>}
        BY <2>a, <3>1 DEF Mark, UnexpiredAt, Redeem
      <4> QED
        BY <4>1 DEF TokenType
    <3>4. PICK f : f = [Free EXCEPT !.step = "delete", !.tok = t]
      OBVIOUS
    <3>5. req' = [req EXCEPT ![r] = f] \/ req' = [req EXCEPT ![r] = Free]
      BY <2>a, <3>1, <3>4 DEF Mark
    <3>6. f \in Req(tokens) /\ f.step = "delete" /\ f.tok = t
      BY <3>4 DEF Free
    <3>7. req' \in [Reqs -> Req(tokens)] /\ Held(tokens)
      BY <1>f, <3>2, <3>5, <3>6 DEF TokenType
    <3> QED
      BY <3>2, <3>3, <3>7 DEF TokenType
  <2>6. ASSUME NEW r \in Reqs, PurgeActor(r) \/ ResetAll(r) \/ RemoveRepos(r) PROVE TokenType'
    <3>1. UNCHANGED <<now, tokens, used, redeemed, evicted>>
      BY <2>6 DEF PurgeActor, ResetAll, RemoveRepos
    <3>2. req[r].step # "none" /\ (req' = [req EXCEPT ![r] = Free] \/ req' = [req EXCEPT ![r].step = "tap"])
      BY <2>6 DEF PurgeActor, ResetAll, RemoveRepos
    <3>3. req' \in [Reqs -> Req(tokens)] /\ Held(tokens)
      BY <1>f, <3>1, <3>2 DEF TokenType
    <3> QED
      BY <3>1, <3>3 DEF TokenType
  <2>7. CASE SweepExpired
    <3>1. UNCHANGED <<now, tokens, req, redeemed>> /\ used' \subseteq used /\ evicted' \subseteq evicted \cup used
      BY <2>7 DEF SweepExpired, UnexpiredAt
    <3> QED
      BY <3>1 DEF TokenType
  <2>8. CASE Tick
    BY <2>8, PurgeAssumption DEF Tick, TokenType
  <2> QED
    BY <1>3, <2>2, <2>3, <2>4, <2>5, <2>a, <2>6, <2>7, <2>8 DEF PurgeNext
<1> QED
  BY <1>1, <1>2, <1>3 DEF Next, Start

LEMMA QuotaTypes ==
    ASSUME IndexInv, Next
    PROVE  QuotaType'
<1>1. QuotaType
  BY DEF IndexInv, Types
<1>2. ASSUME NEW c \in Troubles, Spend(c) PROVE QuotaType'
  BY <1>1, <1>2 DEF Spend, QuotaType
<1>3. ASSUME Fine PROVE QuotaType'
  BY <1>1, <1>3 DEF Fine, QuotaType
<1>4. ASSUME Fault PROVE QuotaType'
  BY <1>2, <1>4 DEF Fault, Troubles
<1>5. \A c \in {"publish", "crash", "pause", "backfill", "purge"} : c \in Troubles
  BY DEF Troubles
<1>6. ASSUME UNCHANGED dbVars PROVE QuotaType'
  BY <1>1, <1>6 DEF dbVars, QuotaType
<1>7. CASE IngestNext
  <2>1. CASE PopulateActivityIfEmpty
    BY <1>1, <2>1 DEF PopulateActivityIfEmpty, QuotaType
  <2> QED
    BY <1>2, <1>3, <1>4, <1>5, <1>6, <1>7, <2>1 DEF IngestNext, ConsumerStep, Publish, SkipGarbled,
       ReadEvent, Dial, ReadTimeout, Retry, Ack, HandleIdentity, Refuse, BeginRecord, EnsureActor, Store,
       SetStatus, Disconnect, Panic, TimePasses
<1>8. CASE BackfillNext
  <2>1. ASSUME NEW d \in Dids, FillPDS(d) PROVE QuotaType'
    BY <1>1, <2>1 DEF FillPDS, QuotaType
  <2>2. ASSUME NEW j, NEW d, Write(j, d) PROVE Fine \/ Fault
    BY <2>2 DEF Write, Stores
  <2>3. ASSUME NEW j, NEW d, NEW u, InsertOne(j, d, u) PROVE Fine \/ Fault
    BY <2>3 DEF InsertOne, Stores
  <2>4. ASSUME NEW j, NEW d, Dedup(j, d) PROVE Fine \/ Fault
    BY <2>4 DEF Dedup
  <2> QED
    BY <1>2, <1>3, <1>4, <1>5, <1>8, <2>1, <2>2, <2>3, <2>4 DEF BackfillNext, WorkerStep, StartBackfill,
       TriggerBackfill, BackfillActor, ResolveActor, Discover, Resolve, Fetch, List, WorkerPanic
<1>9. CASE PurgeNext
  BY <1>2, <1>3, <1>4, <1>5, <1>6, <1>9 DEF PurgeNext, PreviewResetAll, PreviewPurgeActor, Request, Verify, Mark,
     PurgeActor, ResetAll, RemoveRepos, SweepExpired, Tick
<1>10. CASE Crash \/ Start
  BY <1>2, <1>3, <1>4, <1>5, <1>10 DEF Crash, CrashIngest, Start, Restart
<1> QED
  BY <1>7, <1>8, <1>9, <1>10 DEF Next

LEMMA TypesStep ==
    ASSUME IndexInv, Next
    PROVE  Types'
BY QuotaTypes, RowTypes, ActorTypes, LogTypes, FeedTypes, TapTypes, DispTypes, WorkTypes, TokenTypes DEF
   Types

-----------------------------------------------------------------------------
(* Ingestion.                                                              *)

\* The event in hand while an attempt is under way.
LEMMA EventInHand ==
    ASSUME IndexInv, disp.pc # "read"
    PROVE  LET d == disp.ev[1] k == disp.ev[2] IN
           /\ disp.ev \in EventIds /\ disp.ev # Null
           /\ d \in Dids /\ k \in 1 .. Len(Feed[d]) /\ Event(disp.ev) = Feed[d][k] /\ disp.ev = <<d, k>>
           /\ acked[d] \in Nat /\ k = acked[d] + 1 /\ k \in 1 .. pub[d]
           /\ Event(disp.ev).kind = "record" =>
                 /\ Event(disp.ev).uri \in Uris /\ Event(disp.ev).cid \in Cids /\ Owner[Event(disp.ev).uri] = d
                 /\ Touches(d, k, Event(disp.ev).uri)
<1> USE DEF IndexInv, Types
<1> DEFINE d == disp.ev[1]
           k == disp.ev[2]
<1>1. disp.ev \in EventIds /\ disp.ev # Null /\ k = acked[d] + 1 /\ k <= pub[d]
  BY DEF DispType
<1>2. d \in Dids /\ k \in 1 .. Len(Feed[d]) /\ disp.ev = <<d, k>>
  BY <1>1, EventIdsAre
<1>3. acked[d] \in Nat /\ k \in 1 .. pub[d]
  BY <1>1, <1>2 DEF FeedType
<1>4. Event(disp.ev) = Feed[d][k]
  BY DEF Event
<1> QED
  BY <1>1, <1>2, <1>3, <1>4, RecordEventsAre DEF Touches

\* Only the consumer applies events.
LEMMA AppliedBy ==
    ASSUME IndexInv, Next
    PROVE  UNCHANGED applied \/ Store
<1> USE DEF IndexInv, Types
<1>1. ASSUME NEW j \in Jobs, NEW d \in Dids, NEW u, Write(j, d) \/ InsertOne(j, d, u)
      PROVE  UNCHANGED applied
  <2>1. ASSUME NEW recs, NEW legacy, Stores(d, recs, legacy) PROVE UNCHANGED applied
    BY <2>1 DEF Stores
  <2> QED
    BY <1>1, <2>1, BackfillStores
<1>2. ASSUME NEW r \in Reqs, PurgeActor(r) \/ ResetAll(r) PROVE UNCHANGED applied
  BY <1>2 DEF PurgeActor, ResetAll, ghosts
<1> QED
  BY <1>1, <1>2, RowWriters

LEMMA InHandStep ==
    ASSUME IndexInv, Next
    PROVE  InHand'
<1> USE DEF InHand, pc, cur, Goto
<1>h. InHand
  BY DEF IndexInv
<1>1. CASE UNCHANGED <<disp, missed>>
  <2>1. UNCHANGED applied
    BY <1>1, AppliedBy DEF Store, IndexInv, Types, DispType
  <2> QED
    BY <1>h, <1>1, <2>1
<1>2. CASE Ack \/ Disconnect \/ Panic \/ CrashIngest
  BY <1>2 DEF Ack, Disconnect, Panic, CrashIngest, Idle
<1>9. CASE Retry
  <2>1. disp'.pc \in {"handle", "read"}
    BY <1>9 DEF Retry, Idle, IndexInv, Types, DispType
  <2> QED
    BY <2>1
<1>3. ASSUME NEW d \in Dids, ReadEvent(d) PROVE InHand'
  BY <1>3 DEF ReadEvent, Idle
<1>4. CASE HandleIdentity \/ Refuse
  BY <1>4 DEF HandleIdentity, Refuse, Accepted, IndexInv, Types, DispType
<1>5. CASE BeginRecord
  BY <1>5 DEF BeginRecord, Accepted, IndexInv, Types, DispType
<1>6. CASE EnsureActor
  BY <1>h, <1>6 DEF EnsureActor, IndexInv, Types, DispType
<1>7. CASE Store
  <2>1. /\ Event(disp.ev).kind = "record" /\ Accepted(Event(disp.ev)) /\ Event(disp.ev).uri \in Uris
        /\ disp \in [pc : PCs, ev : EventIds \cup {Null}, attempt : 0 .. MaxRetries, row : EventIds \cup {Null}]
        /\ applied \in [Uris -> Nat]
    BY <1>h, <1>7, EventInHand DEF Store, IndexInv, Types, DispType, GhostType
  <2>2. CASE disp' = [disp EXCEPT !.pc = "error"]
    BY <2>1, <2>2
  <2>3. CASE /\ disp' = [disp EXCEPT !.pc = "success"]
             /\ applied' = [applied EXCEPT ![Event(disp.ev).uri] = disp.ev[2]]
    BY <2>1, <2>3
  <2> QED
    BY <1>7, <2>2, <2>3 DEF Store
<1>8. CASE SetStatus
  <2>1. UNCHANGED applied
    BY <1>8 DEF SetStatus, ghosts
  <2> QED
    BY <1>h, <1>8, <2>1 DEF SetStatus, Accepted, IndexInv, Types, DispType
<1> QED
  BY <1>1, <1>2, <1>3, <1>4, <1>5, <1>6, <1>7, <1>8, <1>9, DispWriters

LEMMA AppliedStep ==
    ASSUME IndexInv, Next
    PROVE  AppliedSound'
<1> USE DEF IndexInv, Types
<1>0. \A d \in Dids : /\ pub[d] \in Nat /\ pub'[d] \in Nat /\ pub[d] <= pub'[d]
                      /\ acked[d] \in Nat /\ acked'[d] \in Nat
  BY FeedTypes DEF FeedType
<1>o. \A u \in Uris : Owner[u] \in Dids /\ applied[u] \in Nat
  BY IndexDBAssumption DEF GhostType
<1> DEFINE d == disp.ev[1]
           k == disp.ev[2]
           e == Event(disp.ev)
<1>1. CASE UNCHANGED <<applied, acked>>
  BY <1>0, <1>1, <1>o DEF AppliedSound
<1>2. CASE Store
  <2>1. /\ d \in Dids /\ e.kind = "record" /\ e.uri \in Uris /\ Owner[e.uri] = d /\ acked[d] \in Nat
        /\ k = acked[d] + 1 /\ k \in 1 .. pub[d] /\ IsAccepted(d, k, e.uri) /\ UNCHANGED <<acked, pub>>
    BY <1>2, EventInHand DEF Store, InHand, pc, IsAccepted, tapVars
  <2>2. CASE UNCHANGED applied
    BY <1>1, <2>1, <2>2
  <2>3. CASE applied' = [applied EXCEPT ![e.uri] = k]
    <3> HIDE DEF d, k, e
    <3>1. \A u \in Uris : applied'[u] = IF u = e.uri THEN k ELSE applied[u]
      BY <2>1, <2>3 DEF GhostType
    <3> QED
      BY <1>0, <1>o, <2>1, <3>1 DEF AppliedSound
  <2> QED
    BY <1>2, <2>2, <2>3 DEF Store, cur, ghosts
<1>3. CASE Ack
  <2>1. /\ d \in Dids /\ acked[d] \in Nat /\ k = acked[d] + 1 /\ disp.pc = "ack" /\ e = Feed[d][k]
        /\ UNCHANGED <<applied, pub>> /\ acked' = [acked EXCEPT ![d] = k] /\ acked \in [Dids -> Nat]
    BY <1>3, EventInHand DEF Ack, pc, cur, dbVars, ghosts, FeedType
  <2>2. ASSUME NEW u \in Uris, IsAccepted(d, k, u) PROVE applied[u] = k
    BY <2>1, <2>2 DEF IsAccepted, Touches, InHand
  <2> HIDE DEF d, k, e
  <2>3. ASSUME NEW u \in Uris, NEW n \in 1 .. acked'[Owner[u]], IsAccepted(Owner[u], n, u)
        PROVE  n <= applied[u]
    <3>1. CASE Owner[u] = d /\ n = k
      BY <1>o, <2>2, <2>3, <3>1
    <3>2. CASE ~(Owner[u] = d /\ n = k)
      <4>1. n \in 1 .. acked[Owner[u]]
        BY <1>0, <1>o, <2>1, <3>2
      <4> QED
        BY <2>3, <4>1 DEF AppliedSound
    <3> QED
      BY <3>1, <3>2
  <2> QED
    BY <2>1, <2>3 DEF AppliedSound
<1>4. CASE UNCHANGED applied
  <2>1. UNCHANGED acked \/ Ack
    BY FeedWriters DEF ingestVars, tapVars
  <2> QED
    BY <1>1, <1>3, <1>4, <2>1
<1> QED
  BY <1>2, <1>4, AppliedBy

LEMMA RowsStep ==
    ASSUME IndexInv, Next
    PROVE  RowsSound'
<1> USE DEF IndexInv, Types
<1>0. \A d \in Dids : pub[d] \in Nat /\ pub'[d] \in Nat /\ pub[d] <= pub'[d]
  BY FeedTypes DEF FeedType
<1>o. \A u \in Uris : Owner[u] \in Dids /\ applied[u] \in Nat
  BY IndexDBAssumption DEF GhostType
\* A record that the step leaves alone.
<1>k. ASSUME NEW u \in Uris, RowSound(u), record'[u] = record[u], applied'[u] = applied[u]
      PROVE  RowSound(u)'
  <2>1. \A n \in 1 .. pub[Owner[u]] : n \in 1 .. pub'[Owner[u]]
    BY <1>0, <1>o
  <2> QED
    BY <1>k, <2>1 DEF RowSound, Holds
<1>1. CASE UNCHANGED <<record, applied, raced, unchecked, gone>>
  BY <1>1, <1>k DEF RowsSound
<1>2. CASE Store /\ UNCHANGED gone
  <2>1. PICK d \in Dids, k \in Nat, u \in Uris, c \in Cids :
           /\ disp.ev = <<d, k>> /\ Event(disp.ev) = Feed[d][k] /\ Feed[d][k].uri = u /\ Feed[d][k].cid = c
           /\ Owner[u] = d /\ k \in 1 .. pub[d] /\ IsAccepted(d, k, u) /\ UNCHANGED pub
    <3>1. disp.pc = "store" /\ Event(disp.ev).kind = "record" /\ Accepted(Event(disp.ev)) /\ UNCHANGED pub
      BY <1>2 DEF Store, InHand, pc
    <3>2. /\ disp.ev[1] \in Dids /\ disp.ev[2] \in 1 .. pub[disp.ev[1]] /\ disp.ev = <<disp.ev[1], disp.ev[2]>>
          /\ Event(disp.ev) = Feed[disp.ev[1]][disp.ev[2]]
          /\ Event(disp.ev).uri \in Uris /\ Event(disp.ev).cid \in Cids /\ Owner[Event(disp.ev).uri] = disp.ev[1]
          /\ Touches(disp.ev[1], disp.ev[2], Event(disp.ev).uri)
      BY <3>1, EventInHand
    <3>3. disp.ev[2] \in Nat
      BY <1>0, <3>2
    <3> QED
      BY <3>1, <3>2, <3>3, Zenon DEF IsAccepted
  <2>e. Event(disp.ev).uri = u /\ Event(disp.ev).cid = c /\ Event(disp.ev).op = Feed[d][k].op /\ disp.ev[2] = k
    BY <2>1
  <2>2. CASE UNCHANGED <<record, applied, raced, unchecked>>
    BY <1>1, <1>2, <2>2
  <2>3. CASE /\ record' = IF Feed[d][k].op = "delete" THEN DeleteRow(record, u)
                         ELSE InsertWithParams(record, u, c, TRUE)
             /\ applied' = [applied EXCEPT ![u] = k]
             /\ raced' = raced \ {u} /\ unchecked' = unchecked \ {u}
    <3>1. ASSUME NEW v \in Uris, v # u PROVE record'[v] = record[v] /\ applied'[v] = applied[v]
      BY <2>3, <3>1 DEF DeleteRow, InsertWithParams, RecordType, GhostType
    <3>2. applied'[u] = k
      BY <2>3 DEF GhostType
    <3>3. RowSound(u)'
      <4>1. CASE Feed[d][k].op = "delete"
        <5>1. record'[u] = NoRow
          BY <2>3, <4>1 DEF DeleteRow, RecordType
        <5> QED
          BY <2>1, <3>2, <4>1, <5>1 DEF RowSound
      <4>2. CASE Feed[d][k].op # "delete"
        <5>1. \/ record'[u] = record[u] /\ record[u] # NoRow /\ record[u].cid = c
              \/ \E b \in BOOLEAN : record'[u] = [cid |-> c, sorted |-> b]
          BY <2>3, <4>2 DEF InsertWithParams, RecordType, Record
        <5>2. \A b \in BOOLEAN : [cid |-> c, sorted |-> b] # NoRow
          BY IndexDBAssumption
        <5>3. record'[u] # NoRow /\ record'[u].cid = c
          <6>1. ASSUME NEW b \in BOOLEAN, record'[u] = [cid |-> c, sorted |-> b]
                PROVE  record'[u] # NoRow /\ record'[u].cid = c
            BY <5>2, <6>1
          <6> QED
            BY <5>1, <6>1
        <5>4. Holds(u, k)'
          BY <2>1, <3>2, <4>2, <5>3 DEF Holds
        <5> QED
          BY <2>1, <5>3, <5>4 DEF RowSound
      <4> QED
        BY <4>1, <4>2
    <3> QED
      BY <1>k, <1>2, <2>3, <3>1, <3>3 DEF RowsSound
  <2> QED
    BY <1>2, <2>e, <2>2, <2>3 DEF Store, cur, ghosts
<1>3. ASSUME NEW j \in Jobs, NEW d \in Dids, NEW u, Write(j, d) \/ InsertOne(j, d, u), UNCHANGED gone
      PROVE  RowsSound'
  <2>1. UNCHANGED <<pub, gone>>
    BY <1>3 DEF Write, InsertOne
  <2>2. CASE UNCHANGED <<record, bulk, applied, raced, unchecked>>
    BY <1>1, <2>1, <2>2
  <2>3. ASSUME NEW recs, NEW legacy, Published(d, pub[d], recs), Stores(d, recs, legacy) PROVE RowsSound'
    <3>1. DOMAIN recs \subseteq Uris /\ \A v \in DOMAIN recs : Cid(d, recs[v]) \in Cids
      BY <2>3, PublishedCids DEF Published
    <3>2. applied' = applied
      BY <2>3 DEF Stores
    <3>3. ASSUME NEW v \in Uris, Owner[v] \notin gone, v \notin raced' \cup unchecked' PROVE RowSound(v)'
      <4>1. CASE record'[v] = record[v] /\ v \notin raced /\ v \notin unchecked
        BY <1>k, <3>2, <3>3, <4>1 DEF RowsSound
      <4>2. CASE /\ v \in DOMAIN recs /\ record'[v] # NoRow /\ record'[v].cid = Cid(d, recs[v])
                 /\ ~(applied[v] > recs[v]) /\ Accepted(Feed[d][recs[v]])
        <5>1. /\ Owner[v] = d /\ recs[v] \in 1 .. pub[d]
              /\ Touches(d, recs[v], v) /\ Feed[d][recs[v]].op # "delete"
          BY <2>3, <4>2 DEF Published
        <5>2. recs[v] >= applied'[v]
          BY <1>0, <1>o, <3>2, <4>2, <5>1
        <5>3. Holds(v, recs[v])'
          BY <4>2, <5>1, <5>2 DEF Holds, IsAccepted, Cid
        <5> QED
          BY <2>1, <4>2, <5>1, <5>3 DEF RowSound
      <4> QED
        BY <2>3, <3>1, <3>3, <4>1, <4>2, StoresAre
    <3> QED
      BY <2>1, <3>3 DEF RowsSound
  <2> QED
    BY <1>3, <2>2, <2>3, BackfillStores
<1>4. ASSUME NEW r \in Reqs, PurgeActor(r) PROVE RowsSound'
  <2> DEFINE d == req[r].tok.scope
  <2>1. UNCHANGED <<applied, raced, unchecked>>
    BY <1>4 DEF PurgeActor, ghosts
  <2>2. CASE UNCHANGED <<record, gone>>
    BY <1>1, <2>1, <2>2
  <2>3. CASE gone' = gone \cup {d} /\ record' = DeleteByDID(record, d)
    <3>1. \A u \in Uris : Owner[u] # d => record'[u] = record[u]
      BY <2>3 DEF DeleteByDID
    <3> QED
      BY <1>k, <2>1, <2>3, <3>1 DEF RowsSound
  <2> QED
    BY <1>4, <2>2, <2>3 DEF PurgeActor
<1>5. ASSUME NEW r \in Reqs, ResetAll(r) PROVE RowsSound'
  <2>1. UNCHANGED <<applied, raced, unchecked>> /\ (gone' = Dids \/ UNCHANGED <<record, gone>>)
    BY <1>5 DEF ResetAll, ghosts, tables
  <2> QED
    BY <1>1, <1>o, <2>1 DEF RowsSound
<1> QED
  BY <1>1, <1>2, <1>3, <1>4, <1>5, RowWriters

-----------------------------------------------------------------------------
(* The activity log.                                                       *)

Bad == {"pending", "orphaned", "error"}

\* What a step may do to the rows of the log: none is added but for the event in
\* hand when ProcessRecord takes it up, none of another event is set back.
LEMMA LogChanges ==
    ASSUME IndexInv, Next
    PROVE  /\ \A i \in DOMAIN activity' :
                 i \in DOMAIN activity \/ (i = disp.ev /\ Event(i).kind = "record" /\ ~PassedOver(Event(i)))
           /\ \A i \in DOMAIN activity' : i # disp.ev /\ activity'[i].status \in Bad =>
                 i \in DOMAIN activity /\ activity[i].status \in Bad
           /\ \/ BeginRecord \/ SetStatus
              \/ \A i \in DOMAIN activity' :
                    i \in DOMAIN activity /\ (activity'[i].status \in Bad => activity[i].status \in Bad)
<1> USE DEF Bad, pc, cur
<1>1. CASE UNCHANGED activity
  BY <1>1
<1>2. CASE BeginRecord
  BY <1>2 DEF BeginRecord, LogActivity
<1>3. CASE SetStatus
  <2>1. disp.row = Null \/ disp.row = disp.ev
    BY <1>3 DEF SetStatus, IndexInv, LogSound
  <2> QED
    BY <1>3, <2>1 DEF SetStatus, UpdateStatus
<1>4. CASE TimePasses
  <2>1. \A i \in DOMAIN activity : activity[i] \in [status : Statuses, age : Ages]
    BY DEF IndexInv, Types, ActivityType
  <2> QED
    BY <1>4, <2>1 DEF TimePasses
<1>5. CASE Restart
  <2>1. \A i \in DOMAIN activity : activity[i] \in [status : Statuses, age : Ages]
    BY DEF IndexInv, Types, ActivityType
  <2>2. /\ DOMAIN activity' \subseteq DOMAIN activity
        /\ \A i \in DOMAIN activity' : activity'[i].status \in Bad => activity[i].status \in Bad
    BY <1>5, <2>1 DEF Restart, OrphanPendingActivity, CleanupOldActivity
  <2> QED
    BY <2>2
<1>6. ASSUME NEW r \in Reqs, ResetAll(r)
      PROVE  UNCHANGED activity \/ DOMAIN activity' = {}
  BY <1>6 DEF ResetAll, tables
<1>7. ASSUME NEW r \in Reqs, ResetAll(r)
      PROVE  \A i \in DOMAIN activity' :
                 i \in DOMAIN activity /\ (activity'[i].status \in Bad => activity[i].status \in Bad)
  BY <1>6, <1>7
<1> QED
  BY <1>1, <1>2, <1>3, <1>4, <1>5, <1>7, LogWriters

LEMMA LogStep ==
    ASSUME IndexInv, Next
    PROVE  LogSound'
<1> USE DEF pc, cur, Goto
<1>h. LogSound /\ InHand /\ DispType
  BY DEF IndexInv, Types
<1>d. disp \in [pc : PCs, ev : EventIds \cup {Null}, attempt : 0 .. MaxRetries, row : EventIds \cup {Null}]
  BY <1>h DEF DispType
<1>1. \A i \in DOMAIN activity' : Event(i).kind = "record" /\ ~PassedOver(Event(i))
  BY <1>h, LogChanges DEF LogSound
<1> DEFINE Row == disp.pc \in {"actor", "store", "success", "error", "reject"} =>
                      disp.row = disp.ev \/ (disp.row = Null /\ disp.ev \in missed)
           Acked == disp.pc = "ack" /\ disp.ev \in DOMAIN activity /\ activity[disp.ev].status \in Bad
                        => disp.ev \in missed
<1>2. LogSound' <=> /\ \A i \in DOMAIN activity' : Event(i).kind = "record" /\ ~PassedOver(Event(i))
                    /\ Row' /\ Acked'
  BY DEF LogSound, Bad
<1>r. Row /\ Acked
  BY <1>h DEF LogSound, Bad
<1>3. CASE UNCHANGED <<disp, missed>>
  <2>1. CASE BeginRecord \/ SetStatus
    BY <1>3, <1>d, <2>1 DEF BeginRecord, SetStatus, PCs
  <2>2. CASE \A i \in DOMAIN activity' :
                 i \in DOMAIN activity /\ (activity'[i].status \in Bad => activity[i].status \in Bad)
    <3>1. Row' /\ Acked'
      BY <1>3, <1>r, <2>2
    <3> QED
      BY <1>1, <1>2, <3>1
  <2> QED
    BY <2>1, <2>2, LogChanges
<1>4. CASE disp'.pc \in {"read", "handle", "failed"}
  BY <1>1, <1>2, <1>4
<1>5. CASE Ack \/ Disconnect \/ Panic \/ CrashIngest
  BY <1>4, <1>5 DEF Ack, Disconnect, Panic, CrashIngest, Idle
<1>6. CASE Retry
  BY <1>4, <1>6, <1>d DEF Retry, Idle
<1>7. ASSUME NEW d \in Dids, ReadEvent(d) PROVE LogSound'
  BY <1>4, <1>7 DEF ReadEvent, Idle
<1>8. CASE HandleIdentity \/ Refuse
  <2>1. UNCHANGED activity /\ disp'.pc \in {"ack", "failed"} /\ disp'.ev = disp.ev
    BY <1>8, <1>d DEF HandleIdentity, Refuse, dbVars, tables
  <2>2. Event(disp.ev).kind # "record" \/ PassedOver(Event(disp.ev))
    BY <1>8 DEF HandleIdentity, Refuse
  <2>3. disp.ev \notin DOMAIN activity
    BY <1>h, <2>2 DEF LogSound
  <2>4. Row' /\ Acked'
    BY <2>1, <2>3
  <2> QED
    BY <1>1, <1>2, <2>4
<1>9. CASE BeginRecord
  <2>1. /\ disp'.pc \in {"reject", "store", "actor"} /\ disp'.ev = disp.ev
        /\ disp'.row = disp.ev \/ (disp'.row = Null /\ disp.ev \in missed')
    BY <1>9, <1>d DEF BeginRecord, LogActivity
  <2>2. Row' /\ Acked'
    BY <2>1
  <2> QED
    BY <1>1, <1>2, <2>2
<1>10. CASE EnsureActor \/ Store
  <2>1. /\ disp'.pc \in {"store", "success", "error"} /\ disp'.ev = disp.ev /\ disp'.row = disp.row
        /\ disp.pc \in {"actor", "store"} /\ UNCHANGED missed
    BY <1>10, <1>d DEF EnsureActor, Store
  <2>2. Row' /\ Acked'
    BY <1>r, <2>1
  <2> QED
    BY <1>1, <1>2, <2>2
<1>11. CASE SetStatus
  <2>1. /\ disp'.pc \in {"ack", "failed"} /\ disp'.ev = disp.ev
        /\ disp.row = disp.ev \/ (disp.row = Null /\ disp.ev \in missed)
    BY <1>11, <1>d, <1>r DEF SetStatus
  <2>0. disp.row = Null => disp.ev \in missed
    BY <1>h, <2>1, EventInHand, <1>11 DEF SetStatus, InHand
  <2>2. ASSUME disp.pc # "error", disp.ev \notin missed'
        PROVE  \E s \in {"success", "rejected"} : activity' = UpdateStatus(activity, disp.ev, s)
    <3>1. missed \subseteq missed'
      BY <1>11 DEF SetStatus
    <3>2. disp.row # Null /\ disp.row = disp.ev
      BY <2>0, <2>1, <2>2, <3>1
    <3>3. activity' = UpdateStatus(activity, disp.ev, IF disp.pc = "reject" THEN "rejected" ELSE disp.pc)
      BY <1>11, <2>2, <3>2 DEF SetStatus
    <3>4. disp.pc \in {"success", "reject"}
      BY <1>11, <2>2 DEF SetStatus
    <3> QED
      BY <3>3, <3>4
  <2>3. disp.pc = "error" => disp'.pc = "failed"
    BY <1>11, <1>d DEF SetStatus
  <2>4. disp'.pc = "ack" /\ disp.ev \notin missed' =>
           disp.ev \notin DOMAIN activity' \/ activity'[disp.ev].status \in {"success", "rejected"}
    <3> SUFFICES ASSUME disp'.pc = "ack", disp.ev \notin missed', disp.ev \in DOMAIN activity'
                 PROVE  activity'[disp.ev].status \in {"success", "rejected"}
      OBVIOUS
    <3>1. PICK s \in {"success", "rejected"} : activity' = UpdateStatus(activity, disp.ev, s)
      BY <2>2, <2>3
    <3>2. disp.ev \in DOMAIN activity /\ activity'[disp.ev] = [activity[disp.ev] EXCEPT !.status = s]
      BY <3>1 DEF UpdateStatus
    <3>3. activity[disp.ev] \in [status : Statuses, age : Ages]
      BY <3>2 DEF IndexInv, Types, ActivityType
    <3> QED
      BY <3>2, <3>3
  <2>5. Row' /\ Acked'
    BY <2>1, <2>4 DEF Bad
  <2> QED
    BY <1>1, <1>2, <2>5
<1> QED
  BY <1>3, <1>5, <1>6, <1>7, <1>8, <1>9, <1>10, <1>11, DispWriters

LEMMA SettledStep ==
    ASSUME IndexInv, Next
    PROVE  Settled'
<1> SUFFICES ASSUME NEW i \in DOMAIN activity', i[2] <= acked'[i[1]], activity'[i].status \in Bad
             PROVE  i \in missed'
  BY DEF Settled, Unsettled, Bad
<1>0. i \in EventIds /\ i[1] \in Dids /\ i[2] \in Nat
  BY LogTypes, EventIdsAre, Positions DEF ActivityType
<1>f. \A d \in Dids : acked[d] \in Nat
  BY DEF IndexInv, Types, FeedType
<1>1. CASE Ack
  <2>1. /\ disp.pc = "ack" /\ disp.ev \in EventIds /\ disp.ev[1] \in Dids /\ disp.ev[2] = acked[disp.ev[1]] + 1
        /\ acked' = [acked EXCEPT ![disp.ev[1]] = disp.ev[2]] /\ acked \in [Dids -> Nat]
        /\ UNCHANGED <<activity, missed>>
        /\ disp.ev = <<disp.ev[1], disp.ev[2]>>
    BY <1>1, EventInHand DEF Ack, pc, cur, IndexInv, Types, FeedType, dbVars, tables
  <2>2. CASE i = disp.ev
    BY <2>1, <2>2 DEF IndexInv, LogSound, Bad
  <2>3. CASE i # disp.ev
    <3>1. i = <<i[1], i[2]>>
      BY <1>0, EventIdsAre
    <3>2. i[2] <= acked[i[1]]
      BY <1>0, <1>f, <2>1, <2>3, <3>1
    <3> QED
      BY <2>1, <3>2 DEF IndexInv, Settled, Unsettled, Bad
  <2> QED
    BY <2>2, <2>3
<1>2. CASE ~Ack
  <2>1. acked' = acked
    BY <1>2, FeedWriters DEF ingestVars, tapVars
  <2>2. i # disp.ev \/ disp.pc = "read"
    BY <1>0, <1>f, <2>1, EventInHand
  <2>3. i \in DOMAIN activity /\ activity[i].status \in Bad
    BY <2>2, LogChanges DEF BeginRecord, SetStatus, pc
  <2>4. i \in missed
    BY <2>1, <2>3 DEF IndexInv, Settled, Unsettled, Bad
  <2>5. CASE missed \subseteq missed'
    BY <2>4, <2>5
  <2>6. CASE BeginRecord
    BY <2>2, <2>4, <2>6 DEF BeginRecord, pc, cur
  <2>7. ASSUME ~BeginRecord PROVE missed \subseteq missed'
    BY <1>2, <2>7, DispWriters DEF Retry, HandleIdentity, Refuse, EnsureActor, Store, SetStatus, Disconnect,
       Panic, CrashIngest, ReadEvent
  <2> QED
    BY <2>5, <2>6, <2>7
<1> QED
  BY <1>1, <1>2

-----------------------------------------------------------------------------
(* Confirmation tokens.                                                    *)

LEMMA TokensStep ==
    ASSUME IndexInv, Next
    PROVE  TokensSound'
<1> USE DEF IndexInv, Types
<1>t. TokenType /\ TokenType' /\ TokensSound
  BY TokenTypes
<1>n. now \in Nat /\ now' \in Nat /\ \A t \in tokens : t.exp \in Nat
  BY <1>t, PurgeAssumption DEF TokenType
<1>f. Free.step = "none"
  BY DEF Free
<1>1. CASE UNCHANGED <<now, used, req, redeemed, evicted>>
  BY <1>1 DEF TokensSound
<1>2. CASE Crash
  BY <1>2 DEF Crash, CrashPurge, TokensSound, Free
<1>3. CASE PurgeNext
  <2>1. ASSUME NEW a \in Admins, PreviewResetAll(a) \/ \E d \in Dids : PreviewPurgeActor(a, d)
        PROVE  TokensSound'
    BY <1>1, <2>1 DEF PreviewResetAll, PreviewPurgeActor
  <2>2. ASSUME NEW r \in Reqs, NEW tok \in tokens, NEW text \in Spellings, Request(r, tok, text)
        PROVE  TokensSound'
    <3>1. UNCHANGED <<now, used, redeemed, evicted>>
      BY <2>2 DEF Request
    <3>2. \A q \in Reqs : req'[q].step = "mark" => req'[q] = req[q]
      BY <1>t, <2>2 DEF Request, TokenType
    <3> QED
      BY <1>t, <3>1, <3>2 DEF TokensSound
  <2>3. ASSUME NEW r \in Reqs, NEW a \in Admins, Verify(r, a) PROVE TokensSound'
    <3>1. UNCHANGED <<now, used, redeemed, evicted>>
      BY <2>3 DEF Verify
    <3>2. ASSUME NEW q \in Reqs, req'[q].step = "mark"
          PROVE  req'[q].at <= now /\ req'[q].at < req'[q].tok.exp
      <4>1. CASE q # r
        <5>1. req'[q] = req[q]
          BY <1>t, <2>3, <4>1 DEF Verify, TokenType
        <5> QED
          BY <1>t, <3>2, <5>1 DEF TokensSound
      <4>2. CASE q = r
        <5>1. req[r] \in [step : {"none", "verify", "mark", "delete", "tap"}, tok : tokens \cup {Null},
                          text : Spellings \cup {Null}, count : Nat, at : Nat]
          BY <1>t DEF TokenType
        <5>2. \/ req'[r] = Free
              \/ req'[r] = [req[r] EXCEPT !.step = "mark", !.at = now] /\ now < req[r].tok.exp
          BY <1>t, <2>3 DEF Verify, TokenType
        <5>a. req'[r] # Free
          BY <1>f, <3>2, <4>2
        <5>b. /\ [req[r] EXCEPT !.step = "mark", !.at = now].at = now
              /\ [req[r] EXCEPT !.step = "mark", !.at = now].tok = req[r].tok
          BY <5>1
        <5>3. req'[r].at = now /\ req'[r].tok = req[r].tok /\ now < req[r].tok.exp
          BY <5>2, <5>a, <5>b
        <5> QED
          BY <1>n, <4>2, <5>3
      <4> QED
        BY <4>1, <4>2
    <3> QED
      BY <1>t, <3>1, <3>2 DEF TokensSound
  <2>a. ASSUME NEW r \in Reqs, Mark(r) PROVE TokensSound'
    <3>1. PICK t \in tokens, x \in Spellings : t = req[r].tok /\ x = req[r].text
      BY <1>t, <2>a DEF Mark, TokenType
    <3>2. PICK n \in Nat : n = req[r].at
      BY <1>t DEF TokenType
    <3>3. PICK k \in tokens \X Spellings : k = <<t, x>> /\ k[1] = t
      <4>1. <<t, x>> \in tokens \X Spellings /\ <<t, x>>[1] = t
        BY <3>1
      <4> QED
        BY <4>1
    <3>4. /\ used' = UnexpiredAt(used, n) \cup {k} /\ UNCHANGED <<now, evicted>>
          /\ n <= now /\ n < t.exp /\ t.exp \in Nat
      BY <1>t, <1>n, <2>a, <3>1, <3>2, <3>3 DEF Mark, TokensSound
    <3>5. \A s \in tokens \X Spellings : s \in used => s \in used' \/ now >= s[1].exp
      BY <1>n, <3>2, <3>4 DEF UnexpiredAt
    <3>6. \A q \in Reqs : req'[q].step = "mark" => req'[q] = req[q]
      <4>1. [Free EXCEPT !.step = "delete", !.tok = req[r].tok].step = "delete"
        BY DEF Free
      <4> QED
        BY <1>f, <1>t, <2>a, <4>1 DEF Mark, TokenType
    <3>7. \A q \in Reqs : req'[q].step = "mark" => req'[q].at <= now' /\ req'[q].at < req'[q].tok.exp
      BY <1>t, <3>4, <3>6 DEF TokensSound
    <3>8. CASE redeemed' = redeemed
      <4>1. \A s \in DOMAIN redeemed : s \in used' \/ now' >= s[1].exp \/ s \in evicted'
        BY <1>t, <3>4, <3>5 DEF TokensSound, TokenType
      <4> QED
        BY <1>t, <3>4, <3>7, <3>8, <4>1 DEF TokensSound
    <3>9. CASE redeemed' = Redeem(k) /\ k \notin UnexpiredAt(used, n) /\ now < t.exp
      <4>1. redeemed' = [y \in DOMAIN redeemed \cup {k} |->
                   (IF y \in DOMAIN redeemed THEN redeemed[y] ELSE 0) + (IF y = k THEN 1 ELSE 0)]
        BY <3>9 DEF Redeem
      <4>2. k \notin used
        BY <3>3, <3>4, <3>9 DEF UnexpiredAt
      <4>3. k \in DOMAIN redeemed => k \in evicted /\ redeemed[k] \in Nat
        BY <1>n, <1>t, <3>3, <3>4, <3>9, <4>2 DEF TokensSound
      <4>4. redeemed'[k] \in Nat /\ (redeemed'[k] > 1 => k \in evicted) /\ k \in used'
        BY <3>4, <4>1, <4>3
      <4>5. ASSUME NEW y \in DOMAIN redeemed', y # k
            PROVE  y \in DOMAIN redeemed /\ redeemed[y] \in Nat /\ redeemed'[y] = redeemed[y]
        BY <1>t, <4>1, <4>5 DEF TokensSound
      <4>6. \A y \in DOMAIN redeemed' : /\ redeemed'[y] \in Nat /\ (redeemed'[y] > 1 => y \in evicted')
                                        /\ y \in used' \/ now' >= y[1].exp \/ y \in evicted'
        BY <1>t, <3>4, <3>5, <4>4, <4>5 DEF TokensSound, TokenType
      <4> QED
        BY <3>7, <4>6 DEF TokensSound
    <3> QED
      BY <2>a, <3>1, <3>2, <3>3, <3>8, <3>9 DEF Mark
  <2>4. ASSUME NEW r \in Reqs, PurgeActor(r) \/ ResetAll(r) \/ RemoveRepos(r) PROVE TokensSound'
    <3>1. UNCHANGED <<now, tokens, used, redeemed, evicted>>
      BY <2>4 DEF PurgeActor, ResetAll, RemoveRepos
    <3>2. req' = [req EXCEPT ![r] = Free] \/ req' = [req EXCEPT ![r].step = "tap"]
      BY <2>4 DEF PurgeActor, ResetAll, RemoveRepos
    <3>3. \A q \in Reqs : req'[q].step = "mark" => req'[q] = req[q]
      BY <1>f, <1>t, <3>2 DEF TokenType
    <3> QED
      BY <1>t, <3>1, <3>3 DEF TokensSound
  <2>5. CASE SweepExpired
    <3>1. \A k \in used : k \in used' \/ k \in evicted' \/ ~(now < k[1].exp)
      BY <2>5 DEF SweepExpired, UnexpiredAt
    <3>2. evicted \subseteq evicted' /\ UNCHANGED <<now, tokens, req, redeemed>>
      BY <2>5 DEF SweepExpired
    <3>3. \A k \in DOMAIN redeemed : k \in used' \/ k \in evicted' \/ now >= k[1].exp
      BY <1>n, <1>t, <3>1, <3>2 DEF TokensSound, TokenType
    <3> QED
      BY <1>t, <3>2, <3>3 DEF TokensSound
  <2>6. CASE Tick
    <3>1. now' = now + 1 /\ UNCHANGED <<used, req, redeemed, evicted>>
      BY <2>6 DEF Tick
    <3>2. \A k \in DOMAIN redeemed : k[1].exp \in Nat
      BY <1>n, <1>t DEF TokenType
    <3>3. \A k \in DOMAIN redeemed : now >= k[1].exp => now' >= k[1].exp
      BY <1>n, <3>1, <3>2
    <3>4. \A q \in Reqs : req[q].at \in Nat /\ (req[q].at <= now => req[q].at <= now')
      BY <1>n, <1>t, <3>1 DEF TokenType
    <3> QED
      BY <1>t, <3>1, <3>3, <3>4 DEF TokensSound
  <2> QED
    BY <1>3, <2>1, <2>2, <2>3, <2>a, <2>4, <2>5, <2>6 DEF PurgeNext
<1> QED
  BY <1>1, <1>2, <1>3 DEF Next, Start, purgeVars

-----------------------------------------------------------------------------
(* The invariant, and what follows from it.                                *)

LEMMA IndexInit == Init => IndexInv
<1> SUFFICES ASSUME Init PROVE IndexInv
  OBVIOUS
<1> USE DEF Init, DBInit, IngestInit, BackfillInit, PurgeInit
<1>1. QuotaType /\ RecordType /\ ActorType /\ ActivityType /\ BulkType
  BY IndexDBAssumption DEF QuotaType, RecordType, Record, ActorType, Actor, ActivityType, BulkType
<1>2. GhostType /\ FeedType
  BY IndexDBAssumption DEF GhostType, FeedType
<1>3. TapType /\ DispType
  BY IngestAssumption DEF TapType, DispType, Idle, PCs
<1>4. WorkType
  BY WorkParts DEF WorkType, Jobs
<1>5. TokenType
  BY PurgeAssumption DEF TokenType, Free
<1>6. InHand /\ LogSound /\ Settled
  BY DEF InHand, Idle, LogSound, Settled
<1>7. AppliedSound
  BY IndexDBAssumption DEF AppliedSound
<1>8. RowsSound
  BY DEF RowsSound, RowSound
<1>9. TokensSound
  BY DEF TokensSound, Free
<1> QED
  BY <1>1, <1>2, <1>3, <1>4, <1>5, <1>6, <1>7, <1>8, <1>9 DEF IndexInv, Types

LEMMA IndexStep == IndexInv /\ [Next]_vars => IndexInv'
<1>1. ASSUME IndexInv, Next PROVE IndexInv'
  BY <1>1, TypesStep, InHandStep, AppliedStep, RowsStep, LogStep, SettledStep, TokensStep DEF IndexInv
<1>2. ASSUME IndexInv, UNCHANGED vars PROVE IndexInv'
  <2> USE <1>2 DEF vars, dbVars, tables, ghosts, ingestVars, tapVars, backfillVars, purgeVars, IndexInv
  <2>1. Types'
    BY DEF Types, QuotaType, RecordType, ActorType, ActivityType, BulkType, GhostType, FeedType, TapType,
       DispType, WorkType, TokenType
  <2>2. InHand' /\ AppliedSound'
    BY DEF InHand, AppliedSound
  <2>3. RowsSound'
    BY DEF RowsSound, RowSound, Holds
  <2>4. LogSound' /\ Settled' /\ TokensSound'
    BY DEF LogSound, Settled, Unsettled, TokensSound
  <2> QED
    BY <2>1, <2>2, <2>3, <2>4
<1> QED
  BY <1>1, <1>2

LEMMA TypesImply == IndexInv => TypeOK
<1> SUFFICES ASSUME IndexInv PROVE TypeOK
  OBVIOUS
<1> USE DEF IndexInv, Types
<1>1. DBTypeOK
  <2>1. \A d \in Dids : pub[d] \in 0 .. Len(Feed[d])
    BY Positions DEF FeedType
  <2>2. \A u \in Uris : applied[u] \in 0 .. Len(Feed[Owner[u]])
    BY Positions, IndexDBAssumption DEF GhostType
  <2> QED
    BY <2>1, <2>2 DEF DBTypeOK, QuotaType, RecordType, Record, ActorType, Actor, ActivityType, BulkType,
       GhostType
<1>2. IngestTypeOK
  <2>1. \A d \in Dids : acked[d] \in 0 .. pub[d]
    BY DEF FeedType
  <2> QED
    BY <2>1 DEF IngestTypeOK, TapType, DispType, PCs, pc, cur
<1>3. BackfillTypeOK
  BY DEF BackfillTypeOK, WorkType, Work, Steps, Published
<1>4. PurgeTypeOK
  BY DEF PurgeTypeOK, TokenType
<1> QED
  BY <1>1, <1>2, <1>3, <1>4 DEF TypeOK

LEMMA ConvergesHolds == IndexInv => Converges
<1> SUFFICES ASSUME IndexInv, NEW d \in Dids \ gone, AllAcked(d),
                    NEW u \in Uris \ (raced \cup unchecked), Owner[u] = d
             PROVE  LET should == Versions(d, {k \in RecordEvents(d) : Accepted(Feed[d][k])}) IN
                    record[u] # NoRow /\ record[u].cid = Cid(d, should[u]) <=> u \in DOMAIN should
  BY DEF Converges
<1> DEFINE events == {k \in RecordEvents(d) : Accepted(Feed[d][k])}
           should == Versions(d, events)
<1>0. /\ pub[d] \in Nat /\ acked[d] = pub[d] /\ events \subseteq 1 .. pub[d] /\ applied[u] \in Nat
      /\ \A k \in 1 .. pub[d] : IsAccepted(d, k, u) <=> k \in events /\ Touches(d, k, u)
  BY DEF IndexInv, Types, FeedType, GhostType, AllAcked, RecordEvents, IsAccepted, Touches
<1>1. /\ \A w \in DOMAIN should : /\ should[w] \in events /\ Touches(d, should[w], w)
                                  /\ Feed[d][should[w]].op # "delete"
                                  /\ \A j \in events : Touches(d, j, w) => j <= should[w]
      /\ \A k \in events : Touches(d, k, u) /\ (\A j \in events : Touches(d, j, u) => j <= k)
                              /\ Feed[d][k].op # "delete" => u \in DOMAIN should /\ should[u] = k
  BY <1>0, VersionsAre
<1> HIDE DEF events, should
<1>2. \A k \in 1 .. pub[d] : IsAccepted(d, k, u) => k <= applied[u]
  BY <1>0 DEF IndexInv, AppliedSound
<1>3. applied[u] # 0 => applied[u] \in 1 .. pub[d] /\ IsAccepted(d, applied[u], u)
  BY DEF IndexInv, AppliedSound
<1>4. RowSound(u)
  BY DEF IndexInv, RowsSound
<1>5. \A j \in events : Touches(d, j, u) => j <= applied[u]
  BY <1>0, <1>2
<1>6. CASE record[u] = NoRow
  <2>1. ASSUME u \in DOMAIN should PROVE FALSE
    <3>1. /\ should[u] \in events /\ Touches(d, should[u], u) /\ Feed[d][should[u]].op # "delete"
          /\ \A j \in events : Touches(d, j, u) => j <= should[u]
      BY <1>1, <2>1
    <3>2. should[u] <= applied[u] /\ should[u] \in 1 .. pub[d]
      BY <1>0, <1>5, <3>1
    <3>3. applied[u] # 0 /\ applied[u] \in events /\ Touches(d, applied[u], u)
      BY <1>0, <1>3, <3>2
    <3>4. applied[u] = should[u]
      BY <1>0, <3>1, <3>2, <3>3
    <3> QED
      BY <1>4, <1>6, <3>1, <3>3, <3>4 DEF RowSound
  <2>2. record[u] # NoRow /\ record[u].cid = Cid(d, should[u]) <=> u \in DOMAIN should
    BY <1>6, <2>1
  <2> QED
    BY <2>2 DEF events, should
<1>7. CASE record[u] # NoRow
  <2>1. PICK k \in 1 .. pub[d] : Holds(u, k)
    BY <1>4, <1>7 DEF RowSound
  <2>2. /\ IsAccepted(d, k, u) /\ Feed[d][k].op # "delete" /\ record[u].cid = Feed[d][k].cid /\ k >= applied[u]
        /\ k \in events /\ Touches(d, k, u)
    BY <1>0, <2>1 DEF Holds
  <2>3. \A j \in events : Touches(d, j, u) => j <= k
    BY <1>0, <1>5, <2>1, <2>2
  <2>4. u \in DOMAIN should /\ should[u] = k
    BY <1>1, <2>2, <2>3
  <2>5. record[u] # NoRow /\ record[u].cid = Cid(d, should[u]) <=> u \in DOMAIN should
    BY <1>7, <2>2, <2>4 DEF Cid
  <2> QED
    BY <2>5 DEF events, should
<1> QED
  BY <1>6, <1>7 DEF events, should

\* Every table, request and job has its type: rows for events that exist, versions
\* in hand that were published, tokens that no clock outruns (the repositories'
\* statements over internal/database).
THEOREM TypeCorrect == Spec => []TypeOK
<1>1. Init => IndexInv
  BY IndexInit
<1>2. IndexInv /\ [Next]_vars => IndexInv'
  BY IndexStep
<1>3. IndexInv => TypeOK
  BY TypesImply
<1> QED
  BY <1>1, <1>2, <1>3, PTL DEF Spec

\* The index converges to what the accepted events say, whatever was retried,
\* delivered again, lost in a crash or backfilled meanwhile (tap.Consumer,
\* RecordProcessor, Backfiller), for any repositories and any feeds.
THEOREM Convergence == Spec => []Converges
<1>1. Init => IndexInv
  BY IndexInit
<1>2. IndexInv /\ [Next]_vars => IndexInv'
  BY IndexStep
<1>3. IndexInv => Converges
  BY ConvergesHolds
<1> QED
  BY <1>1, <1>2, <1>3, PTL DEF Spec

\* Every acknowledged event's outcome is in the activity log, unless a write to the
\* log failed or a crash came before it (LogActivity, UpdateStatus).
THEOREM ActivityCorrect == Spec => []ActivitySettled
<1>1. Init => IndexInv
  BY IndexInit
<1>2. IndexInv /\ [Next]_vars => IndexInv'
  BY IndexStep
<1>3. IndexInv => ActivitySettled
  BY DEF IndexInv, Settled, Unsettled, ActivitySettled
<1> QED
  BY <1>1, <1>2, <1>3, PTL DEF Spec

\* A text of a confirmation token is redeemed once at most before the token expires, unless
\* the cap drove it out, for any number of requests, administrators, tokens and texts, with
\* the time read before the lock is taken (VerifyReason, sweepExpired).
THEOREM RedeemedOnce == Spec => []TokenOnce
<1>1. Init => IndexInv
  BY IndexInit
<1>2. IndexInv /\ [Next]_vars => IndexInv'
  BY IndexStep
<1>3. IndexInv => TokenOnce
  BY DEF IndexInv, TokensSound, TokenOnce
<1> QED
  BY <1>1, <1>2, <1>3, PTL DEF Spec
=============================================================================
