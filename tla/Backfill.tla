------------------------------- MODULE Backfill -------------------------------
(***************************************************************************)
(* internal/backfill: the full backfill, started by the admin API          *)
(* (TriggerBackfill) or at start-up (BACKFILL_ON_START), the backfill of   *)
(* one actor, and the cmd/backfill_pds tool.  A job first resolves its     *)
(* repositories, then works on each of them concurrently: it downloads a   *)
(* snapshot, drops what the index has already, and writes the rest.        *)
(* The semaphores only delay steps and are left out.  A downloaded version *)
(* is represented by the position in Feed of the event that wrote it.      *)
(***************************************************************************)
EXTENDS Ingest

Jobs == {"start", "full", "actor"}      \* one actor backfill at a time

VARIABLES
    job,            \* per job: "idle", or the stage of its one goroutine, "repos" last
    work            \* per job and repository: the next step and the versions in hand

backfillVars == <<job, work>>

NoVersions == [u \in {} |-> 0]
NoWork == [step |-> "none", recs |-> NoVersions]

BackfillInit ==
    /\ job = [j \in Jobs |-> "idle"]
    /\ work = [j \in Jobs |-> [d \in Dids |-> NoWork]]

BackfillTypeOK ==
    /\ job \in [Jobs -> {"idle", "resolve", "upsert", "repos"}]
    /\ \A j \in Jobs, d \in Dids :
          /\ work[j][d].step \in {"none", "fetch", "list", "dedup", "write", "insert"}
          /\ \A u \in DOMAIN work[j][d].recs :
                Owner[u] = d /\ work[j][d].recs[u] \in 1 .. pub[d] /\ Touches(d, work[j][d].recs[u], u)
          /\ work[j][d].step # "none" => job[j] # "idle"

Cid(d, k) == Feed[d][k].cid

\* The handle in the DID document; the DID itself when there is none.
DocHandle(d) ==
    LET ids == {n \in 1 .. pub[d] : Feed[d][n].kind = "identity"}
    IN IF ids = {} THEN d ELSE Feed[d][CHOOSE n \in ids : \A m \in ids : m <= n].handle

\* startBackfill, when the deployment asks for it.  It does not look at
\* backfillActive.
StartBackfill ==
    /\ proc = "up" /\ "backfill" \in boot /\ Spend("backfill")
    /\ boot' = boot \ {"backfill"} /\ job' = [job EXCEPT !["start"] = "resolve"]
    /\ UNCHANGED <<tables, pub, ghosts, proc, tapVars, disp, missed, work>>

\* Resolver.TriggerBackfill: the compare-and-swap of backfillActive, which is set
\* exactly while the job runs.
TriggerBackfill ==
    /\ proc = "up" /\ job["full"] = "idle" /\ Spend("backfill")
    /\ job' = [job EXCEPT !["full"] = "resolve"]
    /\ UNCHANGED <<tables, pub, ghosts, ingestVars, work>>

\* Resolver.BackfillActor: the actor row comes first, with an empty handle.
BackfillActor(d) ==
    /\ proc = "up" /\ job["actor"] = "idle" /\ Spend("backfill")
    /\ actor' = UpsertWithPDS(actor, d, Null, Null)
    /\ job' = [job EXCEPT !["actor"] = "resolve"]
    /\ work' = [work EXCEPT !["actor"][d].step = "fetch"]
    /\ UNCHANGED <<record, activity, bulk, pub, ghosts, ingestVars>>

\* The relay names any repositories it knows of; a request that fails leaves its
\* collection out.
ListReposByCollection == SUBSET Dids

\* Run: no repository found ends the job.
Discover(j) ==
    /\ proc = "up" /\ job[j] = "resolve" /\ j # "actor"
    /\ \E S \in ListReposByCollection :
          /\ S = {} => Fault
          /\ S # {} => Fine
          /\ work' = [work EXCEPT ![j] =
                         [d \in Dids |-> IF d \in S THEN [NoWork EXCEPT !.step = "fetch"] ELSE NoWork]]
          /\ job' = [job EXCEPT ![j] = IF S = {} THEN "idle" ELSE "upsert"]
    /\ UNCHANGED <<tables, pub, ghosts, ingestVars>>

\* resolveAndGroupByPDS: a repository that does not resolve is left out; all
\* others have their actors upserted in one batch, which may fail.
Resolve(j) ==
    /\ proc = "up" /\ job[j] = "upsert"
    /\ LET S == {d \in Dids : work[j][d].step = "fetch"} IN
       \/ Fine /\ actor' = BatchUpsert(actor, [d \in S |-> DocHandle(d)])
          /\ job' = [job EXCEPT ![j] = "repos"] /\ UNCHANGED work
       \/ Fault /\ job' = [job EXCEPT ![j] = "repos"] /\ UNCHANGED <<actor, work>>
       \/ \E T \in (SUBSET S) \ {{}} :
             /\ Fault /\ actor' = BatchUpsert(actor, [d \in S \ T |-> DocHandle(d)])
             /\ work' = [work EXCEPT ![j] = [d \in Dids |-> IF d \in T THEN NoWork ELSE @[d]]]
             /\ job' = [job EXCEPT ![j] = IF T = S THEN "idle" ELSE "repos"]
    /\ UNCHANGED <<record, activity, bulk, pub, ghosts, ingestVars>>

\* Backfiller.BackfillActor up to the download: a resolution that fails ends it,
\* an upsert that fails does not.
ResolveActor ==
    /\ proc = "up" /\ job["actor"] = "resolve"
    /\ \E d \in {e \in Dids : work["actor"][e].step = "fetch"} :
          \/ Fine /\ actor' = UpsertWithPDS(actor, d, DocHandle(d), Null)
             /\ job' = [job EXCEPT !["actor"] = "repos"] /\ UNCHANGED work
          \/ Fault /\ job' = [job EXCEPT !["actor"] = "repos"] /\ UNCHANGED <<actor, work>>
          \/ Fault /\ job' = [job EXCEPT !["actor"] = "idle"] /\ UNCHANGED actor
             /\ work' = [work EXCEPT !["actor"][d] = NoWork]
    /\ UNCHANGED <<record, activity, bulk, pub, ghosts, ingestVars>>

\* The job goes on with repository d as w says, and ends with its last one.
Proceed(j, d, w) ==
    /\ work' = [work EXCEPT ![j][d] = w]
    /\ job' = IF \A e \in Dids : work'[j][e].step = "none" THEN [job EXCEPT ![j] = "idle"] ELSE job

\* The versions recs of the URIs S are next; there may be none.
Todo(step, recs, S) == IF S = {} THEN NoWork ELSE [step |-> step, recs |-> [u \in S |-> recs[u]]]

Listed(d) == {k \in RecordEvents(d) : Feed[d][k].listed}
\* The repository as a CAR file, filtered by collection; or the pages of
\* listRecords, which the small instances fit on one.
GetRepo(d) == Versions(d, Listed(d))
ListRecords(d) == Versions(d, Listed(d))

\* Validation drops a version in enforce mode.  An actor backfill has none.
Validated(j, d, recs) == {u \in DOMAIN recs : j = "actor" \/ ~Rejected(Feed[d][recs[u]])}

Working(j, d, step) == proc = "up" /\ job[j] = "repos" /\ work[j][d].step = step

\* GetRepo: the whole repository in one request, filtered by collection; when
\* that fails, ListRecords.
Fetch(j, d) ==
    /\ Working(j, d, "fetch")
    /\ LET got == GetRepo(d) IN
       \/ Fine /\ Proceed(j, d, Todo("dedup", got, DOMAIN got))
       \/ Fault /\ Proceed(j, d, [NoWork EXCEPT !.step = "list"])
    /\ UNCHANGED <<tables, pub, ghosts, ingestVars>>

\* processRepoLegacy and backfillActorLegacy; only the former validates.
List(j, d) ==
    /\ Working(j, d, "list")
    /\ LET got == ListRecords(d)
       IN \/ /\ Fine
             /\ Proceed(j, d, Todo("insert", got, Validated(j, d, got)))
          \/ Fault /\ Proceed(j, d, NoWork)
    /\ UNCHANGED <<tables, pub, ghosts, ingestVars>>

\* filterByExistingCIDs: a version goes when its URI has it already, or any URI
\* has its content.  Without the answer to the first query nothing is dropped,
\* without that to the second only what is unchanged.  Then validation, of which
\* BackfillActor does none.
Dedup(j, d) ==
    /\ Working(j, d, "dedup")
    /\ LET recs == work[j][d].recs
           byURI == GetCIDsByURIs(record, DOMAIN recs)
           existing == GetExistingCIDs(record, {Cid(d, recs[u]) : u \in DOMAIN recs})
           unchanged == {u \in DOMAIN byURI : byURI[u] = Cid(d, recs[u])}
           known == {u \in DOMAIN recs : Cid(d, recs[u]) \in existing}
           valid == Validated(j, d, recs)
       IN \/ Fine /\ Proceed(j, d, Todo("write", recs, valid \ (unchanged \cup known)))
          \/ /\ Fault
             /\ \E S \in {valid, valid \ unchanged} : Proceed(j, d, Todo("write", recs, S))
    /\ UNCHANGED <<tables, pub, ghosts, ingestVars>>

\* The versions recs are stored, and an activity row is added for each of them, or
\* (legacy) for those that changed something; that it may fail is only logged.
\* The histories note what the versions do to the table.
Stores(d, recs, legacy) ==
    LET cids == [u \in DOMAIN recs |-> Cid(d, recs[u])]
        changed == {u \in DOMAIN recs : record[u] = NoRow \/ record[u].cid # cids[u]}
    IN /\ record' = BatchInsert(record, cids)
       /\ raced' = (raced \ changed) \cup {u \in changed : applied[u] > recs[u]}
       /\ unchecked' = (unchecked \ changed) \cup {u \in changed : ~Accepted(Feed[d][recs[u]])}
       /\ UNCHANGED applied
       /\ LET rows == LogActivityWithStatus(bulk, [u \in IF legacy THEN changed ELSE DOMAIN recs |-> cids[u]])
          IN (Fine /\ bulk' = rows) \/ (Fault /\ rows # bulk /\ UNCHANGED bulk)

\* BatchInsert, one transaction, and the activity rows.
Write(j, d) ==
    /\ Working(j, d, "write")
    /\ \/ Stores(d, work[j][d].recs, FALSE)
       \/ Fault /\ UNCHANGED <<record, bulk, ghosts>>
    /\ Proceed(j, d, NoWork)
    /\ UNCHANGED <<actor, activity, pub, ingestVars>>

\* The legacy paths insert record by record.
InsertOne(j, d, u) ==
    /\ Working(j, d, "insert") /\ u \in DOMAIN work[j][d].recs
    /\ LET recs == work[j][d].recs
       IN /\ \/ Stores(d, [v \in {u} |-> recs[u]], TRUE)
             \/ Fault /\ UNCHANGED <<record, bulk, ghosts>>
          /\ Proceed(j, d, Todo("insert", recs, DOMAIN recs \ {u}))
    /\ UNCHANGED <<actor, activity, pub, ingestVars>>

\* safeProcessRepo recovers a panic and gives the repository up.
WorkerPanic(j, d) ==
    /\ j # "actor" /\ proc = "up" /\ work[j][d].step # "none" /\ job[j] = "repos"
    /\ Fault /\ Proceed(j, d, NoWork)
    /\ UNCHANGED <<tables, pub, ghosts, ingestVars>>

\* cmd/backfill_pds: a process of its own that fills in missing endpoints.
FillPDS(d) ==
    /\ actor[d] # NoRow /\ actor[d].pds = Null
    /\ actor' = SetPDS(actor, d, "pds")
    /\ UNCHANGED <<record, activity, bulk, pub, quota, ghosts, ingestVars, backfillVars>>

WorkerStep(j, d) ==
    \/ Fetch(j, d) \/ List(j, d) \/ Dedup(j, d) \/ Write(j, d)
    \/ \E u \in Uris : InsertOne(j, d, u)

CrashBackfill ==
    /\ job' = [j \in Jobs |-> "idle"]
    /\ work' = [j \in Jobs |-> [d \in Dids |-> NoWork]]

BackfillNext ==
    \/ StartBackfill \/ TriggerBackfill
    \/ \E d \in Dids : BackfillActor(d) \/ FillPDS(d)
    \/ ResolveActor
    \/ \E j \in Jobs : Discover(j) \/ Resolve(j) \/ \E d \in Dids : WorkerStep(j, d) \/ WorkerPanic(j, d)
=============================================================================
