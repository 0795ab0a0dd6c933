-------------------------------- MODULE Index --------------------------------
(***************************************************************************)
(* The writers of the index together: live ingestion from Tap (Ingest),    *)
(* the backfills (Backfill) and the destructive admin operations (Purge),  *)
(* goroutines of one process over one database.                            *)
(***************************************************************************)
EXTENDS Backfill, Purge

vars == <<dbVars, ingestVars, backfillVars, purgeVars>>

Init == DBInit /\ IngestInit /\ BackfillInit /\ PurgeInit

Crash == CrashIngest /\ CrashBackfill /\ CrashPurge
Start == Restart /\ UNCHANGED <<backfillVars, purgeVars>>

Next ==
    \/ IngestNext /\ UNCHANGED <<backfillVars, purgeVars>>
    \/ BackfillNext /\ UNCHANGED purgeVars
    \/ PurgeNext /\ UNCHANGED backfillVars
    \/ Crash \/ Start

\* The consumer goroutine keeps running and the process is started again; the
\* read deadline fires.  Nothing is assumed of upstream or of administrators.
Fairness ==
    /\ WF_vars(ConsumerStep /\ UNCHANGED <<backfillVars, purgeVars>>)
    /\ WF_vars(Start)

Spec == Init /\ [][Next]_vars /\ Fairness

-----------------------------------------------------------------------------

TypeOK == DBTypeOK /\ IngestTypeOK /\ BackfillTypeOK /\ PurgeTypeOK

AllAcked(d) == acked[d] = pub[d]

\* Tap delivers an event again after a lost acknowledgement, a failure that
\* outlasts the retries, a panic or a crash, and backfills write snapshots of any
\* age in between.  Once all of a repository's events are acknowledged its rows are
\* the versions that the accepted events leave, whatever a backfill still has in
\* hand, unless one wrote back an older version after a newer event was applied (raced),
\* or stored one that ingestion refuses (unchecked: BackfillActor does not
\* validate); a backfill never removes a row.
Converges ==
    \A d \in Dids \ gone : AllAcked(d) =>
        LET should == Versions(d, {k \in RecordEvents(d) : Accepted(Feed[d][k])}) IN
        \A u \in Uris \ (raced \cup unchecked) : Owner[u] = d =>
            record[u] # NoRow /\ record[u].cid = Cid(d, should[u]) <=> u \in DOMAIN should

\* The activity log tells how every acknowledged event went: its row is neither
\* pending, nor orphaned by the janitor, nor left at the error of an attempt
\* that a later one made good, unless the write to the log itself failed or the
\* process died before it.
ActivitySettled ==
    \A i \in DOMAIN activity :
        i[2] <= acked[i[1]] /\ i # cur /\ activity[i].status \in {"pending", "orphaned", "error"}
        => i \in missed

\* A confirmation token, in the text it is presented by, is accepted once at most before it
\* expires, however requests, the sweeper and the clock interleave, unless the cap on
\* remembered texts drove it out early or the process restarted.  (A request whose time was
\* read before the expiry and that gets the lock after it is not held to this: the entry
\* may be gone by then.)
TokenOnce == \A k \in DOMAIN redeemed : redeemed[k] > 1 => k \in evicted

\* Progress through retries, lost connections, panics, garbled frames and
\* crashes: again and again there is a moment when no repository that Tap follows
\* has events outstanding, unless one of them has an operation the processor
\* does not know, which blocks its repository for good.
Blocked(d) == \E k \in 1 .. pub[d] : Feed[d][k].kind = "record" /\ Feed[d][k].op \notin RecordOps
EventuallyAcked == []<>(\A d \in tracked : AllAcked(d) \/ Blocked(d))
=============================================================================
