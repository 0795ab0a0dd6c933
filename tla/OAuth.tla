------------------------------- MODULE OAuth -------------------------------
(***************************************************************************)
(* The OAuth server, the service-auth verifier and the DID cache in one    *)
(* process, on one clock.  Init chooses from Quotas what the environment   *)
(* will do; everything else is free.                                       *)
(***************************************************************************)
EXTENDS OAuthServer, ServiceAuth, DIDCache

vars == <<now, quota, serverVars, serviceVars, didVars>>

Init ==
    /\ now = 0 /\ quota \in Quotas
    /\ ServerInit /\ ServiceInit /\ DIDCacheInit

Tick ==
    /\ now < MaxTime /\ DIDCacheSettled /\ Spend("tick") /\ now' = now + 1
    /\ UNCHANGED <<serverVars, serviceVars, didVars>>

\* The process dies and starts again on the same database.
Crash ==
    /\ Spend("crash") /\ ServerCrash /\ ServiceCrash /\ DIDCacheCrash /\ UNCHANGED now

Next ==
    \/ ServerNext /\ UNCHANGED <<now, serviceVars, didVars>>
    \/ (\E t \in Tokens, a \in DocAnswers : ServiceRequest(t, a) \/ Reject(t, a))
          /\ UNCHANGED <<now, serverVars, didVars>>
    \/ DIDCacheNext /\ UNCHANGED <<now, serverVars, serviceVars>>
    \/ Tick \/ Crash

Spec == Init /\ [][Next]_vars

-----------------------------------------------------------------------------

\* Requests are at a statement of their handler, tokens belong to clients that exist
\* (foreign keys), the replay cache keeps its capacity, cached documents their TTL.
TypeOK == now \in 0 .. MaxTime /\ ServerTypeOK /\ ServiceTypeOK /\ DIDCacheTypeOK

\* A DPoP proof is accepted once, whichever endpoints it is sent to, in whatever
\* order requests, the cleanup of the JTI table and the clock take their turns
\* (InsertIfNew against DeleteOlderThan in StartCleanupWorker).
NoReplay == \A j \in DOMAIN accepted : accepted[j] = 1

\* Once a pair of tokens was answered for a code or refresh token, a request that looks it
\* up later is answered none, whatever failed or crashed (MarkUsed, Revoke).  A second pair
\* goes only to a request that had read the grant, and found it good, before that answer:
\* the lookup and the mark are two statements (oauth_handlers.go:617 and 674).
NoLateIssue == \A g \in DOMAIN issued : issued[g].pairs \subseteq issued[g].early

\* Rotation never leaves a session without a token (comment at handleRefreshTokenGrant):
\* a client that has a refresh token, that was not revoked and lost no answer, holds
\* or is about to get one that is not revoked, whatever statement failed or crashed.
NeverStranded ==
    \A t \in DOMAIN db.refreshTokens :
       LET session == db.refreshTokens[t].session IN
       t \in known /\ session \notin ended \cup lost =>
          \E u \in DOMAIN db.refreshTokens :
             /\ db.refreshTokens[u].session = session /\ ~db.refreshTokens[u].revoked
             /\ u \in known \/ \E s \in Slots : At(s, "answer") /\ u = <<"rt", req[s].id>>

\* A service-auth token is accepted again only after its entry was lost: evicted at
\* capacity or gone with the process, never by expiry (checkAndSet).
ServiceOnce ==
    [][\A k \in DOMAIN passed : passed'[k] > passed[k] => k \in forgot]_vars

\* When the account replaced version v of its document.
Replaced(d, v) == IF v <= Len(replaced[d]) THEN replaced[d][v] ELSE now

\* A cached lookup returns a document that was current at most CacheTTL + Timeout ago;
\* one that bypasses the cache, at most Timeout before it asked, which is what a
\* resolution in flight at that time may return (DIDCache.GetWithInvalidate).
DocFresh ==
    \A c \in Callers : caller[c].at = "done" /\ caller[c].doc # Null =>
       LET since == Replaced(caller[c].did, caller[c].doc) IN
       IF caller[c].fresh THEN since >= caller[c].asked - Timeout
       ELSE since >= caller[c].asked - CacheTTL - Timeout
=============================================================================
