------------------------------ MODULE DIDCache ------------------------------
(***************************************************************************)
(* The cache of DID documents (internal/oauth/did_cache.go) and its users: *)
(* backfill's resolver goroutines, which try again past the cache, and the *)
(* record processor.  Concurrent resolutions of a DID share one flight.    *)
(* Accounts change their documents meanwhile: a document is its version.   *)
(***************************************************************************)
EXTENDS Identity

CONSTANTS
    Callers,        \* goroutines that look documents up
    CacheTTL,       \* DIDCache.ttl
    Timeout,        \* DIDResolver.httpClient.Timeout
    DocAnswers      \* external: how a resolution request may fare

ASSUME DIDCacheAssumption ==
    /\ CacheTTL \in Nat /\ Timeout \in Nat \ {0}
    /\ \A a \in DocAnswers : "doc" \in DOMAIN a
    /\ Null \notin [at : {"sent", "reply", "landed"}, doc : Nat \cup {Null}, since : Nat]

VARIABLES
    cache,          \* [Dids -> Null or [doc, expires]]
    flight,         \* singleflight: [Dids -> Null or [at, doc, since]]
    caller,         \* [Callers -> [at, did, fresh, asked, doc]]
    replaced        \* external: per DID, when each version was replaced by the next

didVars == <<cache, flight, caller, replaced>>

Idle == [at |-> "idle", did |-> Null, fresh |-> FALSE, asked |-> 0, doc |-> Null]

DIDCacheInit ==
    /\ cache = [d \in Dids |-> Null] /\ flight = [d \in Dids |-> Null]
    /\ caller = [c \in Callers |-> Idle] /\ replaced = [d \in Dids |-> <<>>]

Current(d) == Len(replaced[d]) + 1
\* Mutant: the TTL is ignored.
NeverExpires(e) == FALSE
CacheIsExpired(e) == now > e.expires
Goto(c, at) == caller' = [caller EXCEPT ![c].at = at]

\* A call begins: the processor's Get, or backfill's; its second attempt drops the
\* entry first.
GetWithInvalidate(c, d, fresh) ==
    /\ caller' = [caller EXCEPT ![c] =
          [at |-> IF fresh THEN "invalidate" ELSE "lookup", did |-> d, fresh |-> fresh,
           asked |-> now, doc |-> Null]]
    /\ UNCHANGED <<cache, flight, replaced>>

Lookup(c, d) == caller[c].at \in {"idle", "done"} /\ Spend("lookup") /\ GetWithInvalidate(c, d, FALSE)

\* ResolveDIDs in backfill: a failed lookup is tried once more, bypassing the cache.
RetryFresh(c) ==
    /\ caller[c].at = "done" /\ caller[c].doc = Null /\ ~caller[c].fresh
    /\ Fine /\ GetWithInvalidate(c, caller[c].did, TRUE)

Invalidate(c) ==
    /\ caller[c].at = "invalidate" /\ Fine /\ Goto(c, "lookup")
    /\ cache' = [cache EXCEPT ![caller[c].did] = Null]
    /\ UNCHANGED <<flight, replaced>>

ReadEntry(c) ==
    /\ caller[c].at = "lookup" /\ Fine
    /\ LET e == cache[caller[c].did] IN
       IF e # Null /\ ~CacheIsExpired(e)
       THEN caller' = [caller EXCEPT ![c].at = "done", ![c].doc = e.doc]
       ELSE Goto(c, "resolve")
    /\ UNCHANGED <<cache, flight, replaced>>

\* flight.Do: the first caller starts the resolution, the others wait for it.
ResolveFresh(c) ==
    /\ caller[c].at = "resolve" /\ Fine /\ Goto(c, "wait")
    /\ flight' = [flight EXCEPT ![caller[c].did] =
                     IF @ = Null THEN [at |-> "sent", doc |-> Null, since |-> now] ELSE @]
    /\ UNCHANGED <<cache, replaced>>

\* The directory answers with the version it has; the answer is under way for a while.
Serve(d) ==
    /\ flight[d] # Null /\ flight[d].at = "sent" /\ Fine
    /\ \E a \in DocAnswers :
          flight' = [flight EXCEPT ![d].at = "reply", ![d].doc = ResolveDID(d, [a EXCEPT !.doc = Current(d)])]
    /\ UNCHANGED <<cache, caller, replaced>>

PutWithTTL(d, doc) == [cache EXCEPT ![d] = [doc |-> doc, expires |-> now + CacheTTL]]

Put(d) ==
    /\ flight[d] # Null /\ flight[d].at = "reply" /\ Fine
    /\ cache' = IF flight[d].doc = Null THEN cache ELSE PutWithTTL(d, flight[d].doc)
    /\ flight' = [flight EXCEPT ![d].at = "landed"]
    /\ UNCHANGED <<caller, replaced>>

\* Do returns to everyone who waits.
Land(d) ==
    /\ flight[d] # Null /\ flight[d].at = "landed" /\ Fine
    /\ caller' = [c \in Callers |->
          IF caller[c].at = "wait" /\ caller[c].did = d
          THEN [caller[c] EXCEPT !.at = "done", !.doc = flight[d].doc] ELSE caller[c]]
    /\ flight' = [flight EXCEPT ![d] = Null]
    /\ UNCHANGED <<cache, replaced>>

Cleanup ==
    /\ \E d \in Dids : cache[d] # Null /\ CacheIsExpired(cache[d])
    /\ Fine
    /\ cache' = [d \in Dids |-> IF cache[d] # Null /\ CacheIsExpired(cache[d]) THEN Null ELSE cache[d]]
    /\ UNCHANGED <<flight, caller, replaced>>

ChangeDocument(d) ==
    /\ Spend("change") /\ replaced' = [replaced EXCEPT ![d] = Append(@, now)]
    /\ UNCHANGED <<cache, flight, caller>>

DIDCacheNext ==
    \/ \E c \in Callers :
          \/ \E d \in Dids : Lookup(c, d)
          \/ RetryFresh(c) \/ Invalidate(c) \/ ReadEntry(c) \/ ResolveFresh(c)
    \/ \E d \in Dids : Serve(d) \/ Put(d) \/ Land(d) \/ ChangeDocument(d)
    \/ Cleanup

\* The cache's own steps take no time; the HTTP client gives up after Timeout, which
\* is one of the answers.
DIDCacheSettled ==
    /\ \A c \in Callers : caller[c].at \in {"idle", "done", "wait"}
    /\ \A d \in Dids : flight[d] # Null =>
          flight[d].at \in {"sent", "reply"} /\ now - flight[d].since < Timeout

\* The process ends: cache, flights and callers are gone.
DIDCacheCrash ==
    /\ cache' = [d \in Dids |-> Null] /\ flight' = [d \in Dids |-> Null]
    /\ caller' = [c \in Callers |-> Idle] /\ UNCHANGED replaced

DIDCacheTypeOK ==
    /\ \A d \in Dids :
          /\ cache[d] # Null => cache[d].doc \in 1 .. Current(d) /\ cache[d].expires <= now + CacheTTL
          /\ flight[d] # Null =>
                flight[d].at \in {"sent", "reply", "landed"} /\ flight[d].since <= now
    /\ \A c \in Callers : caller[c].at \in {"idle", "invalidate", "lookup", "resolve", "wait", "done"}
=============================================================================
