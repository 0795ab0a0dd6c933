-------------------------------- MODULE Purge --------------------------------
(***************************************************************************)
(* internal/graphql/admin/purge.go: previewPurgeActor / purgeActor and     *)
(* previewResetAll / resetAll, and the signer of their confirmation        *)
(* tokens.  A token carries its claims and is good for one use until it    *)
(* expires; the set of used ones is in memory only.  A request recounts,   *)
(* verifies, deletes in one transaction and then asks Tap to drop the      *)
(* repository.  Signing is out of scope: a token is its claims, and two    *)
(* issued in one second with equal claims are the same.  The signature is  *)
(* compared decoded but remembered as the text that was presented, and     *)
(* several texts decode to the same bytes (Spellings).                     *)
(***************************************************************************)
EXTENDS Ingest

CONSTANTS
    Admins, Reqs,
    Spellings,      \* texts of one signature that DecodeString takes for the same bytes
    TTL,            \* purgeTokenTTL, in ticks
    MaxClock,       \* bound: ticks of the clock
    MaxUsedSigs     \* maxUsedSigs

ASSUME PurgeAssumption == TTL \in Nat \ {0} /\ MaxClock \in Nat /\ MaxUsedSigs \in Nat

VARIABLES
    now, tokens,    \* the clock and the tokens issued
    used,           \* usedSigs: the tokens used, each under the text it was presented by
    req,            \* per request: its step, token and text, its recount, and the time it read
    redeemed,       \* history: per token and text, uses accepted before the expiry, since the start
    evicted,        \* history: those dropped from usedSigs before they expired
    gone            \* history: repositories whose rows were deleted

purgeVars == <<now, tokens, used, req, redeemed, evicted, gone>>

ScopeResetAll == "reset_all"
Scopes == Dids \cup {ScopeResetAll}     \* actor_purge with its target, or reset_all
Free == [step |-> "none", tok |-> Null, text |-> Null, count |-> 0, at |-> 0]

\* The rows a scope deletes.
RowsOf(t) ==
    {<<"record", u>> : u \in {v \in Stored(record) : t \in {Owner[v], ScopeResetAll}}}
    \cup {<<"actor", d>> : d \in {e \in Dids : actor[e] # NoRow /\ t = ScopeResetAll}}
    \cup (IF t = ScopeResetAll THEN {<<"activity", i>> : i \in DOMAIN activity} \cup {<<"bulk", b>> : b \in bulk}
          ELSE {})
\* CountByDID, or resetAllCounts over the tables of this model.
Count(t) == Cardinality(RowsOf(t))

PurgeInit ==
    /\ now = 0 /\ tokens = {} /\ used = {}
    /\ req = [r \in Reqs |-> Free] /\ redeemed = [t \in {} |-> 0] /\ evicted = {} /\ gone = {}

PurgeTypeOK ==
    /\ now \in 0 .. MaxClock
    /\ used \subseteq tokens \X Spellings /\ evicted \subseteq tokens \X Spellings
    /\ \A t \in tokens : t.scope \in Scopes /\ t.admin \in Admins /\ t.count \in Nat /\ t.exp <= now + TTL
    /\ \A r \in Reqs : /\ req[r].step \in {"none", "verify", "mark", "delete", "tap"}
                       /\ req[r].tok \in tokens \cup {Null} /\ req[r].text \in Spellings \cup {Null}

Sign(a, t) == [scope |-> t, admin |-> a, count |-> Count(t), exp |-> now + TTL]

PreviewPurgeActor(a, d) ==
    /\ proc = "up" /\ Spend("purge") /\ tokens' = tokens \cup {Sign(a, d)}
    /\ UNCHANGED <<tables, pub, ghosts, ingestVars, now, used, req, redeemed, evicted, gone>>

PreviewResetAll(a) ==
    /\ proc = "up" /\ Spend("purge") /\ tokens' = tokens \cup {Sign(a, ScopeResetAll)}
    /\ UNCHANGED <<tables, pub, ghosts, ingestVars, now, used, req, redeemed, evicted, gone>>

\* PurgeActor, ResetAll: requireAdmin, then the recount.
Request(r, tok, text) ==
    /\ proc = "up" /\ req[r].step = "none" /\ Spend("purge")
    /\ req' = [req EXCEPT ![r] = [step |-> "verify", tok |-> tok, text |-> text,
                                  count |-> Count(tok.scope), at |-> 0]]
    /\ UNCHANGED <<tables, pub, ghosts, ingestVars, now, tokens, used, redeemed, evicted, gone>>

\* What is left of S for one who read the time n.
UnexpiredAt(S, n) == {k \in S : n < k[1].exp}

\* VerifyReason up to the lock, for a caller who is admin a: the time is read, and a
\* wrong claim, a changed count or an expired token end the request.
Verify(r, a) ==
    /\ req[r].step = "verify"
    /\ LET t == req[r].tok
           ok == t.admin = a /\ t.count = req[r].count /\ now < t.exp
       IN req' = [req EXCEPT ![r] = IF ok THEN [@ EXCEPT !.step = "mark", !.at = now] ELSE Free]
    /\ UNCHANGED <<dbVars, ingestVars, now, tokens, used, redeemed, evicted, gone>>

Redeem(k) == [x \in DOMAIN redeemed \cup {k} |->
                   (IF x \in DOMAIN redeemed THEN redeemed[x] ELSE 0) + (IF x = k THEN 1 ELSE 0)]

\* Mutant: a token is looked up and not marked.
MarkNothing(r) ==
    /\ req[r].step = "mark"
    /\ LET k == <<req[r].tok, req[r].text>>
           left == UnexpiredAt(used, req[r].at)
           ok == k \notin left
       IN /\ used' = left
          /\ req' = [req EXCEPT ![r] = IF ok THEN [Free EXCEPT !.step = "delete", !.tok = k[1]] ELSE Free]
          /\ redeemed' = IF ok /\ now < k[1].exp THEN Redeem(k) ELSE redeemed
    /\ UNCHANGED <<dbVars, ingestVars, now, tokens, evicted, gone>>

\* The rest of VerifyReason, under the lock: what had expired at the time read before goes,
\* then the text is looked up and marked.
Mark(r) ==
    /\ req[r].step = "mark"
    /\ LET k == <<req[r].tok, req[r].text>>
           left == UnexpiredAt(used, req[r].at)
           ok == k \notin left
       IN /\ used' = left \cup {k}
          /\ req' = [req EXCEPT ![r] = IF ok THEN [Free EXCEPT !.step = "delete", !.tok = k[1]] ELSE Free]
          /\ redeemed' = IF ok /\ now < k[1].exp THEN Redeem(k) ELSE redeemed
    /\ UNCHANGED <<dbVars, ingestVars, now, tokens, evicted, gone>>

\* The transaction of PurgeActor; when it fails the token stays spent.
PurgeActor(r) ==
    /\ req[r].step = "delete" /\ req[r].tok.scope \in Dids
    /\ LET d == req[r].tok.scope IN
       \/ /\ Fine /\ req' = [req EXCEPT ![r].step = "tap"] /\ gone' = gone \cup {d}
          /\ record' = DeleteByDID(record, d) /\ actor' = [actor EXCEPT ![d] = NoRow]
       \/ Fault /\ req' = [req EXCEPT ![r] = Free] /\ UNCHANGED <<record, actor, gone>>
    /\ UNCHANGED <<activity, bulk, pub, ghosts, ingestVars, now, tokens, used, redeemed, evicted>>

\* That of ResetAll, for the tables of this model.
ResetAll(r) ==
    /\ req[r].step = "delete" /\ req[r].tok.scope = ScopeResetAll
    /\ req' = [req EXCEPT ![r] = Free]
    /\ \/ /\ Fine /\ gone' = Dids
          /\ record' = [u \in Uris |-> NoRow] /\ actor' = [d \in Dids |-> NoRow]
          /\ activity' = << >> /\ bulk' = {}
       \/ Fault /\ UNCHANGED <<tables, gone>>
    /\ UNCHANGED <<pub, ghosts, ingestVars, now, tokens, used, redeemed, evicted>>

\* tap.AdminClient.RemoveRepos, best effort.
RemoveRepos(r) ==
    /\ req[r].step = "tap" /\ req' = [req EXCEPT ![r] = Free]
    /\ \/ Fine /\ tracked' = tracked \ {req[r].tok.scope}
       \/ Fault /\ UNCHANGED tracked
    /\ UNCHANGED <<tables, pub, ghosts, proc, conn, acked, sent, disp, boot, missed,
                   now, tokens, used, redeemed, evicted, gone>>

\* The sweeper: expired entries go, and any others above the cap.  (It also reads the
\* time before it takes the lock; an older time keeps more.)
SweepExpired ==
    /\ proc = "up"
    /\ LET left == UnexpiredAt(used, now) IN
       \E keep \in SUBSET left :
          /\ Cardinality(keep) = (IF Cardinality(left) > MaxUsedSigs THEN MaxUsedSigs ELSE Cardinality(left))
          /\ keep # used
          /\ used' = keep /\ evicted' = evicted \cup (left \ keep)
    /\ UNCHANGED <<dbVars, ingestVars, now, tokens, req, redeemed, gone>>

Tick ==
    /\ now < MaxClock /\ (\E t \in tokens : now < t.exp) /\ now' = now + 1
    /\ UNCHANGED <<dbVars, ingestVars, tokens, used, req, redeemed, evicted, gone>>

\* The part of a crash that concerns this module: what is in memory is gone.
CrashPurge ==
    /\ used' = {} /\ req' = [r \in Reqs |-> Free]
    /\ redeemed' = [t \in {} |-> 0] /\ evicted' = {}
    /\ UNCHANGED <<now, tokens, gone>>

PurgeNext ==
    \/ \E a \in Admins : PreviewResetAll(a) \/ \E d \in Dids : PreviewPurgeActor(a, d)
    \/ \E r \in Reqs : \/ \E tok \in tokens, text \in Spellings : Request(r, tok, text)
                       \/ \E a \in Admins : Verify(r, a)
                       \/ Mark(r) \/ PurgeActor(r) \/ ResetAll(r) \/ RemoveRepos(r)
    \/ SweepExpired \/ Tick
=============================================================================
