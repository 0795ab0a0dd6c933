---------------------------- MODULE OAuthProofs ----------------------------
(***************************************************************************)
(* What OAuth promises, proved: a DPoP proof is accepted once, a service   *)
(* token again only after its entry was lost, a grant that was answered is *)
(* of no use to a request that looks it up later, rotation strands nobody, *)
(* and a DID document is as fresh as the cache says.                       *)
(*                                                                         *)
(* The components share nothing but the clock, so each has an inductive    *)
(* invariant of its own, kept by its own steps, by the clock's and by a    *)
(* crash.                                                                  *)
(***************************************************************************)
EXTENDS OAuth, FiniteSetTheorems, NaturalsInduction, WellFoundedInduction, TLAPS

ClockType == now \in 0 .. MaxTime

-----------------------------------------------------------------------------
(* The DID cache.                                                          *)

\* When version v was replaced, if rep has the times of replacement and it is t now.
Until(rep, t, v) == IF v <= Len(rep) THEN rep[v] ELSE t

Waiting == {"invalidate", "lookup", "resolve"}
CallerStates == {"idle", "wait", "done"} \cup Waiting

HistoryType == replaced \in [Dids -> Seq(Nat)]
\* An entry holds a document that was current Timeout before it was put.
EntrySound(d, e) ==
    /\ e \in [doc : 1 .. Current(d), expires : Int] /\ e.expires <= now + CacheTTL
    /\ Until(replaced[d], now, e.doc) >= e.expires - CacheTTL - Timeout
CacheSound == DOMAIN cache = Dids /\ \A d \in Dids : cache[d] # Null => EntrySound(d, cache[d])

\* A flight returns a document that was current when it set out or later.
FlightOf(d, f) ==
    /\ f \in [at : {"sent", "reply", "landed"}, doc : 1 .. Current(d) \cup {Null}, since : Nat]
    /\ f.since <= now /\ now <= f.since + Timeout
    /\ f.doc # Null => Until(replaced[d], now, f.doc) >= f.since
FlightSound == DOMAIN flight = Dids /\ \A d \in Dids : flight[d] # Null => FlightOf(d, flight[d])

\* What a caller may still get: time stands still while it is under way, and who
\* bypasses the cache finds nothing there, or what was put just now.
CallerOf(r) ==
    /\ r \in [at : CallerStates, did : Dids \cup {Null}, fresh : BOOLEAN, asked : Nat, doc : Nat \cup {Null}]
    /\ r.asked <= now
    /\ r.at # "idle" => r.did \in Dids
    /\ r.at \in Waiting => r.asked = now
    /\ r.fresh /\ r.at = "lookup" =>
          cache[r.did] = Null \/ cache[r.did].expires = now + CacheTTL
    /\ r.at = "wait" => flight[r.did] # Null /\ flight[r.did].since >= r.asked - Timeout
    /\ r.at = "done" /\ r.doc # Null =>
          /\ r.doc \in 1 .. Current(r.did)
          /\ Until(replaced[r.did], now, r.doc) >= r.asked - (IF r.fresh THEN 0 ELSE CacheTTL) - Timeout
CallersSound == DOMAIN caller = Callers /\ \A c \in Callers : CallerOf(caller[c])

DIDInv == HistoryType /\ CacheSound /\ FlightSound /\ CallersSound

-----------------------------------------------------------------------------
(* The replay cache of service tokens.                                     *)

\* A token that passed has its entry, or lost it, or has expired.
ServiceInv ==
    /\ IsFiniteSet(DOMAIN entries) /\ Cardinality(DOMAIN entries) <= Capacity
    /\ \A k \in DOMAIN entries : entries[k] \in Nat
    /\ Entered(entries) \subseteq DOMAIN passed /\ forgot \cap Entered(entries) = {}
    /\ \A p \in DOMAIN passed :
          /\ p = <<p[1], p[2]>> /\ p[2] \in Nat /\ passed[p] \in Nat
          /\ p \in Entered(entries) \cup forgot \/ now >= p[2]

-----------------------------------------------------------------------------
(* The OAuth server: the invariant.                                        *)

codes == db.authCodes
tokens == db.refreshTokens

Tables == {"clients", "authRequests", "atpRequests", "atpSessions", "authCodes", "accessTokens", "refreshTokens",
           "dpopJTIs", "parRequests"}
CodeColumns == {"client", "session", "redirect", "challenge", "expires", "used"}
TokenColumns == {"client", "session", "jkt", "original", "expires", "revoked"}
RequestFields == {"kind", "pc", "in", "grant", "row", "key", "id"}

\* Keys are random identifiers that were drawn.
Drawn == 0 .. fresh - 1
KeyType ==
    /\ fresh \in Nat
    /\ known \subseteq {"code", "at", "rt"} \X Drawn
    /\ DOMAIN codes \subseteq {"code"} \X Drawn /\ DOMAIN tokens \subseteq {"rt"} \X Drawn
    /\ \A c \in DOMAIN codes : DOMAIN codes[c] = CodeColumns /\ codes[c].used \in BOOLEAN
    /\ \A t \in DOMAIN tokens : DOMAIN tokens[t] = TokenColumns /\ tokens[t].revoked \in BOOLEAN
StoreType == DOMAIN db = Tables /\ KeyType

\* Tokens refer to clients that exist.
Referred(d) ==
    /\ \A t \in DOMAIN d.accessTokens :
          "client" \in DOMAIN d.accessTokens[t] /\ d.accessTokens[t].client \in DOMAIN d.clients
    /\ \A t \in DOMAIN d.refreshTokens :
          "client" \in DOMAIN d.refreshTokens[t] /\ d.refreshTokens[t].client \in DOMAIN d.clients

\* A request's identifier is its own, and names nothing that a client knows yet.
RequestType ==
    /\ DOMAIN req = Slots
    /\ \A s \in Slots :
          /\ DOMAIN req[s] = RequestFields
          /\ ~Free(s) => /\ req[s].kind \in DOMAIN Order /\ req[s].pc \in 1 .. Len(Order[req[s].kind])
                         /\ req[s].id \in Drawn /\ \A x \in known : x[2] # req[s].id
                         /\ \A x \in Slots \ {s} : ~Free(x) => req[x].id # req[s].id
          /\ req[s].kind \in {"code", "refresh", "revoke"} => req[s].grant \in known
          /\ req[s].kind \in {"code", "refresh"} => req[s].in \in TokenParams
          /\ req[s].kind = "use" => req[s].in \in UseParams

\* A grant that can no longer be redeemed.
Dead(g) == (g \in DOMAIN codes => codes[g].used) /\ (g \in DOMAIN tokens => tokens[g].revoked)

\* A pair of tokens is answered only for a dead grant, and then nobody redeems it but
\* who has already read it.
GrantsDead ==
    \A s \in Slots : LET r == req[s] IN
       /\ r.kind = "code" /\ r.pc >= 2 => r.grant[1] = "code" /\ (r.pc >= 4 => Dead(r.grant))
       /\ r.kind = "refresh" /\ r.pc >= 2 => r.grant[1] = "rt" /\ (r.pc >= 6 => Dead(r.grant))
IssuedOnce ==
    \A g \in DOMAIN issued :
       /\ g \in known /\ Dead(g) /\ issued[g].pairs \subseteq issued[g].early
       /\ \A s \in Redeeming(g) : req[s].id \in issued[g].early

\* A request that stored its refresh token has it, in the session of its grant, unless
\* the session was ended.
HasStored(r) == (r.kind = "code" /\ r.pc >= 6) \/ (r.kind = "refresh" /\ r.pc >= 5)
Rotations ==
    \A s \in Slots : LET r == req[s]
                         t == <<"rt", req[s].id>> IN
       /\ r.kind = "refresh" /\ r.pc >= 2 /\ r.grant \in DOMAIN tokens => tokens[r.grant].session = r.row.session
       /\ HasStored(r) => /\ t \in DOMAIN tokens => tokens[t].session = r.row.session /\ ~tokens[t].revoked
                          /\ t \in DOMAIN tokens \/ r.row.session \in ended

\* NeverStranded, with the requests that are about to answer spelled out.
Answering(s) == req[s].kind \in {"code", "refresh"} /\ req[s].pc = 6
Reaches(u) == u \in known \/ \E s \in Slots : Answering(s) /\ u = <<"rt", req[s].id>>
Served ==
    \A t \in DOMAIN tokens : t \in known /\ tokens[t].session \notin ended \cup lost =>
       \E u \in DOMAIN tokens : tokens[u].session = tokens[t].session /\ ~tokens[u].revoked /\ Reaches(u)

ServerInv == StoreType /\ RequestType /\ GrantsDead /\ IssuedOnce /\ Rotations /\ Served

\* A proof that was accepted has its row, or is too old for VerifyDPoPProof.
jtis == db.dpopJTIs
CleanType == clean \in [at : 0 .. 5, now : Nat] /\ clean.now <= now
ProofsInv ==
    /\ CleanType /\ \A j \in DOMAIN jtis : jtis[j] \in Int
    /\ \A a \in DOMAIN accepted :
          /\ a = <<a[1], a[2]>> /\ a[2] \in Int /\ accepted[a] = 1
          /\ (a[1] \in DOMAIN jtis /\ jtis[a[1]] = a[2]) \/ now - a[2] > MaxAge

-----------------------------------------------------------------------------
(* What a step of the server does to requests, codes and refresh tokens.   *)

Same(s) == DOMAIN req' = Slots /\ \A x \in Slots \ {s} : req'[x] = req[x]
Ends(s) == ~Free(s) /\ Same(s) /\ req'[s] = NoRequest
Goes(s) ==
    /\ ~Free(s) /\ Same(s) /\ DOMAIN req'[s] = RequestFields
    /\ req'[s].kind = req[s].kind /\ req'[s].grant = req[s].grant /\ req'[s].id = req[s].id
    /\ req'[s].in = req[s].in
    /\ req[s].pc < Len(Order[req[s].kind]) /\ req'[s].pc = req[s].pc + 1
SameRow(s) == req'[s].row = req[s].row

\* Rows go, the sessions of lost refresh tokens with them; a number is drawn or not.
Housekeeping ==
    /\ UNCHANGED <<req, known, issued, lost>> /\ fresh' \in {fresh, fresh + 1}
    /\ DOMAIN codes' \subseteq DOMAIN codes /\ \A c \in DOMAIN codes' : codes'[c] = codes[c]
    /\ DOMAIN tokens' \subseteq DOMAIN tokens /\ \A t \in DOMAIN tokens' : tokens'[t] = tokens[t]
    /\ ended \subseteq ended' /\ \A t \in DOMAIN tokens \ DOMAIN tokens' : tokens[t].session \in ended'

Arrives(s) ==
    /\ Free(s) /\ Same(s) /\ DOMAIN req'[s] = RequestFields
    /\ req'[s].kind \in DOMAIN Order /\ req'[s].pc = 1 /\ req'[s].id = fresh /\ fresh' = fresh + 1
    /\ req'[s].kind \in {"code", "refresh", "revoke"} => req'[s].grant \in known
    /\ req'[s].kind \in {"code", "refresh"} => req'[s].in \in TokenParams
    /\ req'[s].kind = "use" => req'[s].in \in UseParams
    /\ UNCHANGED <<codes, tokens, known, issued, ended, lost>>

Quiet == UNCHANGED <<known, issued, ended, lost, fresh>>

Plain(s) ==
    /\ Quiet /\ UNCHANGED <<codes, tokens>> /\ ~Answering(s)
    /\ \/ Ends(s)
       \/ /\ Goes(s)
          /\ req[s].kind = "code" => req[s].pc \in {2, 4} /\ SameRow(s)
          /\ req[s].kind = "refresh" => req[s].pc \in {2, 3} /\ SameRow(s)

ReadsGrant(s) ==
    /\ Quiet /\ UNCHANGED <<codes, tokens>> /\ Goes(s) /\ req[s].pc = 1
    /\ LET g == req[s].grant IN
       \/ req[s].kind = "code" /\ g \in DOMAIN codes /\ ~codes[g].used
       \/ /\ req[s].kind = "refresh" /\ g \in DOMAIN tokens /\ ~tokens[g].revoked
          /\ req'[s].row = tokens[g]

StoresCode(s) ==
    /\ Quiet /\ UNCHANGED tokens /\ Goes(s) /\ req[s].kind = "callback"
    /\ \E row : /\ codes' = With(codes, <<"code", req[s].id>>, row)
                /\ DOMAIN row = CodeColumns /\ row.used = FALSE

Marks(s) ==
    /\ Quiet /\ UNCHANGED tokens /\ Goes(s) /\ SameRow(s) /\ req[s].kind = "code" /\ req[s].pc = 3
    /\ codes' = IF req[s].grant \in DOMAIN codes THEN [codes EXCEPT ![req[s].grant].used = TRUE] ELSE codes

StoresToken(s) ==
    /\ Quiet /\ UNCHANGED codes /\ Goes(s) /\ SameRow(s)
    /\ <<req[s].kind, req[s].pc>> \in {<<"code", 5>>, <<"refresh", 4>>}
    /\ \E row : /\ tokens' = With(tokens, <<"rt", req[s].id>>, row)
                /\ DOMAIN row = TokenColumns /\ row.session = req[s].row.session /\ row.revoked = FALSE

Revoked(t) == IF t \in DOMAIN tokens THEN [tokens EXCEPT ![t].revoked = TRUE] ELSE tokens

Rotates(s) ==
    /\ Quiet /\ UNCHANGED codes /\ Goes(s) /\ SameRow(s) /\ req[s].kind = "refresh" /\ req[s].pc = 5
    /\ tokens' = Revoked(req[s].grant)

EndsSession(s) ==
    /\ UNCHANGED <<codes, known, issued, lost, fresh>> /\ Ends(s) /\ req[s].kind = "revoke"
    /\ tokens' \in {tokens, Revoked(req[s].grant)}
    /\ ended' = ended \cup {tokens[t].session : t \in DOMAIN tokens \cap {req[s].grant}}

Answers(s) ==
    /\ UNCHANGED <<codes, tokens, fresh, ended>> /\ Ends(s)
    /\ req[s].kind \in {"code", "refresh"} /\ req[s].pc = 6 /\ issued' = Issue(s)
    /\ \/ known' = known \cup {<<"at", req[s].id>>, <<"rt", req[s].id>>} /\ UNCHANGED lost
       \/ lost' = lost \cup {req[s].row.session} /\ UNCHANGED known

Redirects(s) ==
    /\ UNCHANGED <<codes, tokens, fresh, issued, ended, lost>> /\ Ends(s) /\ req[s].kind = "callback"
    /\ known' = known \cup {<<"code", req[s].id>>}

Effect ==
    \/ Housekeeping
    \/ \E s \in Slots : \/ Arrives(s) \/ Plain(s) \/ ReadsGrant(s) \/ StoresCode(s) \/ Marks(s) \/ StoresToken(s)
                        \/ Rotates(s) \/ EndsSession(s) \/ Answers(s) \/ Redirects(s)

-----------------------------------------------------------------------------
(* The DID cache: proofs.                                                  *)

\* A version is not replaced earlier because time passes or a newer one appears.
LEMMA UntilGrows ==
    ASSUME NEW rep \in Seq(Nat), NEW t \in Nat, NEW u \in Nat, t <= u, NEW v \in 1 .. Len(rep) + 1
    PROVE  /\ Until(rep, t, v) \in Nat /\ Until(rep, u, v) >= Until(rep, t, v)
           /\ Append(rep, t) \in Seq(Nat) /\ Len(Append(rep, t)) = Len(rep) + 1
           /\ Until(Append(rep, t), t, v) = Until(rep, t, v)
  BY DEF Until

\* parseDIDDocument hands on the document that came.
LEMMA Resolved ==
    ASSUME NEW d, NEW a \in DocAnswers, NEW v
    PROVE  ResolveDID(d, [a EXCEPT !.doc = v]) \in {v, Null}
<1>1. [a EXCEPT !.doc = v].doc = v
  BY DIDCacheAssumption
<1> QED
  BY <1>1 DEF ResolveDID, resolvePLCDID, resolveWebDID, parseDIDDocument

\* ChangeDocument and the clock: nothing becomes older than it was.
LEMMA DIDTime ==
    ASSUME DIDInv, ClockType, now' \in Nat, UNCHANGED <<cache, flight, caller>>,
           \/ now' = now + 1 /\ DIDCacheSettled /\ UNCHANGED replaced
           \/ now' = now /\ \E d \in Dids : replaced' = [replaced EXCEPT ![d] = Append(@, now)]
    PROVE  DIDInv'
<1> USE DIDCacheAssumption
<1>n. now \in Nat /\ now <= now'
  BY IdentityAssumption DEF ClockType
<1>1. HistoryType' /\ \A d \in Dids : Len(replaced'[d]) \in Nat /\ Len(replaced'[d]) >= Len(replaced[d])
                                      /\ Len(replaced[d]) \in Nat
  <2>1. replaced \in [Dids -> Seq(Nat)]
    BY DEF DIDInv, HistoryType
  <2>2. CASE UNCHANGED replaced
    <3>1. \A d \in Dids : replaced[d] \in Seq(Nat) /\ Len(replaced[d]) \in Nat
      BY <2>1
    <3> QED
      BY <2>1, <2>2, <3>1 DEF HistoryType
  <2>4. \A e \in Dids : Len(replaced[e]) \in Nat
    <3>1. \A e \in Dids : replaced[e] \in Seq(Nat)
      BY <2>1
    <3> QED
      BY <3>1
  <2>3. ASSUME NEW d \in Dids, replaced' = [replaced EXCEPT ![d] = Append(@, now)]
        PROVE  /\ replaced' \in [Dids -> Seq(Nat)]
               /\ \A e \in Dids : Len(replaced'[e]) \in Nat /\ Len(replaced'[e]) >= Len(replaced[e])
    <3>1. replaced[d] \in Seq(Nat) /\ Append(replaced[d], now) \in Seq(Nat)
          /\ Len(Append(replaced[d], now)) = Len(replaced[d]) + 1
      BY <1>n, <2>1
    <3> QED
      BY <2>1, <2>3, <3>1
  <2> QED
    BY <2>2, <2>3, <2>4 DEF HistoryType
<1>2. \A d \in Dids : \A v \in 1 .. Len(replaced[d]) + 1 :
          /\ v \in 1 .. Len(replaced'[d]) + 1 /\ Until(replaced[d], now, v) \in Nat
          /\ Until(replaced'[d], now', v) \in Nat
          /\ Until(replaced'[d], now', v) >= Until(replaced[d], now, v)
  <2> SUFFICES ASSUME NEW d \in Dids, NEW v \in 1 .. Len(replaced[d]) + 1
               PROVE  /\ v \in 1 .. Len(replaced'[d]) + 1 /\ Until(replaced[d], now, v) \in Nat
                      /\ Until(replaced'[d], now', v) \in Nat
                      /\ Until(replaced'[d], now', v) >= Until(replaced[d], now, v)
    OBVIOUS
  <2>1. replaced[d] \in Seq(Nat)
    BY DEF DIDInv, HistoryType
  <2>2. replaced'[d] = replaced[d] \/ (now' = now /\ replaced'[d] = Append(replaced[d], now))
    BY DEF DIDInv, HistoryType
  <2>3. CASE replaced'[d] = replaced[d]
    BY <1>n, <2>1, <2>3, UntilGrows
  <2>4. CASE now' = now /\ replaced'[d] = Append(replaced[d], now)
    BY <1>n, <1>1, <2>1, <2>4, UntilGrows
  <2> QED
    BY <2>2, <2>3, <2>4
<1>3. CacheSound'
  <2> SUFFICES ASSUME NEW d \in Dids, cache[d] # Null PROVE EntrySound(d, cache[d])'
    BY DEF CacheSound, DIDInv
  <2>1. EntrySound(d, cache[d])
    BY DEF CacheSound, DIDInv
  <2>2. cache[d].doc \in 1 .. Len(replaced[d]) + 1 /\ cache[d].expires \in Int
    BY <2>1 DEF EntrySound, Current
  <2>3. /\ cache[d].doc \in 1 .. Len(replaced'[d]) + 1
        /\ Until(replaced'[d], now', cache[d].doc) >= cache[d].expires - CacheTTL - Timeout
    BY <1>2, <2>1, <2>2 DEF EntrySound
  <2> QED
    BY <1>n, <2>1, <2>2, <2>3 DEF EntrySound, Current
<1>4. FlightSound'
  <2> SUFFICES ASSUME NEW d \in Dids, flight[d] # Null PROVE FlightOf(d, flight[d])'
    BY DEF FlightSound, DIDInv
  <2>1. FlightOf(d, flight[d])
    BY DEF FlightSound, DIDInv
  <2>2. now' <= flight[d].since + Timeout
    BY <1>n, <2>1 DEF FlightOf, DIDCacheSettled
  <2> QED
    BY <1>n, <1>1, <1>2, <2>1, <2>2 DEF FlightOf, Current
<1>5. CallersSound'
  <2> SUFFICES ASSUME NEW c \in Callers PROVE CallerOf(caller[c])'
    BY DEF CallersSound, DIDInv
  <2>1. CallerOf(caller[c])
    BY DEF CallersSound, DIDInv
  <2>2. caller[c].at \in Waiting => now' = now
    BY DEF DIDCacheSettled, Waiting
  <2>3. caller[c].at = "done" /\ caller[c].doc # Null =>
          /\ caller[c].did \in Dids /\ caller[c].doc \in 1 .. Len(replaced'[caller[c].did]) + 1
          /\ Until(replaced'[caller[c].did], now', caller[c].doc)
               >= caller[c].asked - (IF caller[c].fresh THEN 0 ELSE CacheTTL) - Timeout
    BY <1>n, <1>2, <2>1 DEF CallerOf, Current
  <2> QED
    BY <1>n, <2>1, <2>2, <2>3 DEF CallerOf, Current, Waiting
<1> QED
  BY <1>1, <1>3, <1>4, <1>5 DEF DIDInv

\* Steps that touch one entry, one flight and one caller.
LEMMA DIDKept ==
    ASSUME DIDInv, UNCHANGED <<now, replaced>>,
           DOMAIN cache' = Dids, DOMAIN flight' = Dids, DOMAIN caller' = Callers,
           \A d \in Dids : cache'[d] \in {cache[d], Null} \/ EntrySound(d, cache'[d]),
           \A d \in Dids : flight'[d] \in {flight[d], Null} \/ FlightOf(d, flight'[d]),
           (\A c \in Callers : CallerOf(caller[c]))'
    PROVE  DIDInv'
<1>1. HistoryType'
  BY DEF DIDInv, HistoryType
<1>2. \A d \in Dids : \A e : EntrySound(d, e)' <=> EntrySound(d, e)
  BY DEF EntrySound, Current
<1>3. \A d \in Dids : \A f : FlightOf(d, f)' <=> FlightOf(d, f)
  BY DEF FlightOf, Current
<1>4. CacheSound' /\ FlightSound'
  BY <1>2, <1>3 DEF DIDInv, CacheSound, FlightSound
<1> QED
  BY <1>1, <1>4 DEF DIDInv, CallersSound

LEMMA DIDStep ==
    ASSUME DIDInv, ClockType, DIDCacheNext, UNCHANGED now
    PROVE  DIDInv'
<1> USE DIDCacheAssumption DEF Goto
<1>n. now \in Nat /\ DOMAIN cache = Dids /\ DOMAIN flight = Dids /\ DOMAIN caller = Callers
  BY IdentityAssumption DEF ClockType, DIDInv, CacheSound, FlightSound, CallersSound
<1>c. \A c \in Callers : CallerOf(caller[c])
  BY DEF DIDInv, CallersSound
<1>e. \A d \in Dids : cache[d] # Null => EntrySound(d, cache[d])
  BY DEF DIDInv, CacheSound
<1>f. \A d \in Dids : flight[d] # Null => FlightOf(d, flight[d])
  BY DEF DIDInv, FlightSound
<1>r. \A d \in Dids : replaced[d] \in Seq(Nat) /\ Current(d) \in Nat /\ Current(d) = Len(replaced[d]) + 1
  BY DEF DIDInv, HistoryType, Current
<1>u. \A d \in Dids : \A v \in 1 .. Current(d) : v \in Nat /\ Until(replaced[d], now, v) \in Nat
  <2> TAKE d \in Dids
  <2> TAKE v \in 1 .. Current(d)
  <2>1. replaced[d] \in Seq(Nat) /\ v \in 1 .. Len(replaced[d]) + 1 /\ v \in Nat
    BY <1>r
  <2> QED
    BY <1>n, <2>1, UntilGrows
\* A caller that a step leaves alone, with the entry and the flight it may depend on.
<1>s. ASSUME UNCHANGED replaced, NEW c \in Callers, caller'[c] = caller[c],
             caller[c].at = "lookup" =>
                cache'[caller[c].did] \in {cache[caller[c].did], Null} \/ cache'[caller[c].did].expires = now + CacheTTL,
             caller[c].at = "wait" =>
                flight'[caller[c].did] # Null /\ flight'[caller[c].did].since = flight[caller[c].did].since
      PROVE  CallerOf(caller[c])'
  BY <1>c, <1>s DEF CallerOf, Current
<1>1. ASSUME NEW c \in Callers, NEW d \in Dids, NEW b \in BOOLEAN, GetWithInvalidate(c, d, b) PROVE DIDInv'
  <2>1. caller'[c] = [at |-> IF b THEN "invalidate" ELSE "lookup", did |-> d, fresh |-> b, asked |-> now, doc |-> Null]
        /\ \A x \in Callers \ {c} : caller'[x] = caller[x]
    BY <1>1, <1>n DEF GetWithInvalidate
  <2>2. CallerOf(caller[c])'
    BY <1>1, <1>n, <2>1 DEF GetWithInvalidate, CallerOf, CallerStates, Waiting
  <2>3. \A x \in Callers \ {c} : CallerOf(caller[x])'
    <3> TAKE x \in Callers \ {c}
    <3>1. CallerOf(caller[x]) /\ caller'[x] = caller[x] /\ UNCHANGED <<cache, flight, replaced>>
      BY <1>1, <1>c, <2>1 DEF GetWithInvalidate
    <3> QED
      BY <3>1, <1>s DEF CallerOf
  <2> QED
    BY <1>1, <1>n, <2>2, <2>3, DIDKept DEF GetWithInvalidate
<1>2. ASSUME NEW c \in Callers, RetryFresh(c) PROVE DIDInv'
  <2>1. caller[c].did \in Dids
    BY <1>2, <1>c DEF RetryFresh, CallerOf
  <2> QED
    BY <1>1, <1>2, <2>1 DEF RetryFresh
<1>3. ASSUME NEW c \in Callers, Invalidate(c) PROVE DIDInv'
  <2>0. CallerOf(caller[c]) /\ caller[c].at = "invalidate" /\ caller[c].did \in Dids
    BY <1>3, <1>c DEF Invalidate, CallerOf
  <2>1. /\ caller'[c] = [caller[c] EXCEPT !.at = "lookup"] /\ \A x \in Callers \ {c} : caller'[x] = caller[x]
        /\ cache'[caller[c].did] = Null /\ \A d \in Dids : cache'[d] \in {cache[d], Null}
        /\ UNCHANGED <<flight, replaced>> /\ DOMAIN cache' = Dids /\ DOMAIN caller' = Callers
    BY <1>3, <1>n, <2>0 DEF Invalidate
  <2>2. CallerOf(caller[c])'
    BY <2>0, <2>1 DEF CallerOf, CallerStates, Waiting
  <2>3. \A x \in Callers \ {c} : CallerOf(caller[x])'
    <3> TAKE x \in Callers \ {c}
    <3>1. CallerOf(caller[x])
      BY <1>c
    <3> QED
      BY <2>1, <3>1, <1>s DEF CallerOf
  <2> QED
    BY <1>n, <2>1, <2>2, <2>3, DIDKept
<1>4. ASSUME NEW c \in Callers, ReadEntry(c) PROVE DIDInv'
  <2>0. CallerOf(caller[c]) /\ caller[c].at = "lookup" /\ caller[c].did \in Dids
    BY <1>4, <1>c DEF ReadEntry, CallerOf
  <2> DEFINE d == caller[c].did
  <2>1. /\ \/ caller'[c] = [caller[c] EXCEPT !.at = "resolve"]
           \/ /\ cache[d] # Null /\ now <= cache[d].expires
              /\ caller'[c] = [caller[c] EXCEPT !.at = "done", !.doc = cache[d].doc]
        /\ \A x \in Callers \ {c} : caller'[x] = caller[x]
        /\ UNCHANGED <<cache, flight, replaced>> /\ DOMAIN caller' = Callers
    <3>1. cache[d] # Null => cache[d].expires \in Int
      BY <1>e, <2>0 DEF EntrySound
    <3>2. CASE cache[d] # Null /\ ~CacheIsExpired(cache[d])
      <4>1. now <= cache[d].expires
        BY <1>n, <3>1, <3>2 DEF CacheIsExpired
      <4> QED
        BY <1>4, <1>n, <3>2, <4>1 DEF ReadEntry
    <3>3. CASE ~(cache[d] # Null /\ ~CacheIsExpired(cache[d]))
      BY <1>4, <1>n, <3>3 DEF ReadEntry
    <3> QED
      BY <3>2, <3>3
  <2>2. CallerOf(caller[c])'
    <3>1. CASE caller'[c] = [caller[c] EXCEPT !.at = "resolve"]
      BY <2>0, <2>1, <3>1 DEF CallerOf, CallerStates, Waiting
    <3>2. CASE /\ cache[d] # Null /\ now <= cache[d].expires
               /\ caller'[c] = [caller[c] EXCEPT !.at = "done", !.doc = cache[d].doc]
      <4>1. EntrySound(d, cache[d])
        BY <1>e, <2>0, <3>2
      <4>2. /\ cache[d].doc \in 1 .. Current(d) /\ cache[d].doc \in Nat
            /\ Until(replaced[d], now, cache[d].doc) \in Nat
        BY <1>u, <2>0, <4>1 DEF EntrySound
      <4>3. Until(replaced[d], now, cache[d].doc) >= caller[c].asked - (IF caller[c].fresh THEN 0 ELSE CacheTTL) - Timeout
        <5>1. cache[d].expires \in Int /\ cache[d].expires >= now /\ caller[c].asked = now
          BY <2>0, <3>2, <4>1 DEF EntrySound, CallerOf, Waiting
        <5>2. Until(replaced[d], now, cache[d].doc) >= cache[d].expires - CacheTTL - Timeout
          BY <4>1 DEF EntrySound
        <5>3. caller[c].fresh => cache[d].expires = now + CacheTTL
          BY <2>0, <3>2 DEF CallerOf
        <5> QED
          BY <1>n, <4>2, <5>1, <5>2, <5>3
      <4> HIDE DEF d
      <4>4. /\ caller'[c].at = "done" /\ caller'[c].doc = cache[d].doc /\ caller'[c].did = d
            /\ caller'[c].fresh = caller[c].fresh /\ caller'[c].asked = caller[c].asked
            /\ caller'[c] \in [at : CallerStates, did : Dids \cup {Null}, fresh : BOOLEAN, asked : Nat, doc : Nat \cup {Null}]
            /\ d \in Dids /\ caller[c].asked <= now
        BY <2>0, <3>2, <4>2 DEF CallerOf, CallerStates, d
      <4> QED
        BY <2>1, <4>2, <4>3, <4>4 DEF CallerOf, Waiting, Current
    <3> QED
      BY <2>1, <3>1, <3>2
  <2>3. \A x \in Callers \ {c} : CallerOf(caller[x])'
    <3> TAKE x \in Callers \ {c}
    <3>1. CallerOf(caller[x])
      BY <1>c
    <3> QED
      BY <2>1, <3>1, <1>s DEF CallerOf
  <2> QED
    BY <1>n, <2>1, <2>2, <2>3, DIDKept
<1>5. ASSUME NEW c \in Callers, ResolveFresh(c) PROVE DIDInv'
  <2>0. CallerOf(caller[c]) /\ caller[c].at = "resolve" /\ caller[c].did \in Dids /\ caller[c].asked = now
    BY <1>5, <1>c DEF ResolveFresh, CallerOf, Waiting
  <2> DEFINE d == caller[c].did
  <2>1. /\ caller'[c] = [caller[c] EXCEPT !.at = "wait"] /\ \A x \in Callers \ {c} : caller'[x] = caller[x]
        /\ flight'[d] = IF flight[d] = Null THEN [at |-> "sent", doc |-> Null, since |-> now] ELSE flight[d]
        /\ \A e \in Dids \ {d} : flight'[e] = flight[e]
        /\ UNCHANGED <<cache, replaced>> /\ DOMAIN flight' = Dids /\ DOMAIN caller' = Callers
    BY <1>5, <1>n, <2>0 DEF ResolveFresh
  <2>2. flight'[d] = flight[d] \/ FlightOf(d, flight'[d])
    BY <1>n, <1>r, <2>0, <2>1 DEF FlightOf
  <2>3. /\ flight'[d].since \in Nat /\ flight'[d].since >= now - Timeout
        /\ flight[d] # Null => flight'[d] = flight[d]
    <3>1. CASE flight[d] = Null
      BY <1>n, <2>1, <3>1
    <3>2. CASE flight[d] # Null
      BY <1>n, <1>f, <2>0, <2>1, <3>2 DEF FlightOf
    <3> QED
      BY <3>1, <3>2
  <2>6. flight'[d] # Null
    <3>1. FlightOf(d, flight'[d])
      BY <1>f, <2>0, <2>1, <2>2, <1>n, <1>r DEF FlightOf
    <3> QED
      BY <3>1, <1>r, <2>0 DEF FlightOf
  <2>4. CallerOf(caller[c])'
    BY <1>n, <2>0, <2>1, <2>3, <2>6 DEF CallerOf, CallerStates, Waiting
  <2>5. \A x \in Callers \ {c} : CallerOf(caller[x])'
    <3> TAKE x \in Callers \ {c}
    <3>1. CallerOf(caller[x])
      BY <1>c
    <3>2. caller[x].at = "wait" => flight[caller[x].did] # Null /\ caller[x].did \in Dids
      BY <3>1 DEF CallerOf
    <3>3. caller[x].at = "wait" => flight'[caller[x].did] = flight[caller[x].did]
      BY <3>2, <2>1, <2>3
    <3> QED
      BY <2>1, <3>1, <3>2, <3>3, <1>s
  <2> QED
    BY <1>n, <2>1, <2>2, <2>4, <2>5, DIDKept
<1>6. ASSUME NEW d \in Dids, Serve(d) PROVE DIDInv'
  <2>0. FlightOf(d, flight[d]) /\ flight[d] # Null
    BY <1>6, <1>f DEF Serve
  <2>1. PICK a \in DocAnswers :
           flight' = [flight EXCEPT ![d].at = "reply", ![d].doc = ResolveDID(d, [a EXCEPT !.doc = Current(d)])]
    BY <1>6 DEF Serve
  <2>2. PICK v \in {Current(d), Null} : flight' = [flight EXCEPT ![d].at = "reply", ![d].doc = v]
    BY <2>1, Resolved
  <2>3. /\ flight'[d] = [flight[d] EXCEPT !.at = "reply", !.doc = v]
        /\ \A e \in Dids \ {d} : flight'[e] = flight[e]
        /\ UNCHANGED <<cache, caller, replaced>> /\ DOMAIN flight' = Dids
    BY <1>6, <1>n, <2>2 DEF Serve
  <2>4. FlightOf(d, flight'[d]) /\ flight'[d].since = flight[d].since
    <3>1. v # Null => v \in 1 .. Current(d) /\ Until(replaced[d], now, v) = now
      BY <1>r, <2>2 DEF Current, Until
    <3> QED
      BY <1>n, <1>r, <2>0, <2>2, <2>3, <3>1 DEF FlightOf
  <2>5. flight'[d] # Null
    BY <1>r, <2>4 DEF FlightOf
  <2> HIDE DEF FlightOf
  <2>6. \A x \in Callers : CallerOf(caller[x])'
    <3> TAKE x \in Callers
    <3>1. CallerOf(caller[x])
      BY <1>c
    <3>2. caller[x].at = "wait" => caller[x].did \in Dids /\ flight[caller[x].did] # Null
      BY <3>1 DEF CallerOf
    <3>3. caller[x].at = "wait" =>
             flight'[caller[x].did] # Null /\ flight'[caller[x].did].since = flight[caller[x].did].since
      BY <3>2, <2>3, <2>4, <2>5
    <3> QED
      BY <2>3, <3>1, <3>3, <1>s
  <2> QED
    BY <1>n, <2>3, <2>4, <2>6, DIDKept
<1>7. ASSUME NEW d \in Dids, Put(d) PROVE DIDInv'
  <2>0. FlightOf(d, flight[d]) /\ flight[d] # Null
    BY <1>7, <1>f DEF Put
  <2>1. /\ flight'[d] = [flight[d] EXCEPT !.at = "landed"] /\ \A e \in Dids \ {d} : flight'[e] = flight[e]
        /\ cache'[d] = cache[d] \/ (flight[d].doc # Null /\ cache'[d] = [doc |-> flight[d].doc, expires |-> now + CacheTTL])
        /\ \A e \in Dids \ {d} : cache'[e] = cache[e]
        /\ UNCHANGED <<caller, replaced>> /\ DOMAIN flight' = Dids /\ DOMAIN cache' = Dids
    BY <1>7, <1>n DEF Put, PutWithTTL
  <2>2. FlightOf(d, flight'[d]) /\ flight'[d].since = flight[d].since
    BY <2>0, <2>1 DEF FlightOf
  <2>3. flight'[d] # Null
    BY <1>r, <2>2 DEF FlightOf
  <2>4. cache'[d] = cache[d] \/ (EntrySound(d, cache'[d]) /\ cache'[d].expires = now + CacheTTL)
    <3>1. flight[d].doc # Null => Until(replaced[d], now, flight[d].doc) >= now - Timeout
      <4>1. flight[d].doc # Null => Until(replaced[d], now, flight[d].doc) \in Nat
        BY <1>u, <2>0 DEF FlightOf
      <4> QED
        BY <1>n, <2>0, <4>1 DEF FlightOf
    <3> QED
      BY <1>n, <2>0, <2>1, <3>1 DEF EntrySound, FlightOf
  <2>5. \A x \in Callers : CallerOf(caller[x])'
    <3> TAKE x \in Callers
    <3>1. CallerOf(caller[x])
      BY <1>c
    <3>2. caller[x].at \in {"lookup", "wait"} => caller[x].did \in Dids
      BY <3>1 DEF CallerOf
    <3>3. caller[x].at = "wait" =>
             flight'[caller[x].did] # Null /\ flight'[caller[x].did].since = flight[caller[x].did].since
      BY <3>1, <3>2, <2>1, <2>2, <2>3 DEF CallerOf
    <3>4. caller[x].at = "lookup" =>
             cache'[caller[x].did] = cache[caller[x].did] \/ cache'[caller[x].did].expires = now + CacheTTL
      BY <3>2, <2>1, <2>4
    <3> QED
      BY <2>1, <3>1, <3>3, <3>4, <1>s
  <2> QED
    BY <1>n, <2>1, <2>2, <2>4, <2>5, DIDKept
<1>8. ASSUME NEW d \in Dids, Land(d) PROVE DIDInv'
  <2>0. FlightOf(d, flight[d]) /\ flight[d] # Null
    BY <1>8, <1>f DEF Land
  <2>1. /\ \A x \in Callers : caller'[x] = IF caller[x].at = "wait" /\ caller[x].did = d
                                 THEN [caller[x] EXCEPT !.at = "done", !.doc = flight[d].doc] ELSE caller[x]
        /\ flight'[d] = Null /\ \A e \in Dids \ {d} : flight'[e] = flight[e]
        /\ UNCHANGED <<cache, replaced>> /\ DOMAIN flight' = Dids /\ DOMAIN caller' = Callers
    BY <1>8, <1>n DEF Land
  <2>2. \A x \in Callers : CallerOf(caller[x])'
    <3> TAKE x \in Callers
    <3>1. CallerOf(caller[x])
      BY <1>c
    <3>2. CASE caller[x].at = "wait" /\ caller[x].did = d
      <4> DEFINE v == flight[d].doc
      <4>1. /\ caller'[x].at = "done" /\ caller'[x].doc = v /\ caller'[x].did = d
            /\ caller'[x].fresh = caller[x].fresh /\ caller'[x].asked = caller[x].asked
            /\ v \in 1 .. Current(d) \cup {Null} /\ flight[d].since \in Nat
            /\ flight[d].since >= caller[x].asked - Timeout
        <5>1. caller'[x] = [caller[x] EXCEPT !.at = "done", !.doc = v]
          BY <2>1, <3>2
        <5>2. v \in 1 .. Current(d) \cup {Null} /\ flight[d].since \in Nat
          BY <2>0 DEF FlightOf
        <5> HIDE DEF v
        <5>3. flight[d].since >= caller[x].asked - Timeout
          BY <3>1, <3>2 DEF CallerOf
        <5> QED
          BY <3>1, <3>2, <5>1, <5>2, <5>3 DEF CallerOf
      <4>2. caller'[x] \in [at : CallerStates, did : Dids \cup {Null}, fresh : BOOLEAN, asked : Nat, doc : Nat \cup {Null}]
            /\ caller[x].asked \in Nat /\ caller[x].asked <= now
        <5>1. v \in Nat \cup {Null}
          BY <1>u, <4>1
        <5>2. caller'[x] = [caller[x] EXCEPT !.at = "done", !.doc = v]
          BY <2>1, <3>2
        <5> HIDE DEF v
        <5> QED
          BY <3>1, <5>1, <5>2 DEF CallerOf, CallerStates
      <4>3. v # Null => /\ v \in 1 .. Len(replaced[d]) + 1
                        /\ Until(replaced[d], now, v) >= caller[x].asked - (IF caller[x].fresh THEN 0 ELSE CacheTTL) - Timeout
        <5>1. v # Null => v \in 1 .. Len(replaced[d]) + 1
          BY <4>1 DEF Current
        <5>2. v # Null => Until(replaced[d], now, v) \in Nat
          BY <1>u, <4>1
        <5>3. v # Null => Until(replaced[d], now, v) >= flight[d].since
          BY <2>0 DEF FlightOf
        <5> QED
          BY <4>1, <4>2, <5>1, <5>2, <5>3
      <4> HIDE DEF v
      <4> QED
        BY <2>1, <4>1, <4>2, <4>3 DEF CallerOf, Waiting, Current
    <3>3. CASE ~(caller[x].at = "wait" /\ caller[x].did = d)
      <4>1. caller[x].at = "wait" => caller[x].did \in Dids \ {d} /\ flight[caller[x].did] # Null
        BY <3>1, <3>3 DEF CallerOf
      <4>2. caller[x].at = "wait" => flight'[caller[x].did] = flight[caller[x].did]
        BY <4>1, <2>1
      <4> QED
        BY <2>1, <3>1, <3>3, <4>1, <4>2, <1>s
    <3> QED
      BY <3>2, <3>3
  <2> QED
    BY <1>n, <2>1, <2>2, DIDKept
<1>9. CASE Cleanup
  <2>1. /\ \A d \in Dids : cache'[d] \in {cache[d], Null}
        /\ UNCHANGED <<flight, caller, replaced>> /\ DOMAIN cache' = Dids
    BY <1>9, <1>n DEF Cleanup
  <2>2. \A x \in Callers : CallerOf(caller[x])'
    <3> TAKE x \in Callers
    <3>1. CallerOf(caller[x])
      BY <1>c
    <3> QED
      BY <2>1, <3>1, <1>s DEF CallerOf
  <2> QED
    BY <1>n, <2>1, <2>2, DIDKept
<1>10. ASSUME NEW d \in Dids, ChangeDocument(d) PROVE DIDInv'
  BY <1>10, <1>n, DIDTime DEF ChangeDocument
<1> QED
  BY <1>1, <1>2, <1>3, <1>4, <1>5, <1>6, <1>7, <1>8, <1>9, <1>10 DEF DIDCacheNext, Lookup

LEMMA DIDStart == DIDCacheInit /\ now = 0 => DIDInv
<1> SUFFICES ASSUME DIDCacheInit, now = 0 PROVE DIDInv
  OBVIOUS
<1> USE DIDCacheAssumption DEF DIDCacheInit
<1>1. HistoryType
  BY DEF HistoryType
<1> QED
  BY <1>1 DEF DIDInv, CacheSound, FlightSound, CallersSound, CallerOf, Idle, CallerStates, Waiting

LEMMA DIDCrash ==
    ASSUME DIDInv, ClockType, DIDCacheCrash, UNCHANGED now
    PROVE  DIDInv'
<1> USE DIDCacheAssumption, IdentityAssumption DEF DIDCacheCrash
<1>1. \A c \in Callers : CallerOf(caller[c])'
  BY DEF CallerOf, Idle, CallerStates, Waiting, ClockType
<1> QED
  BY <1>1, DIDKept

-----------------------------------------------------------------------------
(* The replay cache: proofs.                                               *)

LEMMA FirstOne ==
    ASSUME NEW S, S \subseteq Nat, S # {}
    PROVE  \E m \in S : \A y \in S : m <= y
<1> DEFINE R == OpToRel(<, Nat)
<1>1. \E m \in S : \A y \in S : ~(<<y, m>> \in R)
  <2>1. IsWellFoundedOn(R, Nat)
    BY NatLessThanWellFounded
  <2> HIDE DEF R
  <2> QED
    BY <2>1, WFMin
<1>2. PICK m \in S : \A y \in S : ~(<<y, m>> \in R)
  BY <1>1
<1>3. \A y \in S : ~(y < m)
  BY <1>2 DEF OpToRel
<1> QED
  BY <1>3

\* If no check of a chain of early returns fails, none of its conditions holds.
LEMMA FirstFailureOk ==
    ASSUME NEW checks, Len(checks) \in Nat, FirstFailure(checks) = "ok",
           \A i \in 1 .. Len(checks) : checks[i][2] => checks[i][1] # "ok"
    PROVE  \A i \in 1 .. Len(checks) : ~checks[i][2]
<1> DEFINE I == {i \in 1 .. Len(checks) : checks[i][2]}
<1>1. SUFFICES ASSUME I # {} PROVE FALSE
  OBVIOUS
<1>2. I \subseteq Nat \ {0} /\ \A i \in I : checks[i][1] # "ok"
  OBVIOUS
<1>3. SelectInSeq(checks, LAMBDA c : c[2]) = Min(I)
  BY <1>1 DEF SelectInSeq
<1> HIDE DEF I
<1>4. \E m \in I : \A y \in I : m <= y
  BY <1>1, <1>2, FirstOne
<1>5. Min(I) \in I
  BY <1>4 DEF Min
<1> QED
  BY <1>2, <1>3, <1>5 DEF FirstFailure

\* A token that Verify accepts has not expired.
LEMMA Accepts ==
    ASSUME NEW t \in Tokens, NEW a, Verify(t, a) = "ok", ClockType
    PROVE  t.exp \in Nat /\ now < t.exp
<1>1. Parse(t, a) = "ok"
  BY DEF Verify
<1>2. t.exp \in Int /\ now \in Nat
  BY ServiceAuthAssumption, IdentityAssumption DEF ClockType
<1> DEFINE checks == << <<"unsupported_alg", t.alg \notin {"ES256", "ES256K"}>>,
                        <<keyFunc(t, a), keyFunc(t, a) # "ok">>, <<"bad_signature", ~t.signed>>,
                        <<"expired", t.exp = 0 \/ now >= t.exp>> >>
<1>3. FirstFailure(checks) = "ok"
  BY <1>1 DEF Parse
<1>4. ~(t.exp = 0 \/ now >= t.exp)
  <2> SUFFICES ASSUME t.exp = 0 \/ now >= t.exp PROVE FALSE
    OBVIOUS
  <2>1. Len(checks) = 4 /\ checks[4][2]
    OBVIOUS
  <2>2. ASSUME NEW i \in 1 .. 4, checks[i][2] PROVE checks[i][1] # "ok"
    <3>1. CASE i = 2
      BY <2>2, <3>1
    <3>2. CASE i \in {1, 3, 4}
      BY <3>2
    <3> QED
      BY <3>1, <3>2
  <2> HIDE DEF checks
  <2> QED
    BY <1>3, <2>1, <2>2, FirstFailureOk
<1> QED
  BY <1>2, <1>4

LEMMA RoomMade ==
    ASSUME NEW e, IsFiniteSet(DOMAIN e), \A k \in DOMAIN e : e[k] \in Nat, Cardinality(DOMAIN e) <= Capacity
    PROVE  /\ DOMAIN MakeRoom(e) \subseteq DOMAIN e /\ \A k \in DOMAIN MakeRoom(e) : MakeRoom(e)[k] = e[k]
           /\ IsFiniteSet(DOMAIN MakeRoom(e)) /\ Cardinality(DOMAIN MakeRoom(e)) < Capacity
<1>0. Cardinality(DOMAIN e) \in Nat /\ Capacity \in Nat \ {0}
  BY FS_CardinalityType, ServiceAuthAssumption
<1>1. CASE Cardinality(DOMAIN e) >= Capacity
  <2>1. DOMAIN e # {}
    BY <1>0, <1>1, FS_EmptySet
  <2> DEFINE V == {e[k] : k \in DOMAIN e}
  <2>2. PICK v \in V : \A y \in V : v <= y
    <3>1. V \subseteq Nat /\ V # {}
      BY <2>1
    <3> HIDE DEF V
    <3> QED
      BY <3>1, FirstOne
  <2>3. \E k \in DOMAIN e : \A j \in DOMAIN e : e[k] <= e[j]
    BY <2>2
  <2>4. Earliest(e) \in DOMAIN e
    BY <2>3 DEF Earliest
  <2>5. MakeRoom(e) = [k \in DOMAIN e \ {Earliest(e)} |-> e[k]]
    BY <1>1 DEF MakeRoom, Without, Restrict
  <2>6. IsFiniteSet(DOMAIN e \ {Earliest(e)})
        /\ Cardinality(DOMAIN e \ {Earliest(e)}) = Cardinality(DOMAIN e) - 1
    BY <2>4, FS_RemoveElement
  <2> QED
    BY <1>0, <2>5, <2>6
<1>2. CASE ~(Cardinality(DOMAIN e) >= Capacity)
  BY <1>0, <1>2 DEF MakeRoom
<1> QED
  BY <1>1, <1>2

\* What checkAndSet does: entries that expired go, at most one that did not; the key
\* of the request is there afterwards.
LEMMA Checked ==
    ASSUME ServiceInv, ClockType, NEW k, NEW x \in Nat
    PROVE  LET r == checkAndSet(entries, k, x) IN
           /\ r.new \in BOOLEAN /\ r.new <=> ~(k \in DOMAIN entries /\ entries[k] > now)
           /\ r.new => k \in DOMAIN r.entries /\ r.entries[k] = x
           /\ \A j \in DOMAIN r.entries : j # k \/ ~r.new => j \in DOMAIN Pruned(entries) /\ r.entries[j] = entries[j]
           /\ \A j \in DOMAIN r.entries : r.entries[j] \in Nat
           /\ IsFiniteSet(DOMAIN r.entries) /\ Cardinality(DOMAIN r.entries) <= Capacity
           /\ DOMAIN Pruned(entries) \subseteq DOMAIN entries
           /\ \A j \in DOMAIN entries : j \in DOMAIN Pruned(entries) <=> entries[j] > now
           /\ \A j \in DOMAIN Pruned(entries) : Pruned(entries)[j] = entries[j]
<1> DEFINE P == Pruned(entries)
           M == MakeRoom(P)
           r == checkAndSet(entries, k, x)
<1>n. now \in Nat /\ Capacity \in Nat \ {0}
  BY IdentityAssumption, ServiceAuthAssumption DEF ClockType
<1>1. /\ DOMAIN P \subseteq DOMAIN entries /\ \A j \in DOMAIN entries : j \in DOMAIN P <=> entries[j] > now
      /\ \A j \in DOMAIN P : P[j] = entries[j] /\ P[j] \in Nat
  BY DEF Pruned, Restrict, ServiceInv
<1>2. IsFiniteSet(DOMAIN P) /\ Cardinality(DOMAIN P) <= Capacity
  <2>1. IsFiniteSet(DOMAIN P) /\ Cardinality(DOMAIN P) <= Cardinality(DOMAIN entries)
    BY <1>1, FS_Subset DEF ServiceInv
  <2>2. Cardinality(DOMAIN P) \in Nat /\ Cardinality(DOMAIN entries) \in Nat
    BY <2>1, FS_CardinalityType DEF ServiceInv
  <2> QED
    BY <1>n, <2>1, <2>2 DEF ServiceInv
<1>3. r = Remember(P, k, x)
  BY DEF checkAndSet
<1> HIDE DEF P, r
<1>4. CASE k \in DOMAIN P
  <2>1. r.new = FALSE /\ r.entries = P
    BY <1>3, <1>4 DEF Remember
  <2> QED
    BY <1>1, <1>2, <1>4, <2>1 DEF P, r
<1>5. CASE k \notin DOMAIN P
  <2>1. r.new = TRUE /\ r.entries = [j \in DOMAIN M \cup {k} |-> IF j = k THEN x ELSE M[j]]
    BY <1>3, <1>5 DEF Remember, Add
  <2>2. /\ DOMAIN M \subseteq DOMAIN P /\ \A j \in DOMAIN M : M[j] = P[j]
        /\ IsFiniteSet(DOMAIN M) /\ Cardinality(DOMAIN M) < Capacity
    BY <1>1, <1>2, RoomMade
  <2> HIDE DEF M
  <2>3. IsFiniteSet(DOMAIN M \cup {k}) /\ Cardinality(DOMAIN M \cup {k}) = Cardinality(DOMAIN M) + 1
    BY <1>5, <2>2, FS_AddElement
  <2>4. Cardinality(DOMAIN M) \in Nat
    BY <2>2, FS_CardinalityType
  <2>5. Cardinality(DOMAIN M \cup {k}) <= Capacity
    BY <1>n, <2>2, <2>3, <2>4
  <2>6. DOMAIN r.entries = DOMAIN M \cup {k}
    BY <2>1
  <2> QED
    BY <1>1, <1>2, <1>5, <2>1, <2>2, <2>3, <2>5, <2>6 DEF P, r
<1> QED
  BY <1>4, <1>5

\* A token passes again only if its entry was lost; what passed stays accounted for.
LEMMA ServiceStep ==
    ASSUME ServiceInv, ClockType, UNCHANGED now, NEW t \in Tokens, NEW a, ServiceRequest(t, a)
    PROVE  ServiceInv' /\ \A p \in DOMAIN passed : passed'[p] > passed[p] => p \in forgot
<1> DEFINE k == ReplayKey(t)
           r == checkAndSet(entries, k, t.exp + MaxSkew)
           p0 == <<k, t.exp>>
<1>0. t.exp \in Nat /\ now < t.exp /\ now \in Nat /\ MaxSkew \in Nat /\ Capacity \in Nat
  BY Accepts, IdentityAssumption, ServiceAuthAssumption DEF ServiceRequest, ClockType
<1>1. /\ entries' = r.entries
      /\ passed' = IF r.new THEN Add(passed, p0, Used(p0) + 1) ELSE passed
      /\ forgot' = (forgot \cup (Entered(Pruned(entries)) \ Entered(entries'))) \ (IF r.new THEN {p0} ELSE {})
  BY DEF ServiceRequest
<1>2. /\ r.new \in BOOLEAN /\ r.new <=> ~(k \in DOMAIN entries /\ entries[k] > now)
      /\ r.new => k \in DOMAIN entries' /\ entries'[k] = t.exp + MaxSkew
      /\ \A j \in DOMAIN entries' : j # k \/ ~r.new => j \in DOMAIN Pruned(entries) /\ entries'[j] = entries[j]
      /\ \A j \in DOMAIN entries' : entries'[j] \in Nat
      /\ IsFiniteSet(DOMAIN entries') /\ Cardinality(DOMAIN entries') <= Capacity
      /\ DOMAIN Pruned(entries) \subseteq DOMAIN entries
      /\ \A j \in DOMAIN entries : j \in DOMAIN Pruned(entries) <=> entries[j] > now
      /\ \A j \in DOMAIN Pruned(entries) : Pruned(entries)[j] = entries[j]
  <2>1. t.exp + MaxSkew \in Nat
    BY <1>0
  <2> QED
    BY <1>1, <2>1, Checked
<1> HIDE DEF k, r
<1>3. \A j, y : <<j, y>> \in Entered(entries) <=> j \in DOMAIN entries /\ y = entries[j] - MaxSkew
  BY DEF Entered
<1>4. \A j, y : <<j, y>> \in Entered(entries)' <=> j \in DOMAIN entries' /\ y = entries'[j] - MaxSkew
  BY DEF Entered
<1>5. \A j, y : <<j, y>> \in Entered(Pruned(entries)) <=> j \in DOMAIN Pruned(entries) /\ y = entries[j] - MaxSkew
  BY <1>2 DEF Entered
<1>6. \A p \in Entered(entries)' \cup Entered(entries) \cup Entered(Pruned(entries)) : p = <<p[1], p[2]>>
  BY DEF Entered
<1>7. r.new => p0 \in Entered(entries)'
  BY <1>0, <1>2, <1>4
<1>8. \A p \in Entered(entries)' : (p = p0 /\ r.new) \/ (p \in Entered(entries) /\ (r.new => p[1] # k))
  <2> SUFFICES ASSUME NEW j \in DOMAIN entries' 
               PROVE  LET p == <<j, entries'[j] - MaxSkew>> IN
                      (p = p0 /\ r.new) \/ (p \in Entered(entries) /\ (r.new => p[1] # k))
    BY DEF Entered
  <2>1. CASE j = k /\ r.new
    BY <1>0, <1>2, <2>1
  <2>2. CASE ~(j = k /\ r.new)
    BY <1>2, <1>3, <2>2
  <2> QED
    BY <2>1, <2>2
<1>9. /\ \A p \in DOMAIN passed : p \in DOMAIN passed' /\ passed'[p] \in Nat /\ (p # p0 \/ ~r.new => passed'[p] = passed[p])
      /\ \A p \in DOMAIN passed' : passed'[p] \in Nat /\ (p \in DOMAIN passed \/ (r.new /\ p = p0))
      /\ r.new => p0 \in DOMAIN passed'
  BY <1>1, <1>2 DEF Add, Used, ServiceInv
<1> HIDE DEF p0
<1>10. r.new /\ p0 \in DOMAIN passed => p0 \in forgot
  <2> SUFFICES ASSUME r.new, p0 \in DOMAIN passed, p0 \in Entered(entries) PROVE FALSE
    BY <1>0 DEF ServiceInv, p0
  <2>1. k \in DOMAIN entries /\ t.exp = entries[k] - MaxSkew /\ entries[k] \in Nat
    BY <1>3 DEF p0, ServiceInv
  <2> QED
    BY <1>0, <1>2, <2>1
<1>11. \A p \in DOMAIN passed : passed'[p] > passed[p] => p \in forgot
  BY <1>9, <1>10 DEF ServiceInv
<1>12. Entered(entries)' \subseteq DOMAIN passed'
  BY <1>8, <1>9 DEF ServiceInv
<1>13. forgot' \cap Entered(entries)' = {}
  BY <1>1, <1>8 DEF ServiceInv
<1>14. ASSUME NEW p \in DOMAIN passed'
       PROVE  p = <<p[1], p[2]>> /\ p[2] \in Nat /\ (p \in Entered(entries)' \cup forgot' \/ now >= p[2])
  <2>1. CASE p = p0 /\ r.new
    BY <1>0, <1>7, <2>1 DEF p0
  <2>2. CASE ~(p = p0 /\ r.new)
    <3>1. /\ p \in DOMAIN passed /\ p = <<p[1], p[2]>> /\ p[2] \in Nat
          /\ p \in Entered(entries) \cup forgot \/ now >= p[2]
      BY <1>9, <2>2 DEF ServiceInv
    <3>2. CASE p \in Entered(entries)
      <4>1. p[1] \in DOMAIN entries /\ p[2] = entries[p[1]] - MaxSkew /\ entries[p[1]] \in Nat
        BY <1>3, <3>1, <3>2 DEF ServiceInv
      <4>2. CASE p[1] \in DOMAIN Pruned(entries)
        BY <1>1, <1>5, <2>2, <3>1, <4>1, <4>2
      <4>3. CASE p[1] \notin DOMAIN Pruned(entries)
        <5>1. ~(entries[p[1]] > now)
          BY <1>2, <4>1, <4>3
        <5> HIDE DEF k, r, p0
        <5>2. now >= p[2]
          BY <1>0, <4>1, <5>1
        <5> QED
          BY <3>1, <5>2
      <4> QED
        BY <4>2, <4>3
    <3>3. CASE p \in forgot
      BY <1>1, <2>2, <3>1, <3>3
    <3> QED
      BY <3>1, <3>2, <3>3
  <2> QED
    BY <2>1, <2>2
<1> QED
  BY <1>2, <1>9, <1>11, <1>12, <1>13, <1>14 DEF ServiceInv

LEMMA ServiceCrashes ==
    ASSUME ServiceInv, ClockType, ServiceCrash, UNCHANGED now
    PROVE  ServiceInv'
<1>1. DOMAIN entries' = {} /\ Entered(entries)' = {}
  BY DEF ServiceCrash, Entered
<1>2. Cardinality(DOMAIN entries') <= Capacity /\ IsFiniteSet(DOMAIN entries')
  BY <1>1, FS_EmptySet, ServiceAuthAssumption
<1> QED
  BY <1>1, <1>2 DEF ServiceInv, ServiceCrash

LEMMA ServiceWaits ==
    ASSUME ServiceInv, ClockType, UNCHANGED serviceVars, now' \in Nat, now' >= now
    PROVE  ServiceInv'
<1>1. now \in Nat
  BY IdentityAssumption DEF ClockType
<1> QED
  BY <1>1 DEF ServiceInv, serviceVars, Entered

-----------------------------------------------------------------------------
(* The OAuth server: from actions to effects.                              *)

Kinds == {"authorize", "callback", "expired", "code", "refresh", "revoke", "use", "par", "update"}

\* Which request is at which statement.
LEMMA Steps ==
    /\ DOMAIN Order = Kinds
    /\ \A k \in Kinds : Len(Order[k]) \in 1 .. 7 /\ (k \in {"code", "refresh"} => Len(Order[k]) = 6)
    /\ \A k \in Kinds : \A i \in 1 .. Len(Order[k]) : LET at == Order[k][i] IN
          /\ k = "code" => <<i, at>> \in {<<1, "getCode">>, <<2, "jti">>, <<3, "mark">>, <<4, "access">>,
                                        <<5, "refresh">>, <<6, "answer">>}
          /\ k = "refresh" => <<i, at>> \in {<<1, "getRefresh">>, <<2, "jti">>, <<3, "access">>, <<4, "refresh">>,
                                           <<5, "revoke">>, <<6, "answer">>}
          /\ k = "revoke" => at = "revokeAccess" \/ (i = Len(Order[k]) /\ at = "revokeRefresh")
          /\ k \notin {"code", "refresh", "revoke"} =>
                /\ at \notin {"getCode", "mark", "access", "refresh", "getRefresh", "revoke", "answer",
                              "revokeAccess", "revokeRefresh"}
                /\ at \in {"code", "redirect"} => k = "callback" /\ i < 8
                /\ (at = "code" => i < Len(Order[k])) /\ (at = "jti" => k = "use")
<1>1. DOMAIN Order = Kinds
  BY DEF Order, Kinds
<1>2. /\ Order["authorize"] = <<"authRequest", "atpRequest", "atpSession">>
      /\ Order["callback"] = <<"getAuthRequest", "exchange", "session", "code", "dropATP", "dropAuth", "redirect">>
      /\ Order["expired"] = <<"dropATP">>
      /\ Order["code"] = <<"getCode", "jti", "mark", "access", "refresh", "answer">>
      /\ Order["refresh"] = <<"getRefresh", "jti", "access", "refresh", "revoke", "answer">>
      /\ Order["revoke"] = <<"revokeAccess", "revokeRefresh">>
      /\ Order["use"] = <<"jti", "getAccess">> /\ Order["par"] = <<"par">> /\ Order["update"] = <<"update">>
  BY DEF Order
<1> HIDE DEF Order
<1>l. /\ Len(Order["authorize"]) = 3 /\ Len(Order["callback"]) = 7 /\ Len(Order["expired"]) = 1
      /\ Len(Order["code"]) = 6 /\ Len(Order["refresh"]) = 6 /\ Len(Order["revoke"]) = 2
      /\ Len(Order["use"]) = 2 /\ Len(Order["par"]) = 1 /\ Len(Order["update"]) = 1
  BY <1>2
<1>3. \A k \in Kinds : Len(Order[k]) \in 1 .. 7 /\ (k \in {"code", "refresh"} => Len(Order[k]) = 6)
  <2>1. \A k \in {"code", "refresh"} : Len(Order[k]) = 6
    BY <1>l
  <2>2. \A k \in {"authorize", "callback", "expired", "revoke", "use", "par", "update"} : Len(Order[k]) \in {1, 2, 3, 7}
    BY <1>l
  <2>3. \A k \in Kinds : k \in {"code", "refresh"}
                        \/ k \in {"authorize", "callback", "expired", "revoke", "use", "par", "update"}
    BY DEF Kinds
  <2>4. 6 \in 1 .. 7 /\ {1, 2, 3, 7} \subseteq 1 .. 7
    OBVIOUS
  <2>5. \A k \in Kinds : Len(Order[k]) \in 1 .. 7
    BY <2>1, <2>2, <2>3, <2>4, Zenon
  <2> QED
    BY <2>1, <2>5, Zenon
<1> DEFINE P(k, i, at) ==
          /\ k = "code" => <<i, at>> \in {<<1, "getCode">>, <<2, "jti">>, <<3, "mark">>, <<4, "access">>,
                                        <<5, "refresh">>, <<6, "answer">>}
          /\ k = "refresh" => <<i, at>> \in {<<1, "getRefresh">>, <<2, "jti">>, <<3, "access">>, <<4, "refresh">>,
                                           <<5, "revoke">>, <<6, "answer">>}
          /\ k = "revoke" => at = "revokeAccess" \/ (i = Len(Order[k]) /\ at = "revokeRefresh")
          /\ k \notin {"code", "refresh", "revoke"} =>
                /\ at \notin {"getCode", "mark", "access", "refresh", "getRefresh", "revoke", "answer",
                              "revokeAccess", "revokeRefresh"}
                /\ at \in {"code", "redirect"} => k = "callback" /\ i < 8
                /\ (at = "code" => i < Len(Order[k])) /\ (at = "jti" => k = "use")
<1>4. \A i \in 1 .. Len(Order["code"]) : P("code", i, Order["code"][i])
  <2>1. /\ Order["code"][1] = "getCode" /\ Order["code"][2] = "jti" /\ Order["code"][3] = "mark"
        /\ Order["code"][4] = "access" /\ Order["code"][5] = "refresh" /\ Order["code"][6] = "answer"
    BY <1>2
  <2>2. \A i \in 1 .. Len(Order["code"]) : i = 1 \/ i = 2 \/ i = 3 \/ i = 4 \/ i = 5 \/ i = 6
    BY <1>l
  <2> QED
    BY <2>1, <2>2
<1>5. \A i \in 1 .. Len(Order["refresh"]) : P("refresh", i, Order["refresh"][i])
  <2>1. /\ Order["refresh"][1] = "getRefresh" /\ Order["refresh"][2] = "jti" /\ Order["refresh"][3] = "access"
        /\ Order["refresh"][4] = "refresh" /\ Order["refresh"][5] = "revoke" /\ Order["refresh"][6] = "answer"
    BY <1>2
  <2>2. \A i \in 1 .. Len(Order["refresh"]) : i = 1 \/ i = 2 \/ i = 3 \/ i = 4 \/ i = 5 \/ i = 6
    BY <1>l
  <2> QED
    BY <2>1, <2>2
<1>6. \A i \in 1 .. Len(Order["callback"]) : P("callback", i, Order["callback"][i])
  BY <1>2
<1>7. \A i \in 1 .. Len(Order["authorize"]) : P("authorize", i, Order["authorize"][i])
  BY <1>2
<1>8. \A k \in {"expired", "revoke", "use", "par", "update"} : \A i \in 1 .. Len(Order[k]) : P(k, i, Order[k][i])
  <2>1. /\ \A i \in 1 .. Len(Order["expired"]) : P("expired", i, Order["expired"][i])
        /\ \A i \in 1 .. Len(Order["par"]) : P("par", i, Order["par"][i])
        /\ \A i \in 1 .. Len(Order["update"]) : P("update", i, Order["update"][i])
    BY <1>2, <1>l
  <2>2. \A i \in 1 .. Len(Order["use"]) : P("use", i, Order["use"][i])
    BY <1>2, <1>l
  <2>3. \A i \in 1 .. Len(Order["revoke"]) : P("revoke", i, Order["revoke"][i])
    BY <1>2, <1>l
  <2> QED
    BY <2>1, <2>2, <2>3
<1>9. \A k \in Kinds : \A i \in 1 .. Len(Order[k]) : P(k, i, Order[k][i])
  BY <1>4, <1>5, <1>6, <1>7, <1>8 DEF Kinds
<1> QED
  BY <1>1, <1>3, <1>9

\* The same for a request in its slot.
LEMMA AtStep ==
    ASSUME RequestType, NEW s \in Slots, NEW step, At(s, step)
    PROVE  LET k == req[s].kind
               i == req[s].pc IN
           /\ ~Free(s) /\ k \in Kinds /\ i \in 1 .. Len(Order[k]) /\ Len(Order[k]) \in Nat
           /\ step = "getCode" => k = "code" /\ i = 1
           /\ step = "mark" => k = "code" /\ i = 3
           /\ step = "access" => <<k, i>> \in {<<"code", 4>>, <<"refresh", 3>>}
           /\ step = "refresh" => <<k, i>> \in {<<"code", 5>>, <<"refresh", 4>>}
           /\ step = "getRefresh" => k = "refresh" /\ i = 1
           /\ step = "revoke" => k = "refresh" /\ i = 5
           /\ step = "answer" => k \in {"code", "refresh"} /\ i = 6
           /\ step = "revokeAccess" => k = "revoke"
           /\ step = "revokeRefresh" => k = "revoke" /\ i = Len(Order[k])
           /\ step = "code" => k = "callback" /\ i < Len(Order[k])
           /\ step = "redirect" => k = "callback"
           /\ step = "jti" => k = "use" \/ (k \in {"code", "refresh"} /\ i = 2)
           /\ k \in {"code", "refresh"} => Len(Order[k]) = 6
           /\ step # "answer" => ~Answering(s)
           /\ step \notin {"getCode", "getRefresh", "jti", "mark", "access", "refresh", "revoke", "answer"}
                 => k \notin {"code", "refresh"}
<1>1. ~Free(s) /\ Order[req[s].kind][req[s].pc] = step
  BY DEF At
<1>2. req[s].kind \in Kinds /\ req[s].pc \in 1 .. Len(Order[req[s].kind])
  BY <1>1, Steps DEF RequestType
<1>3. step = "jti" => req[s].kind = "use" \/ (req[s].kind \in {"code", "refresh"} /\ req[s].pc = 2)
  BY <1>1, <1>2, Steps
<1>4. step # "answer" => ~Answering(s)
  BY <1>1, <1>2, Steps DEF Answering
<1> QED
  BY <1>1, <1>2, <1>3, <1>4, Steps

\* Continue and Answer move a request on or end it.
LEMMA Continues ==
    ASSUME RequestType, NEW s \in Slots, ~Free(s), NEW r, DOMAIN r = RequestFields,
           r.kind = req[s].kind, r.pc = req[s].pc, r.grant = req[s].grant, r.in = req[s].in, r.id = req[s].id
    PROVE  /\ Answer(s) => Ends(s)
           /\ Continue(s, r) => IF r.pc = Len(Order[r.kind]) THEN Ends(s) ELSE Goes(s) /\ req'[s].row = r.row
<1>1. r.pc \in 1 .. Len(Order[r.kind]) /\ Len(Order[r.kind]) \in Nat
  BY Steps DEF RequestType
<1>2. DOMAIN req = Slots
  BY DEF RequestType
<1>3. ASSUME Answer(s) PROVE Ends(s)
  BY <1>2, <1>3 DEF Answer, Ends, Same
<1>4. ASSUME Continue(s, r) PROVE Same(s) /\ req'[s] = After(r)
  BY <1>2, <1>4 DEF Continue, Same
<1>5. ASSUME Continue(s, r), r.pc = Len(Order[r.kind]) PROVE Ends(s)
  BY <1>4, <1>5 DEF Ends, After
<1>6. ASSUME Continue(s, r), r.pc # Len(Order[r.kind]) PROVE Goes(s) /\ req'[s].row = r.row
  <2>1. Same(s) /\ req'[s] = [r EXCEPT !.pc = @ + 1]
    BY <1>4, <1>6 DEF After
  <2>2. DOMAIN req'[s] = RequestFields /\ req'[s].kind = r.kind /\ req'[s].grant = r.grant /\ req'[s].in = r.in /\ req'[s].id = r.id
        /\ req'[s].row = r.row /\ req'[s].pc = r.pc + 1
    BY <2>1 DEF RequestFields
  <2> QED
    BY <1>1, <1>6, <2>1, <2>2 DEF Goes
<1> QED
  BY <1>3, <1>5, <1>6

\* A statement that succeeds or fails.
LEMMA StatementDoes ==
    ASSUME RequestType, NEW s \in Slots, NEW step, NEW new, NEW r, Statement(s, step, new, r), DOMAIN r = RequestFields,
           r.kind = req[s].kind, r.pc = req[s].pc, r.grant = req[s].grant, r.in = req[s].in, r.id = req[s].id
    PROVE  /\ UNCHANGED <<clean, fresh, spent>>
           /\ \/ /\ new # Null /\ db' = new
                 /\ IF r.pc = Len(Order[r.kind]) THEN Ends(s) ELSE Goes(s) /\ req'[s].row = r.row
              \/ UNCHANGED db /\ Ends(s)
              \/ /\ UNCHANGED db /\ step \in BestEffort
                 /\ IF r.pc = Len(Order[r.kind]) THEN Ends(s) ELSE Goes(s) /\ req'[s].row = r.row
<1>1. ~Free(s)
  BY DEF Statement, At
<1> QED
  BY <1>1, Continues DEF Statement

LEMMA Begins ==
    ASSUME StoreType, RequestType, NEW s \in Slots, Free(s), NEW kind \in Kinds, NEW in, NEW grant, Begin(s, kind, in, grant),
           kind \in {"code", "refresh", "revoke"} => grant \in known,
           kind \in {"code", "refresh"} => in \in TokenParams, kind = "use" => in \in UseParams
    PROVE  Arrives(s)
<1>1. DOMAIN req = Slots
  BY DEF RequestType
<1>2. /\ Same(s)
      /\ req'[s] = [kind |-> kind, pc |-> 1, in |-> in, grant |-> grant, row |-> Null, key |-> Null, id |-> fresh]
  BY <1>1 DEF Begin, Same
<1>3. DOMAIN req'[s] = RequestFields /\ req'[s].kind = kind /\ req'[s].pc = 1 /\ req'[s].grant = grant /\ req'[s].id = fresh
      /\ req'[s].in = in
  BY <1>2 DEF RequestFields
<1>4. fresh' = fresh + 1 /\ UNCHANGED <<codes, tokens, known, issued, ended, lost>>
  BY DEF Begin, ghostVars, codes, tokens
<1> QED
  BY <1>2, <1>3, <1>4, Steps DEF Arrives

LEMMA Refuses == ASSUME Refuse \/ UNCHANGED serverVars PROVE Housekeeping
  BY DEF Refuse, serverVars, ghostVars, Housekeeping, codes, tokens

\* A statement that is neither the last one nor ignored when it fails.
LEMMA FirmStatement ==
    ASSUME RequestType, NEW s \in Slots, NEW step, NEW new, Statement(s, step, new, req[s]), step \notin BestEffort,
           req[s].pc # Len(Order[req[s].kind])
    PROVE  /\ UNCHANGED fresh
           /\ \/ new # Null /\ db' = new /\ Goes(s) /\ SameRow(s)
              \/ UNCHANGED db /\ Ends(s)
<1>1. DOMAIN req[s] = RequestFields
  BY DEF RequestType
<1>2. /\ UNCHANGED fresh
      /\ \/ new # Null /\ db' = new /\ Goes(s) /\ req'[s].row = req[s].row
         \/ UNCHANGED db /\ Ends(s)
  BY <1>1, StatementDoes
<1> QED
  BY <1>2 DEF SameRow

\* Statements on other tables, or ones that fail.
LEMMA PlainStatement ==
    ASSUME StoreType, RequestType, NEW s \in Slots, NEW step, NEW new, NEW r, Statement(s, step, new, r), UNCHANGED ghostVars,
           DOMAIN r = RequestFields, r.kind = req[s].kind, r.pc = req[s].pc, r.grant = req[s].grant, r.in = req[s].in, r.id = req[s].id,
           step \notin {"getCode", "getRefresh", "mark", "refresh", "revoke", "answer", "jti"},
           step = "access" => r.row = req[s].row,
           new # Null => new.authCodes = codes /\ new.refreshTokens = tokens
    PROVE  Plain(s)
<1>1. At(s, step)
  BY DEF Statement
<1>2. UNCHANGED <<codes, tokens>> /\ Quiet
  BY StatementDoes DEF codes, tokens, Quiet, ghostVars
<1>3. Ends(s) \/ (Goes(s) /\ req'[s].row = r.row)
  BY StatementDoes
<1>4. /\ req[s].kind = "code" => req[s].pc = 4 /\ r.row = req[s].row
      /\ req[s].kind = "refresh" => req[s].pc = 3 /\ r.row = req[s].row
  BY <1>1, AtStep
<1> QED
  BY <1>2, <1>3, <1>4 DEF Plain, Answering, SameRow

LEMMA LoginEffects ==
    ASSUME StoreType, RequestType, NEW s \in Slots, LoginNext(s)
    PROVE  Effect
<1> USE DEF codes, tokens
<1>d. DOMAIN db = Tables /\ DOMAIN req[s] = RequestFields
  BY DEF StoreType, RequestType
<1>1. ASSUME NEW p, HandleAuthorize(s, p) PROVE Effect
  BY <1>1, Begins, Refuses DEF HandleAuthorize, Effect, Kinds
<1>2. CASE StoreAuthRequest(s)
  <2>1. PICK n \in Networks :
          LET p == req[s].in
              did == ResolveLogin(p, n) IN
          IF did = Null THEN Fine /\ Answer(s) /\ UNCHANGED <<db, clean, fresh, spent>>
          ELSE Statement(s, "authRequest",
                 InsertAuthRequest(db, req[s].grant,
                    [client |-> p.client, redirect |-> p.redirect, challenge |-> p.challenge,
                     expires |-> now + CodeTTL]),
                 [req[s] EXCEPT !.row = did])
    BY <1>2 DEF StoreAuthRequest
  <2>2. At(s, "authRequest") /\ UNCHANGED ghostVars
    BY <1>2 DEF StoreAuthRequest
  <2>3. CASE Answer(s) /\ UNCHANGED <<db, clean, fresh, spent>>
    <3>1. Ends(s)
      BY <1>d, <2>2, <2>3, AtStep, Continues
    <3>2. ~Answering(s)
      BY <2>2, AtStep
    <3> QED
      BY <2>2, <2>3, <3>1, <3>2 DEF Effect, Plain, Quiet, ghostVars
  <2>4. ASSUME NEW row, NEW did, Statement(s, "authRequest", InsertAuthRequest(db, req[s].grant, row), [req[s] EXCEPT !.row = did])
        PROVE  Effect
    <3>1. InsertAuthRequest(db, req[s].grant, row) # Null =>
             /\ InsertAuthRequest(db, req[s].grant, row).authCodes = codes
             /\ InsertAuthRequest(db, req[s].grant, row).refreshTokens = tokens
      BY <1>d DEF InsertAuthRequest, Referring, Tables
    <3> DEFINE r == [req[s] EXCEPT !.row = did]
    <3>2. /\ DOMAIN r = RequestFields /\ r.kind = req[s].kind /\ r.pc = req[s].pc
          /\ r.grant = req[s].grant /\ r.in = req[s].in /\ r.id = req[s].id
      BY <1>d DEF RequestFields
    <3> HIDE DEF r
    <3>3. Plain(s)
      BY <2>2, <2>4, <3>1, <3>2, PlainStatement DEF r
    <3> QED
      BY <3>3 DEF Effect
  <2> QED
    BY <2>1, <2>3, <2>4
<1>3. ASSUME NEW step, NEW new, Statement(s, step, new, req[s]), UNCHANGED ghostVars,
             step \notin {"getCode", "getRefresh", "mark", "refresh", "revoke", "answer", "jti"},
             new # Null => new.authCodes = codes /\ new.refreshTokens = tokens
      PROVE  Effect
  BY <1>3, <1>d, PlainStatement DEF Effect
<1>4. CASE StoreATPRequest(s)
  BY <1>3, <1>4, <1>d DEF StoreATPRequest, InsertATPRequest, Tables
<1>5. CASE StoreATPSession(s)
  BY <1>3, <1>5, <1>d DEF StoreATPSession, InsertATPSession, Tables
<1>6. CASE ExchangedSession(s)
  BY <1>3, <1>6, <1>d DEF ExchangedSession, UpdateATPSession, Tables
<1>7. CASE DropATPRequest(s)
  BY <1>3, <1>7, <1>d DEF DropATPRequest, DeleteATPRequest, Tables
<1>8. CASE DropAuthRequest(s)
  BY <1>3, <1>8, <1>d DEF DropAuthRequest, DeleteAuthRequest, Tables
<1>9. ASSUME NEW state, NEW reply, HandleCallback(s, state, reply) PROVE Effect
  BY <1>9, Begins, Refuses DEF HandleCallback, Effect, Kinds
<1>10. CASE LoadAuthRequest(s)
  <2>1. PICK row : \/ Continue(s, [req[s] EXCEPT !.row = row]) 
                   \/ Answer(s)
    BY <1>10 DEF LoadAuthRequest, Read
  <2>2. At(s, "getAuthRequest") /\ UNCHANGED <<db, fresh, ghostVars>>
    BY <1>10 DEF LoadAuthRequest, Read
  <2> DEFINE r == [req[s] EXCEPT !.row = row]
  <2>3. /\ DOMAIN r = RequestFields /\ r.kind = req[s].kind /\ r.pc = req[s].pc
        /\ r.grant = req[s].grant /\ r.in = req[s].in /\ r.id = req[s].id
    BY <1>d DEF RequestFields
  <2> HIDE DEF r
  <2>4. Ends(s) \/ Goes(s)
    BY <2>1, <2>2, <2>3, AtStep, Continues DEF r
  <2>5. req[s].kind \notin {"code", "refresh"}
    BY <2>2, AtStep
  <2> QED
    BY <2>2, <2>4, <2>5 DEF Effect, Plain, Answering, Quiet, ghostVars
<1>11. CASE ExchangeCode(s)
  <2>1. Continue(s, req[s]) \/ Answer(s)
    BY <1>11 DEF ExchangeCode
  <2>2. At(s, "exchange") /\ UNCHANGED <<db, fresh, ghostVars>>
    BY <1>11 DEF ExchangeCode
  <2>3. Ends(s) \/ Goes(s)
    BY <1>d, <2>1, <2>2, AtStep, Continues
  <2>4. req[s].kind \notin {"code", "refresh"}
    BY <2>2, AtStep
  <2> QED
    BY <2>2, <2>3, <2>4 DEF Effect, Plain, Answering, Quiet, ghostVars
<1>12. CASE StoreAuthCode(s)
  <2> DEFINE row == [client |-> req[s].row.client, session |-> req[s].grant, redirect |-> req[s].row.redirect,
                     challenge |-> req[s].row.challenge, expires |-> now + CodeTTL, used |-> FALSE]
             new == InsertAuthCode(db, <<"code", req[s].id>>, row)
  <2>1. At(s, "code") /\ Statement(s, "code", new, req[s]) /\ UNCHANGED ghostVars
    BY <1>12 DEF StoreAuthCode
  <2>2. DOMAIN row = CodeColumns /\ row.used = FALSE
    BY DEF CodeColumns
  <2> HIDE DEF row
  <2>3. new.authCodes = With(codes, <<"code", req[s].id>>, row) /\ new.refreshTokens = tokens
    BY <1>d DEF InsertAuthCode, Tables
  <2> HIDE DEF new
  <2>4. req[s].kind = "callback" /\ req[s].pc # Len(Order[req[s].kind])
    BY <2>1, AtStep
  <2>0. UNCHANGED fresh /\ ((db' = new /\ Goes(s)) \/ (UNCHANGED db /\ Ends(s)))
    BY <2>1, <2>4, FirmStatement DEF BestEffort
  <2>5. CASE UNCHANGED db /\ Ends(s)
    BY <2>0, <2>1, <2>4, <2>5 DEF Effect, Plain, Answering, Quiet, ghostVars
  <2>6. CASE db' = new /\ Goes(s)
    BY <2>0, <2>1, <2>2, <2>3, <2>4, <2>6 DEF Effect, StoresCode, Quiet, ghostVars
  <2> QED
    BY <2>0, <2>5, <2>6
<1>13. CASE RedirectWithCode(s)
  BY <1>13, <1>d, AtStep, Continues DEF RedirectWithCode, Effect, Redirects
<1> QED
  BY <1>1, <1>2, <1>4, <1>5, <1>6, <1>7, <1>8, <1>9, <1>10, <1>11, <1>12, <1>13 DEF LoginNext

LEMMA TokenEffects ==
    ASSUME StoreType, RequestType, NEW s \in Slots, TokenNext(s)
    PROVE  Effect
<1> USE DEF codes, tokens
<1>d. DOMAIN db = Tables /\ DOMAIN req[s] = RequestFields
  BY DEF StoreType, RequestType
\* Requests arrive.
<1>1. ASSUME NEW g \in known, NEW p \in TokenParams, HandleToken(s, g, p) PROVE Effect
  <2> DEFINE checks == << <<"unsupported_grant_type", p.grant \notin {"code", "refresh"}>>,
                          <<"client_id", p.client = Null>>,
                          <<"redirect_uri", p.grant = "code" /\ p.redirect = Null>>,
                          <<"invalid_client", GetClient(db, p.client) = Null>> >>
  <2>1. CASE FirstFailure(checks) = "ok" /\ Begin(s, p.grant, p, g)
    <3>1. Len(checks) = 4 /\ checks[1][2] = (p.grant \notin {"code", "refresh"})
      OBVIOUS
    <3>2. \A i \in 1 .. 4 : checks[i][1] # "ok"
      OBVIOUS
    <3> HIDE DEF checks
    <3>3. ~checks[1][2]
      BY <2>1, <3>1, <3>2, FirstFailureOk
    <3>4. p.grant \in {"code", "refresh"}
      BY <3>1, <3>3
    <3>5. Free(s)
      BY <1>1 DEF HandleToken
    <3>6. Arrives(s)
      BY <2>1, <3>4, <3>5, Begins DEF Kinds
    <3> QED
      BY <3>6 DEF Effect
  <2>2. CASE Refuse
    BY <2>2, Refuses DEF Effect
  <2> QED
    BY <1>1, <2>1, <2>2 DEF HandleToken
<1>2. ASSUME NEW t \in known \cup {Null}, HandleRevoke(s, t) PROVE Effect
  BY <1>2, Begins, Refuses DEF HandleRevoke, Effect, Kinds
<1>3. ASSUME NEW t, NEW p \in UseParams, ValidateRequest(s, t, p) PROVE Effect
  BY <1>3, Begins, Refuses DEF ValidateRequest, Effect, Kinds
\* Requests read a row.
<1>4. ASSUME NEW step, NEW row, NEW passes, Read(s, step, row, passes)
      PROVE  /\ UNCHANGED <<db, fresh, ghostVars>> /\ At(s, step)
             /\ Ends(s) \/ (passes /\ Goes(s) /\ req'[s].row = row)
  <2> DEFINE r == [req[s] EXCEPT !.row = row]
  <2>1. /\ DOMAIN r = RequestFields /\ r.kind = req[s].kind /\ r.pc = req[s].pc
        /\ r.grant = req[s].grant /\ r.in = req[s].in /\ r.id = req[s].id
        /\ r.row = row
    BY <1>d DEF RequestFields
  <2> HIDE DEF r
  <2>2. UNCHANGED <<db, fresh, ghostVars>> /\ At(s, step) /\ ((passes /\ Continue(s, r)) \/ Answer(s))
    BY <1>4 DEF Read, r
  <2> QED
    BY <2>1, <2>2, AtStep, Continues
<1>5. CASE handleAuthorizationCodeGrant(s)
  <2> DEFINE row == GetAuthCode(db, req[s].grant)
             p == req[s].in
             checks == << <<"used", row.used>>, <<"expired", IsExpired(row)>>,
                          <<"client", row.client # p.client>>, <<"redirect", row.redirect # p.redirect>>,
                          <<"pkce", row.challenge # Null /\ (p.verifier = Null
                                        \/ ~VerifyCodeChallenge(p.verifier, row.challenge))>> >>
  <2>1. Read(s, "getCode", row, row # Null /\ FirstFailure(checks) = "ok")
    BY <1>5 DEF handleAuthorizationCodeGrant
  <2>2. FirstFailure(checks) = "ok" => ~row.used
    <3>1. Len(checks) = 5 /\ checks[1][2] = row.used /\ \A i \in 1 .. 5 : checks[i][1] # "ok"
      OBVIOUS
    <3> HIDE DEF checks
    <3> QED
      BY <3>1, FirstFailureOk
  <2> HIDE DEF checks
  <2>3. row # Null => req[s].grant \in DOMAIN codes /\ row = codes[req[s].grant]
    BY DEF GetAuthCode, Find
  <2> HIDE DEF row
  <2>4. /\ UNCHANGED <<db, fresh, ghostVars>> /\ At(s, "getCode")
        /\ Ends(s) \/ (Goes(s) /\ req[s].grant \in DOMAIN codes /\ ~codes[req[s].grant].used)
    BY <1>4, <2>1, <2>2, <2>3
  <2> QED
    BY <2>4, AtStep DEF Effect, Plain, ReadsGrant, Quiet, ghostVars
<1>6. CASE handleRefreshTokenGrant(s)
  <2> DEFINE row == GetRefreshToken(db, req[s].grant)
             checks == << <<"revoked", row.revoked>>, <<"expired", IsExpired(row)>>,
                          <<"client", row.client # req[s].in.client>> >>
  <2>1. Read(s, "getRefresh", row, row # Null /\ FirstFailure(checks) = "ok")
    BY <1>6 DEF handleRefreshTokenGrant
  <2>2. FirstFailure(checks) = "ok" => ~row.revoked
    <3>1. Len(checks) = 3 /\ checks[1][2] = row.revoked /\ \A i \in 1 .. 3 : checks[i][1] # "ok"
      OBVIOUS
    <3> HIDE DEF checks
    <3> QED
      BY <3>1, FirstFailureOk
  <2> HIDE DEF checks
  <2>3. row # Null => req[s].grant \in DOMAIN tokens /\ row = tokens[req[s].grant]
    BY DEF GetRefreshToken, Find
  <2> HIDE DEF row
  <2>4. /\ UNCHANGED <<db, fresh, ghostVars>> /\ At(s, "getRefresh")
        /\ Ends(s) \/ (Goes(s) /\ req[s].grant \in DOMAIN tokens /\ ~tokens[req[s].grant].revoked
                               /\ req'[s].row = tokens[req[s].grant])
    BY <1>4, <2>1, <2>2, <2>3
  <2> QED
    BY <2>4, AtStep DEF Effect, Plain, ReadsGrant, Quiet, ghostVars
<1>7. CASE CheckAccessToken(s)
  <2>1. \E row, passes : Read(s, "getAccess", row, passes)
    BY <1>7 DEF CheckAccessToken
  <2>2. UNCHANGED <<db, fresh, ghostVars>> /\ At(s, "getAccess") /\ (Ends(s) \/ Goes(s))
    BY <1>4, <2>1
  <2>3. req[s].kind \notin {"code", "refresh"}
    BY <2>2, AtStep
  <2> QED
    BY <2>2, <2>3 DEF Effect, Plain, Answering, Quiet, ghostVars
\* The proof is checked; the key is all that a request takes from it.
<1>8. CASE CheckProof(s)
  <2>1. PICK p, method, url : validateDPoP(s, p, method, url)
    BY <1>8 DEF CheckProof
  <2>2. /\ At(s, "jti") /\ UNCHANGED <<fresh, known, issued, ended, lost>>
        /\ Answer(s) \/ \E key : Continue(s, [req[s] EXCEPT !.key = key])
    BY <2>1 DEF validateDPoP
  <2>3. UNCHANGED <<codes, tokens>>
    BY <1>d, <2>1 DEF validateDPoP, InsertIfNew, Tables
  <2>4. Ends(s) \/ (Goes(s) /\ SameRow(s))
    <3>1. ASSUME NEW key, Continue(s, [req[s] EXCEPT !.key = key]) PROVE Ends(s) \/ (Goes(s) /\ SameRow(s))
      <4> DEFINE r == [req[s] EXCEPT !.key = key]
      <4>1. /\ DOMAIN r = RequestFields /\ r.kind = req[s].kind /\ r.pc = req[s].pc /\ r.grant = req[s].grant
            /\ r.in = req[s].in /\ r.id = req[s].id /\ r.row = req[s].row
        BY <1>d DEF RequestFields
      <4> HIDE DEF r
      <4> QED
        BY <2>2, <3>1, <4>1, AtStep, Continues DEF r, SameRow
    <3> QED
      BY <1>d, <2>2, <3>1, AtStep, Continues
  <2>5. req[s].kind \in {"code", "refresh"} => req[s].pc = 2
    BY <2>2, AtStep
  <2> QED
    BY <2>2, <2>3, <2>4, <2>5 DEF Effect, Plain, Answering, Quiet
\* Statements.
<1>9. CASE MarkCodeUsed(s)
  <2> DEFINE new == MarkUsed(db, req[s].grant)
  <2>1. At(s, "mark") /\ Statement(s, "mark", new, req[s]) /\ UNCHANGED ghostVars
    BY <1>9 DEF MarkCodeUsed
  <2>2. /\ new.authCodes = IF req[s].grant \in DOMAIN codes THEN [codes EXCEPT ![req[s].grant].used = TRUE] ELSE codes
        /\ new.refreshTokens = tokens
    BY <1>d DEF MarkUsed, Tables
  <2> HIDE DEF new
  <2>3. req[s].kind = "code" /\ req[s].pc = 3 /\ Len(Order[req[s].kind]) = 6
    BY <2>1, AtStep
  <2>4. UNCHANGED fresh /\ ((db' = new /\ Goes(s) /\ SameRow(s)) \/ (UNCHANGED db /\ Ends(s)))
    <3>1. "mark" \notin BestEffort /\ req[s].pc # Len(Order[req[s].kind])
      BY <2>3 DEF BestEffort
    <3> QED
      BY <2>1, <3>1, FirmStatement
  <2>5. CASE UNCHANGED db /\ Ends(s)
    BY <2>1, <2>3, <2>4, <2>5 DEF Effect, Plain, Answering, Quiet, ghostVars
  <2>6. CASE db' = new /\ Goes(s) /\ SameRow(s)
    BY <2>1, <2>2, <2>3, <2>4, <2>6 DEF Effect, Marks, Quiet, ghostVars
  <2> QED
    BY <2>4, <2>5, <2>6
<1>10. CASE StoreAccessToken(s)
  <2>1. PICK row : Statement(s, "access", InsertAccessToken(db, <<"at", req[s].id>>, row), req[s])
    BY <1>10 DEF StoreAccessToken
  <2>2. InsertAccessToken(db, <<"at", req[s].id>>, row) # Null =>
           /\ InsertAccessToken(db, <<"at", req[s].id>>, row).authCodes = codes
           /\ InsertAccessToken(db, <<"at", req[s].id>>, row).refreshTokens = tokens
    BY <1>d DEF InsertAccessToken, Referring, Tables
  <2>3. Plain(s)
    BY <1>10, <1>d, <2>1, <2>2, PlainStatement DEF StoreAccessToken
  <2> QED
    BY <2>3 DEF Effect
<1>11. CASE StoreRefreshToken(s)
  <2> DEFINE row == IF req[s].kind = "code" THEN NewRefreshToken(req[s]) ELSE RotatedRefreshToken(req[s])
             new == InsertRefreshToken(db, <<"rt", req[s].id>>, row)
  <2>1. At(s, "refresh") /\ Statement(s, "refresh", new, req[s]) /\ UNCHANGED ghostVars
    BY <1>11 DEF StoreRefreshToken
  <2>2. DOMAIN row = TokenColumns /\ row.revoked = FALSE /\ row.session = req[s].row.session
    BY DEF TokenColumns, NewRefreshToken, RotatedRefreshToken
  <2> HIDE DEF row
  <2>3. new # Null => new.refreshTokens = With(tokens, <<"rt", req[s].id>>, row) /\ new.authCodes = codes
    BY <1>d DEF InsertRefreshToken, Referring, Tables
  <2> HIDE DEF new
  <2>4. <<req[s].kind, req[s].pc>> \in {<<"code", 5>>, <<"refresh", 4>>} /\ Len(Order[req[s].kind]) = 6
    BY <2>1, AtStep
  <2>5. UNCHANGED fresh /\ ((new # Null /\ db' = new /\ Goes(s) /\ SameRow(s)) \/ (UNCHANGED db /\ Ends(s)))
    <3>1. "refresh" \notin BestEffort /\ req[s].pc # Len(Order[req[s].kind])
      BY <2>4 DEF BestEffort
    <3> QED
      BY <2>1, <3>1, FirmStatement
  <2>6. CASE UNCHANGED db /\ Ends(s)
    BY <2>1, <2>4, <2>5, <2>6 DEF Effect, Plain, Answering, Quiet, ghostVars
  <2>7. CASE new # Null /\ db' = new /\ Goes(s) /\ SameRow(s)
    BY <2>1, <2>2, <2>3, <2>4, <2>5, <2>7 DEF Effect, StoresToken, Quiet, ghostVars
  <2> QED
    BY <2>5, <2>6, <2>7
<1>12. RevokeRefreshToken(db, req[s].grant).refreshTokens = Revoked(req[s].grant)
       /\ RevokeRefreshToken(db, req[s].grant).authCodes = codes
  BY <1>d DEF RevokeRefreshToken, Revoked, Tables
<1>13. CASE RevokeOld(s)
  <2>1. /\ At(s, "revoke") /\ Statement(s, "revoke", RevokeRefreshToken(db, req[s].grant), req[s])
        /\ UNCHANGED ghostVars
    BY <1>13 DEF RevokeOld
  <2>2. req[s].kind = "refresh" /\ req[s].pc = 5 /\ Len(Order[req[s].kind]) = 6
    BY <2>1, AtStep
  <2>3. /\ UNCHANGED fresh
        /\ \/ db' = RevokeRefreshToken(db, req[s].grant) /\ Goes(s) /\ SameRow(s)
           \/ UNCHANGED db /\ Ends(s)
    <3>1. "revoke" \notin BestEffort /\ req[s].pc # Len(Order[req[s].kind])
      BY <2>2 DEF BestEffort
    <3> QED
      BY <2>1, <3>1, FirmStatement
  <2> QED
    BY <1>12, <2>1, <2>2, <2>3 DEF Effect, Plain, Answering, Rotates, Quiet, ghostVars
<1>14. CASE AnswerTokens(s)
  <2>1. At(s, "answer") /\ Answer(s)
    BY <1>14 DEF AnswerTokens
  <2>2. Ends(s) /\ req[s].kind \in {"code", "refresh"} /\ req[s].pc = 6
    BY <1>d, <2>1, AtStep, Continues
  <2> QED
    BY <1>14, <2>2 DEF AnswerTokens, Effect, Answers
<1>15. CASE RevokeInBoth(s)
  <2>1. CASE At(s, "revokeAccess") /\ UNCHANGED ghostVars
             /\ Statement(s, "revokeAccess", RevokeAccessToken(db, req[s].grant), req[s])
    <3>1. /\ RevokeAccessToken(db, req[s].grant).authCodes = codes
          /\ RevokeAccessToken(db, req[s].grant).refreshTokens = tokens
      BY <1>d DEF RevokeAccessToken, Tables
    <3>2. Plain(s)
      BY <1>d, <2>1, <3>1, PlainStatement
    <3> QED
      BY <3>2 DEF Effect
  <2>2. CASE /\ At(s, "revokeRefresh") /\ UNCHANGED <<known, issued, accepted, lost>>
             /\ Statement(s, "revokeRefresh", RevokeRefreshToken(db, req[s].grant), req[s])
             /\ ended' = ended \cup {db.refreshTokens[t].session : t \in DOMAIN db.refreshTokens \cap {req[s].grant}}
    <3>1. req[s].kind = "revoke" /\ req[s].pc = Len(Order[req[s].kind])
      BY <2>2, AtStep
    <3>2. UNCHANGED fresh /\ Ends(s) /\ (db' = RevokeRefreshToken(db, req[s].grant) \/ UNCHANGED db)
      BY <1>d, <2>2, <3>1, StatementDoes
    <3> QED
      BY <1>12, <2>2, <3>1, <3>2 DEF Effect, EndsSession
  <2> QED
    BY <1>15, <2>1, <2>2 DEF RevokeInBoth
<1> QED
  BY <1>1, <1>2, <1>3, <1>5, <1>6, <1>7, <1>8, <1>9, <1>10, <1>11, <1>13, <1>14, <1>15 DEF TokenNext

LEMMA OtherEffects ==
    ASSUME StoreType, RequestType, ClientNext \/ StartCleanupWorker \/ CleanTable,
           clean \in [at : 0 .. 5, now : Nat]
    PROVE  Effect
<1> USE DEF codes, tokens
<1>d. DOMAIN db = Tables /\ \A s \in Slots : DOMAIN req[s] = RequestFields
  BY DEF StoreType, RequestType
<1>1. ASSUME NEW s \in Slots, NEW p, HandlePAR(s, p) PROVE Effect
  BY <1>1, Begins, Refuses DEF HandlePAR, Effect, Kinds
<1>2. ASSUME NEW s \in Slots, StorePAR(s) PROVE Effect
  <2>1. PICK row : Statement(s, "par", InsertPARRequest(db, <<"par", req[s].id>>, row), req[s])
    BY <1>2 DEF StorePAR
  <2>2. InsertPARRequest(db, <<"par", req[s].id>>, row) # Null =>
           /\ InsertPARRequest(db, <<"par", req[s].id>>, row).authCodes = codes
           /\ InsertPARRequest(db, <<"par", req[s].id>>, row).refreshTokens = tokens
    BY <1>d DEF InsertPARRequest, Referring, Tables
  <2>3. Plain(s)
    BY <1>2, <1>d, <2>1, <2>2, PlainStatement DEF StorePAR
  <2> QED
    BY <2>3 DEF Effect
<1>3. ASSUME NEW s \in Slots, NEW c, NEW redirects, UpdateOAuthClient(s, c, redirects) PROVE Effect
  BY <1>3, Begins, Refuses DEF UpdateOAuthClient, Effect, Kinds
<1>4. ASSUME NEW s \in Slots, WriteClient(s) PROVE Effect
  <2>1. /\ UpdateClient(db, req[s].grant, req[s].in).authCodes = codes
        /\ UpdateClient(db, req[s].grant, req[s].in).refreshTokens = tokens
    BY <1>d DEF UpdateClient, Tables
  <2>2. Plain(s)
    BY <1>4, <1>d, <2>1, PlainStatement DEF WriteClient
  <2> QED
    BY <2>2 DEF Effect
<1>5. ASSUME NEW id, NEW row, UNCHANGED ended, ClientStatement(InsertClient(db, id, row)) PROVE Effect
  BY <1>5, <1>d DEF ClientStatement, InsertClient, Effect, Housekeeping, Tables
<1>6. ASSUME NEW c, DeleteOAuthClient(c) PROVE Effect
  <2>1. /\ db' = db \/ db' = DeleteClient(db, c)
        /\ UNCHANGED <<req, known, issued, lost>> /\ fresh' \in {fresh, fresh + 1}
        /\ ended' = ended \cup {db.refreshTokens[t].session :
                                t \in {x \in DOMAIN db.refreshTokens : db.refreshTokens[x].client = c}}
    BY <1>6 DEF DeleteOAuthClient, ClientStatement
  <2>2. /\ DeleteClient(db, c).authCodes = codes
        /\ DeleteClient(db, c).refreshTokens = [t \in {x \in DOMAIN tokens : tokens[x].client # c} |-> tokens[t]]
    BY <1>d DEF DeleteClient, Keeping, Restrict, Tables
  <2> QED
    BY <2>1, <2>2 DEF Effect, Housekeeping
<1>7. CASE StartCleanupWorker
  BY <1>7 DEF StartCleanupWorker, ghostVars, Effect, Housekeeping
<1>8. CASE CleanTable
  <2>1. /\ UNCHANGED <<req, fresh, ghostVars>> /\ clean.at \in 1 .. 5
        /\ (UNCHANGED db \/ db' = Deletions(clean.now)[clean.at])
    BY <1>8 DEF CleanTable
  <2>2. ASSUME NEW t, NEW i \in 1 .. 5
        PROVE  LET d == Deletions(t)[i] IN
               /\ d.refreshTokens = tokens /\ DOMAIN d.authCodes \subseteq DOMAIN codes
               /\ \A c \in DOMAIN d.authCodes : d.authCodes[c] = codes[c]
    <3>1. CASE i = 1
      BY <1>d, <3>1 DEF Deletions, DeleteExpiredAuthRequests, Tables
    <3>2. CASE i = 2
      BY <1>d, <3>2 DEF Deletions, DeleteExpiredATPRequests, Tables
    <3>3. CASE i = 3
      BY <1>d, <3>3 DEF Deletions, DeleteExpiredAuthCodes, Unexpired, Keeping, Restrict, Tables
    <3>4. CASE i = 4
      BY <1>d, <3>4 DEF Deletions, DeleteExpiredAccessTokens, Tables
    <3>5. CASE i = 5
      BY <1>d, <3>5 DEF Deletions, DeleteJTIsOlderThan, Tables
    <3> QED
      BY <3>1, <3>2, <3>3, <3>4, <3>5
  <2>3. UNCHANGED tokens /\ DOMAIN codes' \subseteq DOMAIN codes /\ \A c \in DOMAIN codes' : codes'[c] = codes[c]
    BY <2>1, <2>2
  <2> QED
    BY <2>1, <2>3 DEF Effect, Housekeeping, ghostVars
<1> QED
  BY <1>1, <1>2, <1>3, <1>4, <1>5, <1>6, <1>7, <1>8 DEF ClientNext, HandleRegister, CreateOAuthClient

-----------------------------------------------------------------------------
(* The OAuth server: effects keep the invariant.                           *)

LEMMA RequestsKept ==
    ASSUME KeyType, RequestType, Effect
    PROVE  RequestType' /\ KeyType'
<1> USE DEF Free, Drawn
<1>n. fresh \in Nat /\ known \subseteq {"code", "at", "rt"} \X Drawn
  BY DEF KeyType
<1>1. ASSUME NEW s \in Slots, Ends(s), UNCHANGED fresh, \A x \in known' : x \in known \/ x[2] = req[s].id, known \subseteq known'
      PROVE  RequestType'
  <2>1. DOMAIN req' = Slots /\ \A x \in Slots \ {s} : req'[x] = req[x]
    BY <1>1 DEF Ends, Same
  <2>2. req'[s] = NoRequest
    BY <1>1 DEF Ends
  <2>3. \A x \in Slots \ {s} : req[x].kind # "none" => req[x].id # req[s].id
    BY <1>1 DEF Ends, RequestType
  <2> QED
    BY <1>1, <2>1, <2>2, <2>3 DEF RequestType, NoRequest, RequestFields
<1>2. ASSUME NEW s \in Slots, Goes(s), UNCHANGED <<fresh, known>>
      PROVE  RequestType'
  <2>1. DOMAIN req' = Slots /\ \A x \in Slots \ {s} : req'[x] = req[x]
    BY <1>2 DEF Goes, Same
  <2>2. req[s].pc \in 1 .. Len(Order[req[s].kind]) /\ Len(Order[req[s].kind]) \in Nat
    BY <1>2, Steps DEF Goes, RequestType
  <2>3. req'[s].pc \in 1 .. Len(Order[req'[s].kind])
    BY <1>2, <2>2 DEF Goes
  <2> QED
    BY <1>2, <2>1, <2>3 DEF RequestType, Goes
<1>3. ASSUME NEW s \in Slots, Arrives(s)
      PROVE  RequestType'
  <2>1. DOMAIN req' = Slots /\ \A x \in Slots \ {s} : req'[x] = req[x]
    BY <1>3 DEF Arrives, Same
  <2>2. req'[s].pc \in 1 .. Len(Order[req'[s].kind])
    <3>1. req'[s].kind \in Kinds /\ req'[s].pc = 1
      BY <1>3, Steps DEF Arrives
    <3>2. Len(Order[req'[s].kind]) \in 1 .. 7
      BY <3>1, Steps
    <3>3. \A n \in 1 .. 7 : 1 \in 1 .. n
      OBVIOUS
    <3> QED
      BY <3>1, <3>2, <3>3, Zenon
  <2>3. \A x \in Slots \ {s} : req[x].kind # "none" => req[x].id # fresh
    BY <1>n DEF RequestType
  <2>4. \A x \in known : x[2] # fresh
    BY <1>n
  <2> QED
    BY <1>3, <1>n, <2>1, <2>2, <2>3, <2>4 DEF RequestType, Arrives
<1>4. CASE Housekeeping
  BY <1>4, <1>n DEF Housekeeping, RequestType, KeyType
<1>5. ASSUME NEW s \in Slots, Arrives(s) PROVE KeyType'
  BY <1>5, <1>n DEF Arrives, KeyType
<1>6. ASSUME NEW s \in Slots, Plain(s) \/ ReadsGrant(s) PROVE RequestType' /\ KeyType'
  BY <1>6, <1>1, <1>2 DEF Plain, ReadsGrant, Quiet, KeyType
<1>7. ASSUME NEW s \in Slots, StoresCode(s) PROVE RequestType' /\ KeyType'
  <2>1. RequestType' /\ req[s].id \in Drawn
    BY <1>7, <1>2 DEF StoresCode, Quiet, RequestType
  <2>2. PICK row : /\ codes' = With(codes, <<"code", req[s].id>>, row)
                   /\ DOMAIN row = CodeColumns /\ row.used = FALSE
    BY <1>7 DEF StoresCode
  <2>3. UNCHANGED <<fresh, known, tokens>>
    BY <1>7 DEF StoresCode, Quiet
  <2>4. /\ DOMAIN codes' = DOMAIN codes \cup {<<"code", req[s].id>>}
        /\ \A c \in DOMAIN codes' : IF c = <<"code", req[s].id>> THEN codes'[c] = row ELSE codes'[c] = codes[c]
    BY <2>2 DEF With
  <2>5. \A c \in DOMAIN codes' : DOMAIN codes'[c] = CodeColumns /\ codes'[c].used \in BOOLEAN
    BY <2>2, <2>4 DEF KeyType
  <2>6. DOMAIN codes' \subseteq {"code"} \X Drawn
    BY <2>1, <2>4 DEF KeyType
  <2> QED
    BY <2>1, <2>3, <2>5, <2>6 DEF KeyType
<1>8. ASSUME NEW s \in Slots, StoresToken(s) PROVE RequestType' /\ KeyType'
  <2>1. RequestType' /\ req[s].id \in Drawn
    BY <1>8, <1>2 DEF StoresToken, Quiet, RequestType, Goes
  <2>2. PICK row : /\ tokens' = With(tokens, <<"rt", req[s].id>>, row)
                   /\ DOMAIN row = TokenColumns /\ row.revoked = FALSE
    BY <1>8 DEF StoresToken
  <2>3. UNCHANGED <<fresh, known, codes>>
    BY <1>8 DEF StoresToken, Quiet
  <2>4. /\ DOMAIN tokens' = DOMAIN tokens \cup {<<"rt", req[s].id>>}
        /\ \A c \in DOMAIN tokens' : IF c = <<"rt", req[s].id>> THEN tokens'[c] = row ELSE tokens'[c] = tokens[c]
    BY <2>2 DEF With
  <2>5. \A c \in DOMAIN tokens' : DOMAIN tokens'[c] = TokenColumns /\ tokens'[c].revoked \in BOOLEAN
    BY <2>2, <2>4 DEF KeyType
  <2>6. DOMAIN tokens' \subseteq {"rt"} \X Drawn
    BY <2>1, <2>4 DEF KeyType
  <2> QED
    BY <2>1, <2>3, <2>5, <2>6 DEF KeyType
<1>9. ASSUME NEW s \in Slots, Marks(s) PROVE RequestType' /\ KeyType'
  <2>1. RequestType'
    BY <1>9, <1>2 DEF Marks, Quiet
  <2> QED
    BY <1>9, <2>1 DEF Marks, Quiet, KeyType, CodeColumns
<1>10. ASSUME NEW s \in Slots, Rotates(s) PROVE RequestType' /\ KeyType'
  <2>1. RequestType'
    BY <1>10, <1>2 DEF Rotates, Quiet
  <2> QED
    BY <1>10, <2>1 DEF Rotates, Quiet, KeyType, TokenColumns, Revoked
<1>11. ASSUME NEW s \in Slots, EndsSession(s) PROVE RequestType' /\ KeyType'
  <2>1. RequestType'
    BY <1>11, <1>1 DEF EndsSession
  <2> QED
    BY <1>11, <2>1 DEF EndsSession, KeyType, TokenColumns, Revoked
<1>12. ASSUME NEW s \in Slots, Answers(s) \/ Redirects(s) PROVE RequestType' /\ KeyType'
  <2>1. req[s].id \in Drawn
    BY <1>12 DEF Answers, Redirects, Ends, RequestType
  <2>2. /\ known \subseteq known' /\ UNCHANGED <<fresh, codes, tokens>> /\ Ends(s)
        /\ \A x \in known' : x \in known \/ x \in {<<"at", req[s].id>>, <<"rt", req[s].id>>, <<"code", req[s].id>>}
    BY <1>12 DEF Answers, Redirects
  <2>3. RequestType'
    BY <2>2, <1>1
  <2> QED
    BY <2>1, <2>2, <2>3 DEF KeyType
<1> QED
  BY <1>3, <1>4, <1>5, <1>6, <1>7, <1>8, <1>9, <1>10, <1>11, <1>12 DEF Effect

\* A grant that is dead stays so: new codes and tokens have keys that nobody knows.
LEMMA DeadKept ==
    ASSUME KeyType, RequestType, Effect, NEW g \in known, Dead(g)
    PROVE  Dead(g)'
<1>n. \A s \in Slots : ~Free(s) => g # <<"code", req[s].id>> /\ g # <<"rt", req[s].id>>
  BY DEF RequestType
<1>1. CASE Housekeeping
  BY <1>1 DEF Housekeeping, Dead
<1>2. ASSUME NEW s \in Slots, Arrives(s) \/ Plain(s) \/ ReadsGrant(s) \/ Answers(s) \/ Redirects(s)
      PROVE  Dead(g)'
  <2>1. UNCHANGED <<codes, tokens>>
    BY <1>2 DEF Arrives, Plain, ReadsGrant, Answers, Redirects
  <2> QED
    BY <2>1 DEF Dead
<1>3. ASSUME NEW s \in Slots, StoresCode(s) PROVE Dead(g)'
  BY <1>3, <1>n DEF StoresCode, Goes, Dead, With
<1>4. ASSUME NEW s \in Slots, StoresToken(s) PROVE Dead(g)'
  BY <1>4, <1>n DEF StoresToken, Goes, Dead, With
<1>5. ASSUME NEW s \in Slots, Marks(s) PROVE Dead(g)'
  BY <1>5 DEF Marks, Dead, KeyType, CodeColumns
<1>6. ASSUME NEW s \in Slots, Rotates(s) \/ EndsSession(s) PROVE Dead(g)'
  BY <1>6 DEF Rotates, EndsSession, Revoked, Dead, KeyType, TokenColumns
<1> QED
  BY <1>1, <1>2, <1>3, <1>4, <1>5, <1>6 DEF Effect

\* A request's kind and place are its own.
LEMMA Places ==
    ASSUME RequestType, Effect, NEW x \in Slots, req'[x].kind \in {"code", "refresh"}, req'[x].pc >= 2
    PROVE  /\ req[x].kind = req'[x].kind /\ req[x].grant = req'[x].grant /\ req[x].id = req'[x].id
           /\ req[x].pc \in 1 .. 6 /\ req'[x].pc \in 2 .. 6
           /\ \/ req'[x] = req[x]
              \/ req[x].pc = 1 /\ req'[x].pc = 2 /\ ReadsGrant(x)
              \/ req[x].pc >= 2 /\ req'[x].pc = req[x].pc + 1 /\ SameRow(x)
<1>1. CASE req'[x] = req[x]
  <2>1. req[x].kind \in Kinds /\ req[x].pc \in 1 .. Len(Order[req[x].kind]) /\ Len(Order[req[x].kind]) = 6
    BY <1>1, Steps DEF RequestType, Free
  <2> QED
    BY <1>1, <2>1
<1>2. CASE req'[x] # req[x]
  <2>1. PICK s \in Slots : \/ Arrives(s) \/ Plain(s) \/ ReadsGrant(s) \/ StoresCode(s) \/ Marks(s) \/ StoresToken(s)
                           \/ Rotates(s) \/ EndsSession(s) \/ Answers(s) \/ Redirects(s)
    BY <1>2 DEF Effect, Housekeeping
  <2>2. Same(s)
    BY <2>1 DEF Arrives, Plain, ReadsGrant, StoresCode, Marks, StoresToken, Rotates, EndsSession, Answers,
       Redirects, Ends, Goes
  <2>3. s = x
    BY <1>2, <2>2 DEF Same
  <2>4. ~Arrives(x) /\ ~Ends(x)
    BY DEF Arrives, Ends, NoRequest
  <2>5. Goes(x) /\ (Plain(x) \/ ReadsGrant(x) \/ StoresCode(x) \/ Marks(x) \/ StoresToken(x) \/ Rotates(x))
    BY <2>1, <2>3, <2>4 DEF Plain, ReadsGrant, StoresCode, Marks, StoresToken, Rotates, EndsSession,
       Answers, Redirects
  <2>6. /\ req[x].kind = req'[x].kind /\ req[x].kind \in {"code", "refresh"} /\ Len(Order[req[x].kind]) = 6
        /\ req[x].pc \in 1 .. 6 /\ req'[x].pc = req[x].pc + 1 /\ req[x].pc < 6
    BY <2>5, Steps DEF Goes, RequestType
  <2>7. req[x].pc = 1 => ReadsGrant(x)
    <3>1. ~StoresCode(x) /\ (Marks(x) => req[x].pc = 3) /\ (Rotates(x) => req[x].pc = 5)
      BY <2>6 DEF StoresCode, Marks, Rotates
    <3>2. StoresToken(x) => req[x].pc \in {4, 5}
      BY DEF StoresToken
    <3>3. Plain(x) => req[x].pc \in {2, 3, 4}
      BY <2>4, <2>6 DEF Plain
    <3> QED
      BY <2>5, <3>1, <3>2, <3>3
  <2>8. req[x].pc # 1 => SameRow(x)
    <3>1. ~StoresCode(x)
      BY <2>6 DEF StoresCode
    <3>2. Plain(x) => SameRow(x)
      BY <2>4, <2>6 DEF Plain
    <3> QED
      BY <2>5, <3>1, <3>2 DEF ReadsGrant, Marks, StoresToken, Rotates
  <2> QED
    BY <2>5, <2>6, <2>7, <2>8 DEF Goes
<1> QED
  BY <1>1, <1>2

\* The steps that requests for tokens take.
LEMMA Moves ==
    ASSUME RequestType, Effect, NEW x \in Slots, req[x].kind \in {"code", "refresh"}, req'[x].kind = req[x].kind,
           req'[x].pc = req[x].pc + 1, req[x].pc >= 2
    PROVE  /\ req[x].kind = "code" /\ req[x].pc = 3 => Marks(x)
           /\ req[x].kind = "refresh" /\ req[x].pc = 5 => Rotates(x)
           /\ <<req[x].kind, req[x].pc>> \in {<<"code", 5>>, <<"refresh", 4>>} => StoresToken(x)
<1>1. req[x].pc \in Nat
  BY Steps DEF RequestType, Free
<1>2. PICK s \in Slots : \/ Arrives(s) \/ Plain(s) \/ ReadsGrant(s) \/ StoresCode(s) \/ Marks(s) \/ StoresToken(s)
                         \/ Rotates(s) \/ EndsSession(s) \/ Answers(s) \/ Redirects(s)
  BY <1>1 DEF Effect, Housekeeping
<1>3. Same(s)
  BY <1>2 DEF Arrives, Plain, ReadsGrant, StoresCode, Marks, StoresToken, Rotates, EndsSession, Answers,
     Redirects, Ends, Goes
<1>4. s = x
  BY <1>1, <1>3 DEF Same
<1>5. ~Arrives(x) /\ ~Ends(x)
  BY DEF Arrives, Free, Ends, NoRequest
<1>6. Plain(x) \/ ReadsGrant(x) \/ StoresCode(x) \/ Marks(x) \/ StoresToken(x) \/ Rotates(x)
  BY <1>2, <1>4, <1>5 DEF EndsSession, Answers, Redirects
<1>7. ~StoresCode(x) /\ ~ReadsGrant(x)
  BY DEF StoresCode, ReadsGrant
<1>8. Plain(x) => (req[x].kind = "code" => req[x].pc \in {2, 4}) /\ (req[x].kind = "refresh" => req[x].pc \in {2, 3})
  BY <1>5 DEF Plain
<1>9. /\ Marks(x) => req[x].kind = "code" /\ req[x].pc = 3
      /\ Rotates(x) => req[x].kind = "refresh" /\ req[x].pc = 5
      /\ StoresToken(x) => <<req[x].kind, req[x].pc>> \in {<<"code", 5>>, <<"refresh", 4>>}
  BY DEF Marks, Rotates, StoresToken
<1> QED
  BY <1>6, <1>7, <1>8, <1>9

LEMMA GrantsKept ==
    ASSUME KeyType, RequestType, GrantsDead, Effect
    PROVE  GrantsDead'
<1> SUFFICES ASSUME NEW x \in Slots, NEW g, g = req'[x].grant, req'[x].kind \in {"code", "refresh"}, req'[x].pc >= 2
             PROVE  /\ req'[x].kind = "code" => g[1] = "code" /\ (req'[x].pc >= 4 => Dead(g)')
                    /\ req'[x].kind = "refresh" => g[1] = "rt" /\ (req'[x].pc >= 6 => Dead(g)')
  BY DEF GrantsDead, Dead
<1>1. /\ req[x].grant = g /\ req[x].kind = req'[x].kind /\ g \in known /\ req[x].pc \in 1 .. 6
      /\ req'[x].pc \in 2 .. 6
  BY Places DEF RequestType
<1>2. Dead(g) => Dead(g)'
  BY <1>1, DeadKept
<1>3. CASE req'[x] = req[x]
  BY <1>1, <1>2, <1>3 DEF GrantsDead
<1>4. CASE req[x].pc = 1 /\ req'[x].pc = 2 /\ ReadsGrant(x)
  <2>1. \/ req[x].kind = "code" /\ g \in DOMAIN codes
        \/ req[x].kind = "refresh" /\ g \in DOMAIN tokens
    BY <1>1, <1>4 DEF ReadsGrant
  <2> QED
    BY <1>1, <1>4, <2>1 DEF KeyType
<1>5. CASE req[x].pc >= 2 /\ req'[x].pc = req[x].pc + 1
  <2>1. /\ req[x].kind = "code" => g[1] = "code" /\ (req[x].pc >= 4 => Dead(g))
        /\ req[x].kind = "refresh" => g[1] = "rt"
    BY <1>1, <1>5 DEF GrantsDead
  <2>2. ASSUME req[x].kind = "code", req[x].pc = 3 PROVE Dead(g)'
    <3>1. Marks(x)
      BY <1>1, <1>5, <2>2, Moves
    <3> QED
      BY <1>1, <2>1, <2>2, <3>1 DEF Marks, Dead, KeyType, CodeColumns
  <2>3. ASSUME req[x].kind = "refresh", req[x].pc = 5 PROVE Dead(g)'
    <3>1. Rotates(x)
      BY <1>1, <1>5, <2>3, Moves
    <3> QED
      BY <1>1, <2>1, <2>3, <3>1 DEF Rotates, Revoked, Dead, KeyType, TokenColumns
  <2> QED
    BY <1>1, <1>2, <1>5, <2>1, <2>2, <2>3
<1> QED
  BY <1>1, <1>3, <1>4, <1>5, Places

LEMMA IssuedKept ==
    ASSUME KeyType, RequestType, GrantsDead, IssuedOnce, Effect
    PROVE  IssuedOnce'
<1>k. known \subseteq known'
  BY DEF Effect, Housekeeping, Arrives, Plain, ReadsGrant, StoresCode, Marks, StoresToken, Rotates, EndsSession,
     Answers, Redirects, Quiet
\* Nobody reads a dead grant and finds it good.
<1>r. ASSUME NEW g \in known, Dead(g), NEW x \in Slots, x \in Redeeming(g)'
      PROVE  x \in Redeeming(g) /\ req'[x].id = req[x].id
  <2>1. ~(req[x].grant = g /\ ReadsGrant(x))
    BY <1>r DEF ReadsGrant, Dead
  <2>2. req'[x].kind \in {"code", "refresh"} /\ req'[x].pc >= 2 /\ req'[x].grant = g
    BY <1>r DEF Redeeming
  <2>3. req[x].kind \in {"code", "refresh"} /\ req[x].pc >= 2 /\ req[x].grant = g /\ req'[x].id = req[x].id
    BY <2>1, <2>2, Places
  <2> QED
    BY <2>3 DEF Redeeming
<1>1. ASSUME NEW g \in known, Dead(g), NEW E, \A s \in Redeeming(g) : req[s].id \in E
      PROVE  Dead(g)' /\ \A s \in Redeeming(g)' : req'[s].id \in E
  <2>1. \A s \in Redeeming(g)' : s \in Slots
    BY DEF Redeeming
  <2> QED
    BY <1>1, <1>r, <2>1, DeadKept
<1>2. CASE UNCHANGED issued
  <2> SUFFICES ASSUME NEW g \in DOMAIN issued
               PROVE  /\ g \in known' /\ Dead(g)' /\ issued[g].pairs \subseteq issued[g].early
                      /\ \A s \in Redeeming(g)' : req'[s].id \in issued[g].early
    BY <1>2 DEF IssuedOnce
  <2>1. /\ g \in known /\ Dead(g) /\ issued[g].pairs \subseteq issued[g].early
        /\ \A s \in Redeeming(g) : req[s].id \in issued[g].early
    BY DEF IssuedOnce
  <2> QED
    BY <2>1, <1>1, <1>k
<1>3. ASSUME NEW s \in Slots, Answers(s) PROVE IssuedOnce'
  <2>1. PICK h : h = req[s].grant
    OBVIOUS
  <2>2. h \in known /\ Dead(h) /\ s \in Redeeming(h)
    BY <1>3, <2>1 DEF Answers, RequestType, GrantsDead, Redeeming
  <2>3. PICK was : was = IF h \in DOMAIN issued THEN issued[h]
                         ELSE [early |-> {req[x].id : x \in Redeeming(h)}, pairs |-> {}]
    OBVIOUS
  <2>4. was.pairs \subseteq was.early /\ \A x \in Redeeming(h) : req[x].id \in was.early
    <3>1. CASE h \in DOMAIN issued
      BY <2>3, <3>1 DEF IssuedOnce
    <3>2. CASE h \notin DOMAIN issued
      BY <2>3, <3>2
    <3> QED
      BY <3>1, <3>2
  <2>5. PICK new : new = [early |-> was.early, pairs |-> was.pairs \cup {req[s].id}]
    OBVIOUS
  <2>6. new.early = was.early /\ new.pairs = was.pairs \cup {req[s].id}
    BY <2>5
  <2>7. issued' = With(issued, h, new)
    BY <1>3, <2>1, <2>3, <2>5 DEF Answers, Issue
  <2> SUFFICES ASSUME NEW g \in DOMAIN issued'
               PROVE  /\ g \in known' /\ Dead(g)' /\ issued'[g].pairs \subseteq issued'[g].early
                      /\ \A x \in Redeeming(g)' : req'[x].id \in issued'[g].early
    BY DEF IssuedOnce
  <2>8. CASE g = h
    <3>1. issued'[g] = new
      BY <2>7, <2>8 DEF With
    <3>2. new.pairs \subseteq new.early
      BY <2>2, <2>4, <2>6
    <3>3. Dead(g)' /\ \A x \in Redeeming(g)' : req'[x].id \in new.early
      BY <1>1, <2>2, <2>4, <2>6, <2>8
    <3> QED
      BY <1>k, <2>2, <2>8, <3>1, <3>2, <3>3
  <2>9. CASE g # h
    <3>1. g \in DOMAIN issued /\ issued'[g] = issued[g]
      BY <2>7, <2>9 DEF With
    <3>2. /\ g \in known /\ Dead(g) /\ issued[g].pairs \subseteq issued[g].early
          /\ \A x \in Redeeming(g) : req[x].id \in issued[g].early
      BY <3>1 DEF IssuedOnce
    <3> QED
      BY <1>1, <1>k, <3>1, <3>2
  <2> QED
    BY <2>8, <2>9
<1>4. UNCHANGED issued \/ \E s \in Slots : Answers(s)
  BY DEF Effect, Housekeeping, Arrives, Plain, ReadsGrant, StoresCode, Marks, StoresToken, Rotates,
     EndsSession, Redirects, Quiet
<1> QED
  BY <1>2, <1>3, <1>4

\* What becomes of refresh tokens.
LEMMA TokenMoves ==
    ASSUME KeyType, RequestType, Effect
    PROVE  /\ ended \subseteq ended' /\ known \subseteq known' /\ lost \subseteq lost'
           /\ \A t \in DOMAIN tokens \ DOMAIN tokens' : tokens[t].session \in ended'
           /\ \A t \in DOMAIN tokens' :
                 \/ /\ t \in DOMAIN tokens /\ tokens'[t].session = tokens[t].session
                    /\ \/ tokens'[t].revoked = tokens[t].revoked
                       \/ t \in known /\ tokens[t].session \in ended'
                       \/ t \in known /\ \E s \in Slots : Rotates(s) /\ t = req[s].grant
                 \/ \E s \in Slots : /\ StoresToken(s) /\ t = <<"rt", req[s].id>>
                                     /\ tokens'[t].session = req[s].row.session /\ ~tokens'[t].revoked
<1>1. CASE Housekeeping
  BY <1>1 DEF Housekeeping
<1>2. ASSUME NEW s \in Slots, Arrives(s) \/ Plain(s) \/ ReadsGrant(s) \/ StoresCode(s) \/ Marks(s)
      PROVE  UNCHANGED <<tokens, ended, known, lost>>
  BY <1>2 DEF Arrives, Plain, ReadsGrant, StoresCode, Marks, Quiet
<1>3. ASSUME NEW s \in Slots, Answers(s) \/ Redirects(s)
      PROVE  UNCHANGED <<tokens, ended>> /\ known \subseteq known' /\ lost \subseteq lost'
  BY <1>3 DEF Answers, Redirects
<1>4. ASSUME NEW s \in Slots, StoresToken(s)
      PROVE  /\ UNCHANGED <<ended, known, lost>> /\ DOMAIN tokens' = DOMAIN tokens \cup {<<"rt", req[s].id>>}
             /\ \A t \in DOMAIN tokens' :
                   IF t = <<"rt", req[s].id>> THEN tokens'[t].session = req[s].row.session /\ ~tokens'[t].revoked
                   ELSE tokens'[t] = tokens[t]
  BY <1>4 DEF StoresToken, Quiet, With
<1>5. ASSUME NEW t, NEW u \in DOMAIN Revoked(t)
      PROVE  /\ u \in DOMAIN tokens /\ Revoked(t)[u].session = tokens[u].session
             /\ Revoked(t)[u].revoked = tokens[u].revoked \/ u = t
  BY <1>5 DEF Revoked, KeyType, TokenColumns
<1>6. \A t : DOMAIN Revoked(t) = DOMAIN tokens
  BY DEF Revoked
<1>7. ASSUME NEW s \in Slots, Rotates(s)
      PROVE  /\ UNCHANGED <<ended, known, lost>> /\ req[s].grant \in known /\ tokens' = Revoked(req[s].grant)
  BY <1>7 DEF Rotates, Quiet, RequestType
<1>8. ASSUME NEW s \in Slots, EndsSession(s)
      PROVE  /\ UNCHANGED <<known, lost>> /\ req[s].grant \in known /\ tokens' \in {tokens, Revoked(req[s].grant)}
             /\ ended \subseteq ended'
             /\ (req[s].grant \in DOMAIN tokens => tokens[req[s].grant].session \in ended')
  BY <1>8 DEF EndsSession, RequestType
<1>9. CASE \E s \in Slots : Arrives(s) \/ Plain(s) \/ ReadsGrant(s) \/ StoresCode(s) \/ Marks(s) \/ Answers(s) \/ Redirects(s)
  BY <1>9, <1>2, <1>3
<1>10. CASE \E s \in Slots : StoresToken(s)
  BY <1>10, <1>4
<1>11. CASE \E s \in Slots : Rotates(s)
  BY <1>11, <1>5, <1>6, <1>7
<1>12. CASE \E s \in Slots : EndsSession(s)
  BY <1>12, <1>5, <1>6, <1>8
<1> QED
  BY <1>1, <1>9, <1>10, <1>11, <1>12 DEF Effect

LEMMA RotationsKept ==
    ASSUME KeyType, RequestType, RequestType', Rotations, Effect
    PROVE  Rotations'
<1>0. \A x \in Slots : req'[x].kind \in {"code", "refresh"} => req'[x].pc \in Int
  BY DEF RequestType, Free
<1> SUFFICES ASSUME NEW x \in Slots, NEW g, g = req'[x].grant, NEW t, t = <<"rt", req'[x].id>>,
                    req'[x].kind \in {"code", "refresh"}, req'[x].pc >= 2
             PROVE  /\ req'[x].kind = "refresh" /\ g \in DOMAIN tokens' => tokens'[g].session = req'[x].row.session
                    /\ HasStored(req'[x]) =>
                          /\ t \in DOMAIN tokens' => tokens'[t].session = req'[x].row.session /\ ~tokens'[t].revoked
                          /\ t \in DOMAIN tokens' \/ req'[x].row.session \in ended'
  BY <1>0 DEF Rotations, HasStored
<1>1. /\ req[x].kind = req'[x].kind /\ req[x].grant = g /\ req[x].id = req'[x].id /\ ~Free(x)
      /\ req[x].pc \in 1 .. 6 /\ req'[x].pc \in 2 .. 6
      /\ \/ req'[x] = req[x]
         \/ req[x].pc = 1 /\ req'[x].pc = 2 /\ ReadsGrant(x)
         \/ req[x].pc >= 2 /\ req'[x].pc = req[x].pc + 1 /\ req'[x].row = req[x].row
  BY Places DEF SameRow, Free
<1>2. g \in known /\ t \notin known /\ \A s \in Slots : ~Free(s) => g # <<"rt", req[s].id>>
  BY <1>1 DEF RequestType
<1>3. /\ req[x].pc >= 2 /\ req[x].kind = "refresh" /\ g \in DOMAIN tokens => tokens[g].session = req[x].row.session
      /\ HasStored(req[x]) => /\ t \in DOMAIN tokens => tokens[t].session = req[x].row.session /\ ~tokens[t].revoked
                              /\ t \in DOMAIN tokens \/ req[x].row.session \in ended
  BY <1>1 DEF Rotations
<1>4. ASSUME NEW s \in Slots, StoresToken(s) PROVE ~Free(s) /\ (s = x \/ t # <<"rt", req[s].id>>)
  BY <1>4, <1>1 DEF StoresToken, Goes, RequestType
<1>5. ASSUME req'[x].kind = "refresh", g \in DOMAIN tokens' PROVE tokens'[g].session = req'[x].row.session
  <2>1. g \in DOMAIN tokens /\ tokens'[g].session = tokens[g].session
    BY <1>5, <1>2, <1>4, TokenMoves
  <2>2. ReadsGrant(x) /\ req[x].pc = 1 => req'[x].row = tokens[g]
    BY <1>1, <1>5 DEF ReadsGrant
  <2> QED
    BY <1>1, <1>3, <1>5, <2>1, <2>2
<1>6. ASSUME HasStored(req'[x])
      PROVE  /\ t \in DOMAIN tokens' => tokens'[t].session = req'[x].row.session /\ ~tokens'[t].revoked
             /\ t \in DOMAIN tokens' \/ req'[x].row.session \in ended'
  <2>1. CASE ~HasStored(req[x])
    <3>1. StoresToken(x)
      BY <1>1, <1>6, <2>1, Moves DEF HasStored
    <3>2. req'[x].row = req[x].row
      BY <3>1 DEF StoresToken, SameRow
    <3> QED
      BY <1>1, <3>1, <3>2 DEF StoresToken, With
  <2>2. CASE HasStored(req[x])
    <3>1. req'[x].row = req[x].row /\ ~StoresToken(x)
      BY <1>1, <1>6, <2>2 DEF HasStored, StoresToken
    <3>2. ASSUME t \in DOMAIN tokens'
          PROVE  t \in DOMAIN tokens /\ tokens'[t].session = tokens[t].session /\ tokens'[t].revoked = tokens[t].revoked
      BY <3>1, <3>2, <1>2, <1>4, TokenMoves
    <3>3. t \in DOMAIN tokens => t \in DOMAIN tokens' \/ tokens[t].session \in ended'
      BY TokenMoves
    <3>4. ended \subseteq ended'
      BY TokenMoves
    <3> QED
      BY <1>3, <2>2, <3>1, <3>2, <3>3, <3>4
  <2> QED
    BY <2>1, <2>2
<1> QED
  BY <1>5, <1>6

\* A request that is about to answer does so, or waits.
LEMMA AnswerNext ==
    ASSUME RequestType, Effect, NEW x \in Slots, Answering(x)
    PROVE  req'[x] = req[x] \/ Answers(x)
<1>0. Len(Order[req[x].kind]) = 6 /\ ~Free(x)
  BY Steps DEF Answering, Kinds, Free
<1>1. SUFFICES ASSUME req'[x] # req[x] PROVE Answers(x)
  OBVIOUS
<1>2. PICK s \in Slots : \/ Arrives(s) \/ Plain(s) \/ ReadsGrant(s) \/ StoresCode(s) \/ Marks(s) \/ StoresToken(s)
                         \/ Rotates(s) \/ EndsSession(s) \/ Answers(s) \/ Redirects(s)
  BY <1>1 DEF Effect, Housekeeping
<1>3. Same(s)
  BY <1>2 DEF Arrives, Plain, ReadsGrant, StoresCode, Marks, StoresToken, Rotates, EndsSession, Answers,
     Redirects, Ends, Goes
<1>4. s = x
  BY <1>1, <1>3 DEF Same
<1>5. ~Arrives(x) /\ ~Goes(x) /\ ~Plain(x)
  BY <1>0 DEF Arrives, Goes, Plain, Answering
<1> QED
  BY <1>2, <1>4, <1>5 DEF ReadsGrant, StoresCode, Marks, StoresToken, Rotates, EndsSession, Redirects,
     Answering

LEMMA ServedKept ==
    ASSUME KeyType, KeyType', RequestType, Rotations, Served, Effect
    PROVE  Served'
<1> SUFFICES ASSUME NEW t \in DOMAIN tokens', t \in known', tokens'[t].session \notin ended' \cup lost'
             PROVE  \E u \in DOMAIN tokens' : tokens'[u].session = tokens'[t].session /\ ~tokens'[u].revoked /\ Reaches(u)'
  BY DEF Served, Reaches, Answering
<1>0. ended \subseteq ended' /\ known \subseteq known' /\ lost \subseteq lost'
  BY TokenMoves
\* What a request about to answer has stored.
<1>a. ASSUME NEW s \in Slots, NEW u \in DOMAIN tokens, u = <<"rt", req[s].id>>, Answering(s)
      PROVE  tokens[u].session = req[s].row.session /\ ~tokens[u].revoked
  BY <1>a DEF Rotations, HasStored, Answering
<1>1. CASE t \notin known
  <2>1. PICK s \in Slots : Answers(s) /\ t \in {<<"at", req[s].id>>, <<"rt", req[s].id>>}
    <3>1. t[1] = "rt"
      BY DEF KeyType
    <3>2. \A s \in Slots : t # <<"code", req[s].id>>
      BY <3>1
    <3> QED
      BY <1>1, <3>2 DEF Effect, Housekeeping, Arrives, Plain, ReadsGrant, StoresCode, Marks, StoresToken,
         Rotates, EndsSession, Answers, Redirects, Quiet
  <2>2. t = <<"rt", req[s].id>> /\ UNCHANGED tokens /\ Answering(s)
    BY <2>1 DEF KeyType, Answers, Answering
  <2>3. ~tokens'[t].revoked /\ Reaches(t)'
    BY <1>a, <2>2 DEF Reaches
  <2> QED
    BY <2>3
<1>2. CASE t \in known
  <2>0. ASSUME NEW s \in Slots, StoresToken(s) PROVE ~Free(s) /\ ~Answering(s)
    BY <2>0 DEF StoresToken, Goes, Answering
  <2>1. t \in DOMAIN tokens /\ tokens'[t].session = tokens[t].session
    BY <1>2, <2>0, TokenMoves DEF RequestType
  <2>2. PICK u \in DOMAIN tokens : tokens[u].session = tokens[t].session /\ ~tokens[u].revoked /\ Reaches(u)
    BY <1>0, <1>2, <2>1 DEF Served
  <2>3. u \in DOMAIN tokens'
    BY <2>1, <2>2, TokenMoves
  <2>4. ASSUME NEW s \in Slots, StoresToken(s) PROVE u # <<"rt", req[s].id>>
    <3>1. ~Free(s) /\ ~Answering(s)
      BY <2>0, <2>4
    <3>2. u \notin known \/ u # <<"rt", req[s].id>>
      BY <3>1 DEF RequestType
    <3>3. ASSUME NEW x \in Slots, Answering(x) PROVE req[x].id # req[s].id
      BY <3>1, <3>3 DEF RequestType, Answering, Free
    <3> QED
      BY <2>2, <3>2, <3>3 DEF Reaches
  <2>5. /\ tokens'[u].session = tokens[u].session
        /\ tokens'[u].revoked = tokens[u].revoked \/ \E s \in Slots : Rotates(s) /\ u = req[s].grant
    BY <2>1, <2>2, <2>3, <2>4, TokenMoves
  <2>6. CASE tokens'[u].revoked = tokens[u].revoked
    <3>1. ASSUME NEW x \in Slots, Answering(x), u = <<"rt", req[x].id>>, req'[x] # req[x] PROVE u \in known'
      <4>1. Answers(x)
        BY <3>1, AnswerNext
      <4>2. tokens[u].session = req[x].row.session
        BY <1>a, <3>1
      <4> QED
        BY <2>1, <2>2, <3>1, <4>1, <4>2 DEF Answers
    <3>2. Reaches(u)'
      BY <1>0, <2>2, <3>1 DEF Reaches, Answering
    <3> QED
      BY <2>1, <2>2, <2>3, <2>5, <2>6, <3>2
  <2>7. ASSUME NEW s \in Slots, Rotates(s), u = req[s].grant
        PROVE  \E v \in DOMAIN tokens' : tokens'[v].session = tokens'[t].session /\ ~tokens'[v].revoked /\ Reaches(v)'
    <3>1. /\ req[s].kind = "refresh" /\ req[s].pc = 5 /\ tokens' = Revoked(u) /\ Quiet
          /\ req'[s].kind = "refresh" /\ req'[s].pc = 6 /\ req'[s].id = req[s].id
      BY <2>7 DEF Rotates, Goes
    <3>2. PICK v : v = <<"rt", req[s].id>>
      OBVIOUS
    <3>3. req[s].row.session = tokens[u].session
      <4>1. req[s].kind = "refresh" /\ req[s].pc >= 2 /\ req[s].grant \in DOMAIN tokens
        BY <2>7, <3>1
      <4>2. tokens[req[s].grant].session = req[s].row.session
        BY <4>1 DEF Rotations
      <4> QED
        BY <2>7, <4>2
    <3>4. v \in DOMAIN tokens /\ tokens[v].session = tokens[u].session /\ ~tokens[v].revoked
      <4>1. req[s].row.session \notin ended
        BY <1>0, <2>1, <2>2, <3>3
      <4> QED
        BY <3>1, <3>2, <3>3, <4>1 DEF Rotations, HasStored
    <3>5. v # u
      <4>1. u \in known /\ ~Free(s)
        BY <2>7, <3>1 DEF RequestType, Free
      <4> QED
        BY <3>2, <4>1 DEF RequestType
    <3>6. v \in DOMAIN tokens' /\ tokens'[v] = tokens[v]
      BY <3>1, <3>4, <3>5 DEF Revoked
    <3>7. Reaches(v)'
      BY <3>1, <3>2 DEF Reaches, Answering
    <3> QED
      BY <2>1, <2>2, <3>4, <3>6, <3>7
  <2> QED
    BY <2>5, <2>6, <2>7
<1> QED
  BY <1>1, <1>2

LEMMA AnswersAt ==
    ASSUME RequestType, NEW s \in Slots
    PROVE  Answering(s) <=> At(s, "answer")
<1>1. ASSUME Answering(s) PROVE At(s, "answer")
  <2>1. ~Free(s) /\ req[s].kind \in Kinds /\ req[s].pc \in 1 .. Len(Order[req[s].kind])
    BY <1>1, Steps DEF Answering, Free, RequestType
  <2> QED
    BY <1>1, <2>1, Steps DEF Answering, At
<1>2. ASSUME At(s, "answer") PROVE Answering(s)
  BY <1>2, AtStep DEF Answering
<1> QED
  BY <1>1, <1>2

\* The process ends: every request that has stored its tokens loses its answer.
LEMMA ServerCrashes ==
    ASSUME ServerInv, ServerCrash
    PROVE  ServerInv'
<1>0. /\ DOMAIN req' = Slots /\ \A s \in Slots : req'[s] = NoRequest
      /\ UNCHANGED <<db, fresh, known, issued, ended>> /\ UNCHANGED <<codes, tokens>>
      /\ lost' = lost \cup {req[s].row.session : s \in {x \in Slots : At(x, "answer")}}
  BY DEF ServerCrash, codes, tokens
<1>1. StoreType' /\ RequestType'
  BY <1>0 DEF ServerInv, StoreType, KeyType, Drawn, RequestType, NoRequest, RequestFields, Free
<1>2. GrantsDead' /\ Rotations'
  BY <1>0 DEF GrantsDead, Rotations, NoRequest, HasStored
<1>3. IssuedOnce'
  <2> SUFFICES ASSUME NEW g \in DOMAIN issued
               PROVE  /\ g \in known /\ Dead(g)' /\ issued[g].pairs \subseteq issued[g].early
                      /\ \A s \in Redeeming(g)' : req'[s].id \in issued[g].early
    BY <1>0 DEF IssuedOnce
  <2>1. Redeeming(g)' = {}
    BY <1>0 DEF Redeeming, NoRequest
  <2>2. g \in known /\ Dead(g) /\ issued[g].pairs \subseteq issued[g].early
    BY DEF ServerInv, IssuedOnce
  <2> QED
    BY <1>0, <2>1, <2>2 DEF Dead
<1>4. Served'
  <2> SUFFICES ASSUME NEW t \in DOMAIN tokens, t \in known, tokens[t].session \notin ended \cup lost'
               PROVE  \E u \in DOMAIN tokens : tokens[u].session = tokens[t].session /\ ~tokens[u].revoked /\ Reaches(u)'
    BY <1>0 DEF Served
  <2>1. PICK u \in DOMAIN tokens : tokens[u].session = tokens[t].session /\ ~tokens[u].revoked /\ Reaches(u)
    BY <1>0 DEF ServerInv, Served
  <2>2. ASSUME NEW s \in Slots, Answering(s), u = <<"rt", req[s].id>> PROVE FALSE
    <3>1. At(s, "answer")
      BY <2>2, AnswersAt DEF ServerInv
    <3>2. tokens[u].session = req[s].row.session
      BY <2>2 DEF ServerInv, Rotations, HasStored, Answering
    <3> QED
      BY <1>0, <2>1, <3>1, <3>2
  <2>3. u \in known
    BY <2>1, <2>2 DEF Reaches
  <2> QED
    BY <1>0, <2>1, <2>3 DEF Reaches
<1> QED
  BY <1>1, <1>2, <1>3, <1>4 DEF ServerInv

-----------------------------------------------------------------------------
(* The OAuth server: clients, proofs and the cleanup worker.               *)

\* A statement leaves the proofs alone, and no token without its client.
Good(new) == DOMAIN new = Tables /\ Referred(new) /\ new.dpopJTIs = jtis
Sound(new) == new # Null => Good(new)

\* What a step does to the table of proofs: nothing, or it accepts a new proof, or it
\* deletes those too old for any request.
Accepting(jti, iat) ==
    /\ iat \in Int /\ now - iat <= MaxAge /\ jti \notin DOMAIN jtis
    /\ jtis' = With(jtis, jti, iat) /\ accepted' = Count(accepted, <<jti, iat>>)
Forgetting ==
    /\ jtis' = Keeping(jtis, LAMBDA created : created >= clean.now - MaxAge - CleanupSkew)
    /\ UNCHANGED accepted
Writes ==
    /\ DOMAIN db' = Tables /\ Referred(db') /\ CleanType'
    /\ UNCHANGED <<jtis, accepted>> \/ Forgetting \/ \E jti, iat : Accepting(jti, iat)

LEMMA SoundStatements ==
    ASSUME DOMAIN db = Tables, Referred(db), NEW k, NEW row
    PROVE  /\ Good(InsertClient(db, k, row)) /\ Sound(UpdateClient(db, k, row)) /\ Good(DeleteClient(db, k))
           /\ Sound(InsertAuthRequest(db, k, row)) /\ Sound(DeleteAuthRequest(db, k))
           /\ Sound(InsertATPRequest(db, k, row)) /\ Sound(DeleteATPRequest(db, k))
           /\ Sound(InsertATPSession(db, k, row)) /\ Sound(UpdateATPSession(db, k, row))
           /\ Sound(InsertAuthCode(db, k, row)) /\ Sound(MarkUsed(db, k))
           /\ Sound(InsertPARRequest(db, k, row))
           /\ Sound(RevokeAccessToken(db, k)) /\ Sound(RevokeRefreshToken(db, k))
           /\ "client" \in DOMAIN row =>
                 Sound(InsertAccessToken(db, k, row)) /\ Sound(InsertRefreshToken(db, k, row))
<1> USE DEF Good, Sound, Referred, Tables, jtis
<1>1. Good(InsertClient(db, k, row)) /\ Sound(UpdateClient(db, k, row))
  BY DEF InsertClient, UpdateClient, With
<1>2. Good(DeleteClient(db, k))
  BY DEF DeleteClient, Keeping, Dropping, Restrict
<1>3. /\ Sound(InsertAuthRequest(db, k, row)) /\ Sound(DeleteAuthRequest(db, k))
      /\ Sound(InsertPARRequest(db, k, row))
  BY DEF InsertAuthRequest, DeleteAuthRequest, InsertPARRequest, Referring
<1>4. Sound(InsertATPRequest(db, k, row)) /\ Sound(DeleteATPRequest(db, k))
  BY DEF InsertATPRequest, DeleteATPRequest
<1>5. Sound(InsertATPSession(db, k, row)) /\ Sound(UpdateATPSession(db, k, row))
  BY DEF InsertATPSession, UpdateATPSession
<1>6. Sound(InsertAuthCode(db, k, row)) /\ Sound(MarkUsed(db, k))
  BY DEF InsertAuthCode, MarkUsed
<1>7. Sound(RevokeAccessToken(db, k)) /\ Sound(RevokeRefreshToken(db, k))
  BY DEF RevokeAccessToken, RevokeRefreshToken
<1>8. ASSUME "client" \in DOMAIN row
      PROVE  Sound(InsertAccessToken(db, k, row)) /\ Sound(InsertRefreshToken(db, k, row))
  BY <1>8 DEF InsertAccessToken, InsertRefreshToken, Referring, With
<1> QED
  BY <1>1, <1>2, <1>3, <1>4, <1>5, <1>6, <1>7, <1>8

\* Steps that leave the database alone, and statements.
LEMMA WritesNothing ==
    ASSUME DOMAIN db = Tables, Referred(db), CleanType, UNCHANGED <<now, accepted, clean>>
    PROVE  /\ UNCHANGED db => Writes
           /\ \A s, step, new, r : Statement(s, step, new, r) /\ Sound(new) => Writes
<1>1. ASSUME UNCHANGED db PROVE Writes
  BY <1>1 DEF Writes, CleanType, jtis
<1>2. ASSUME NEW new, new # Null, Sound(new), db' = new PROVE Writes
  BY <1>2 DEF Writes, Good, Sound, CleanType, jtis
<1>3. ASSUME NEW s, NEW step, NEW new, NEW r, Statement(s, step, new, r), Sound(new) PROVE Writes
  BY <1>1, <1>2, <1>3 DEF Statement
<1> QED
  BY <1>1, <1>3

LEMMA LoginWrites ==
    ASSUME DOMAIN db = Tables, Referred(db), CleanType, UNCHANGED now, NEW s \in Slots, LoginNext(s)
    PROVE  Writes
<1>1. ASSUME UNCHANGED <<db, clean, ghostVars>> PROVE Writes
  BY <1>1, WritesNothing DEF ghostVars
<1>2. ASSUME NEW step, NEW new, NEW r, Statement(s, step, new, r), UNCHANGED ghostVars, Sound(new)
      PROVE  Writes
  <2>1. UNCHANGED <<accepted, clean>>
    BY <1>2 DEF Statement, ghostVars
  <2> QED
    BY <1>2, <2>1, WritesNothing
<1>3. ASSUME NEW p, HandleAuthorize(s, p) PROVE Writes
  BY <1>3, <1>1 DEF HandleAuthorize, Begin, Refuse, serverVars
<1>4. CASE StoreAuthRequest(s)
  <2>1. /\ UNCHANGED ghostVars
        /\ (UNCHANGED <<db, clean>> \/ \E row, r : Statement(s, "authRequest", InsertAuthRequest(db, req[s].grant, row), r))
    BY <1>4 DEF StoreAuthRequest
  <2> QED
    BY <1>1, <1>2, <2>1, SoundStatements
<1>5. CASE StoreATPRequest(s) \/ StoreATPSession(s) \/ ExchangedSession(s)
  BY <1>5, <1>2, SoundStatements DEF StoreATPRequest, StoreATPSession, ExchangedSession
<1>6. CASE DropATPRequest(s) \/ DropAuthRequest(s)
  BY <1>6, <1>2, SoundStatements DEF DropATPRequest, DropAuthRequest
<1>7. CASE StoreAuthCode(s)
  BY <1>7, <1>2, SoundStatements DEF StoreAuthCode
<1>8. ASSUME NEW state, NEW reply, HandleCallback(s, state, reply) PROVE Writes
  BY <1>8, <1>1 DEF HandleCallback, Begin, Refuse, serverVars
<1>9. CASE LoadAuthRequest(s) \/ ExchangeCode(s)
  BY <1>9, <1>1 DEF LoadAuthRequest, Read, ExchangeCode
<1>10. CASE RedirectWithCode(s)
  BY <1>10, WritesNothing DEF RedirectWithCode
<1> QED
  BY <1>3, <1>4, <1>5, <1>6, <1>7, <1>8, <1>9, <1>10 DEF LoginNext

\* VerifyDPoPProof lets no proof pass that is older than MaxAge.
LEMMA Verified ==
    ASSUME NEW p, p.iat \in Int \cup {Null}, NEW method, NEW url, VerifyDPoPProof(p, method, url), ClockType
    PROVE  p.iat \in Int /\ now - p.iat <= MaxAge
<1> DEFINE checks == << <<"format", p.header # "dpop+jwt">>, <<"alg", p.alg # "ES256">>, <<"jwk", p.key = Null>>,
                        <<"signature", ~p.signed>>, <<"htm", p.htm # method>>, <<"htu", p.htu # url>>,
                        <<"jti", p.jti = Null>>, <<"iat", p.iat = Null>>,
                        <<"too_old", now - p.iat > MaxAge>>, <<"in_future", p.iat > now + MaxFuture>> >>
<1>1. FirstFailure(checks) = "ok"
  BY DEF VerifyDPoPProof
<1>2. Len(checks) = 10 /\ \A i \in 1 .. 10 : checks[i][1] # "ok"
  OBVIOUS
<1>3. /\ p.iat = Null => checks[8][2]
      /\ now - p.iat > MaxAge => checks[9][2]
  OBVIOUS
<1> HIDE DEF checks
<1>c. Len(checks) \in Nat /\ \A i \in 1 .. Len(checks) : checks[i][2] => checks[i][1] # "ok"
  BY <1>2
<1>4. \A i \in 1 .. Len(checks) : ~checks[i][2]
  BY <1>1, <1>c, FirstFailureOk, Zenon
<1>5. p.iat # Null /\ ~(now - p.iat > MaxAge)
  BY <1>2, <1>3, <1>4
<1>6. now \in Nat /\ MaxAge \in Nat
  BY IdentityAssumption, OAuthAssumption DEF ClockType
<1> QED
  BY <1>5, <1>6

LEMMA TokenWrites ==
    ASSUME DOMAIN db = Tables, Referred(db), RequestType, CleanType, ClockType, UNCHANGED now, NEW s \in Slots, TokenNext(s)
    PROVE  Writes
<1>1. ASSUME UNCHANGED <<db, clean, ghostVars>> PROVE Writes
  BY <1>1, WritesNothing DEF ghostVars
<1>2. ASSUME NEW step, NEW new, NEW r, Statement(s, step, new, r), UNCHANGED accepted, Sound(new)
      PROVE  Writes
  <2>1. UNCHANGED clean
    BY <1>2 DEF Statement
  <2> QED
    BY <1>2, <2>1, WritesNothing
<1>3. ASSUME NEW g, NEW p, HandleToken(s, g, p) PROVE Writes
  BY <1>3, <1>1 DEF HandleToken, Begin, Refuse, serverVars
<1>4. CASE handleAuthorizationCodeGrant(s) \/ handleRefreshTokenGrant(s) \/ CheckAccessToken(s)
  BY <1>4, <1>1 DEF handleAuthorizationCodeGrant, handleRefreshTokenGrant, CheckAccessToken, Read
<1>5. CASE CheckProof(s)
  <2>1. PICK p, method, url :
           validateDPoP(s, p, method, url) /\ (p # Null => p.iat \in Int \cup {Null})
    <3>1. req[s].kind \in {"code", "refresh", "use"}
      BY <1>5, AtStep DEF CheckProof
    <3>2. /\ req[s].kind # "use" => req[s].in \in TokenParams
          /\ req[s].kind = "use" => req[s].in \in UseParams
      BY <3>1 DEF RequestType
    <3>3. req[s].in.proof # Null => req[s].in.proof.iat \in Int \cup {Null}
      BY <3>2, OAuthAssumption
    <3> QED
      BY <1>5, <3>3 DEF CheckProof
  <2>2. UNCHANGED clean
    BY <2>1 DEF validateDPoP
  <2>3. CASE UNCHANGED <<db, accepted>>
    BY <2>2, <2>3, WritesNothing
  <2>4. CASE /\ p # Null /\ VerifyDPoPProof(p, method, url) /\ db' = InsertIfNew(db, p.jti, p.iat)
             /\ IF IsNewJTI(db, p.jti) THEN accepted' = Count(accepted, <<p.jti, p.iat>>) ELSE UNCHANGED accepted
    <3>1. p.iat \in Int /\ now - p.iat <= MaxAge
      BY <2>1, <2>4, Verified
    <3>2. /\ DOMAIN db' = Tables /\ Referred(db')
          /\ jtis' = IF p.jti \in DOMAIN jtis THEN jtis ELSE With(jtis, p.jti, p.iat)
      BY <2>4 DEF InsertIfNew, Tables, Referred, jtis
    <3>3. CASE p.jti \in DOMAIN jtis
      BY <2>2, <2>4, <3>2, <3>3 DEF Writes, CleanType, IsNewJTI, jtis
    <3>4. CASE p.jti \notin DOMAIN jtis
      <4>1. Accepting(p.jti, p.iat)
        BY <2>4, <3>1, <3>2, <3>4 DEF Accepting, IsNewJTI, jtis
      <4> QED
        BY <2>2, <3>2, <4>1 DEF Writes, CleanType
    <3> QED
      BY <3>3, <3>4
  <2> QED
    BY <2>1, <2>3, <2>4 DEF validateDPoP, JTICreated
<1>6. CASE MarkCodeUsed(s) \/ RevokeOld(s)
  BY <1>6, <1>2, SoundStatements DEF MarkCodeUsed, RevokeOld, ghostVars
<1>7. CASE StoreAccessToken(s)
  <2>1. \E row : Statement(s, "access", InsertAccessToken(db, <<"at", req[s].id>>, row), req[s]) /\ "client" \in DOMAIN row
    BY <1>7 DEF StoreAccessToken
  <2>2. UNCHANGED accepted
    BY <1>7 DEF StoreAccessToken, ghostVars
  <2> QED
    BY <1>2, <2>1, <2>2, SoundStatements
<1>8. CASE StoreRefreshToken(s)
  <2> DEFINE row == IF req[s].kind = "code" THEN NewRefreshToken(req[s]) ELSE RotatedRefreshToken(req[s])
  <2>1. /\ Statement(s, "refresh", InsertRefreshToken(db, <<"rt", req[s].id>>, row), req[s])
        /\ UNCHANGED accepted
    BY <1>8 DEF StoreRefreshToken, ghostVars
  <2>2. "client" \in DOMAIN row
    BY DEF NewRefreshToken, RotatedRefreshToken
  <2> HIDE DEF row
  <2> QED
    BY <1>2, <2>1, <2>2, SoundStatements
<1>9. CASE AnswerTokens(s)
  BY <1>9, WritesNothing DEF AnswerTokens
<1>10. ASSUME NEW t, HandleRevoke(s, t) PROVE Writes
  BY <1>10, <1>1 DEF HandleRevoke, Begin, Refuse, serverVars
<1>11. CASE RevokeInBoth(s)
  BY <1>11, <1>2, SoundStatements DEF RevokeInBoth, ghostVars
<1>12. ASSUME NEW t, NEW p, ValidateRequest(s, t, p) PROVE Writes
  BY <1>12, <1>1 DEF ValidateRequest, Begin, Refuse, serverVars
<1> QED
  BY <1>3, <1>4, <1>5, <1>6, <1>7, <1>8, <1>9, <1>10, <1>11, <1>12 DEF TokenNext

LEMMA OtherWrites ==
    ASSUME DOMAIN db = Tables, Referred(db), CleanType, ClockType, UNCHANGED now, ClientNext \/ StartCleanupWorker \/ CleanTable
    PROVE  Writes
<1>1. ASSUME UNCHANGED <<db, clean, ghostVars>> PROVE Writes
  BY <1>1, WritesNothing DEF ghostVars
<1>2. ASSUME NEW s, NEW step, NEW new, NEW r, Statement(s, step, new, r), UNCHANGED ghostVars, Sound(new)
      PROVE  Writes
  <2>1. UNCHANGED <<accepted, clean>>
    BY <1>2 DEF Statement, ghostVars
  <2> QED
    BY <1>2, <2>1, WritesNothing
<1>3. ASSUME NEW new, Good(new), ClientStatement(new) PROVE Writes
  <2>1. UNCHANGED <<accepted, clean>> /\ (UNCHANGED db \/ db' = new)
    BY <1>3 DEF ClientStatement
  <2> QED
    BY <1>3, <2>1, WritesNothing DEF Writes, Good, CleanType, jtis
<1>4. ASSUME NEW s \in Slots, NEW p, HandlePAR(s, p) PROVE Writes
  BY <1>4, <1>1 DEF HandlePAR, Begin, Refuse, serverVars
<1>5. ASSUME NEW s \in Slots, StorePAR(s) \/ WriteClient(s) PROVE Writes
  BY <1>5, <1>2, SoundStatements DEF StorePAR, WriteClient
<1>6. ASSUME NEW s \in Slots, NEW c, NEW redirects, UpdateOAuthClient(s, c, redirects) PROVE Writes
  BY <1>6, <1>1 DEF UpdateOAuthClient, Begin, Refuse, serverVars
<1>7. ASSUME NEW id, NEW row, ClientStatement(InsertClient(db, id, row)) PROVE Writes
  BY <1>7, <1>3, SoundStatements
<1>8. ASSUME NEW c, DeleteOAuthClient(c) PROVE Writes
  BY <1>8, <1>3, SoundStatements DEF DeleteOAuthClient
<1>9. CASE StartCleanupWorker
  <2>1. UNCHANGED <<db, accepted>> /\ clean' = [at |-> 1, now |-> now]
    BY <1>9 DEF StartCleanupWorker, ghostVars
  <2>2. now \in Nat
    BY IdentityAssumption DEF ClockType
  <2> QED
    BY <2>1, <2>2 DEF Writes, CleanType, jtis
<1>10. CASE CleanTable
  <2>1. /\ clean.at \in 1 .. 5 /\ clean' = [clean EXCEPT !.at = (@ + 1) % 6]
        /\ db' = Deletions(clean.now)[clean.at] \/ UNCHANGED db
        /\ UNCHANGED accepted
    BY <1>10 DEF CleanTable, CleanType, ghostVars
  <2>2. CleanType'
    <3>1. (clean.at + 1) % 6 \in 0 .. 5
      BY <2>1
    <3> QED
      BY <2>1, <3>1 DEF CleanType
  <2>3. ASSUME NEW t, NEW i \in 1 .. 4 PROVE Good(Deletions(t)[i])
    <3>1. CASE i = 1
      BY <3>1 DEF Good, Referred, Tables, jtis, Deletions, DeleteExpiredAuthRequests
    <3>2. CASE i = 2
      BY <3>2 DEF Good, Referred, Tables, jtis, Deletions, DeleteExpiredATPRequests
    <3>3. CASE i = 3
      BY <3>3 DEF Good, Referred, Tables, jtis, Deletions, DeleteExpiredAuthCodes
    <3>4. CASE i = 4
      BY <3>4 DEF Good, Referred, Tables, jtis, Deletions, DeleteExpiredAccessTokens, Unexpired, Keeping,
         Restrict
    <3> QED
      BY <3>1, <3>2, <3>3, <3>4
  <2>4. CASE UNCHANGED db
    BY <2>1, <2>2, <2>4 DEF Writes, jtis
  <2>5. CASE db' = Deletions(clean.now)[clean.at] /\ clean.at # 5
    <3>1. clean.at \in 1 .. 4
      BY <2>1, <2>5
    <3>2. Good(db')
      BY <2>3, <2>5, <3>1
    <3> QED
      BY <2>1, <2>2, <3>2 DEF Writes, Good, jtis
  <2>6. CASE db' = Deletions(clean.now)[clean.at] /\ clean.at = 5
    <3>1. db' = DeleteJTIsOlderThan(db, clean.now - MaxAge - CleanupSkew)
      BY <2>6 DEF Deletions
    <3>2. DOMAIN db' = Tables /\ Referred(db') /\ Forgetting
      BY <2>1, <3>1 DEF DeleteJTIsOlderThan, Tables, Referred, Forgetting, jtis
    <3> QED
      BY <2>2, <3>2 DEF Writes
  <2> QED
    BY <2>1, <2>4, <2>5, <2>6
<1> QED
  BY <1>4, <1>5, <1>6, <1>7, <1>8, <1>9, <1>10 DEF ClientNext, HandleRegister, CreateOAuthClient

\* A proof that is accepted is new, and is deleted only when it is too old to pass.
LEMMA ProofsKept ==
    ASSUME ProofsInv, ClockType, UNCHANGED now, Writes
    PROVE  ProofsInv'
<1>0. now \in Nat /\ MaxAge \in Nat /\ CleanupSkew \in Nat
  BY IdentityAssumption, OAuthAssumption DEF ClockType
<1>1. CASE UNCHANGED <<jtis, accepted>>
  BY <1>1 DEF ProofsInv, Writes
<1>2. CASE Forgetting
  <2>1. /\ DOMAIN jtis' = {j \in DOMAIN jtis : jtis[j] >= clean.now - MaxAge - CleanupSkew}
        /\ UNCHANGED accepted
        /\ \A j \in DOMAIN jtis' : jtis'[j] = jtis[j]
    BY <1>2 DEF Forgetting, Keeping, Restrict
  <2>2. \A j \in DOMAIN jtis : jtis[j] \in Int /\ (j \in DOMAIN jtis' \/ now - jtis[j] > MaxAge)
    BY <1>0, <2>1 DEF ProofsInv, CleanType
  <2> QED
    BY <2>1, <2>2 DEF ProofsInv, Writes
<1>3. ASSUME NEW jti, NEW iat, Accepting(jti, iat) PROVE ProofsInv'
  <2>1. /\ iat \in Int /\ ~(now - iat > MaxAge) /\ jti \notin DOMAIN jtis
        /\ DOMAIN jtis' = DOMAIN jtis \cup {jti} /\ jtis'[jti] = iat
        /\ \A j \in DOMAIN jtis : jtis'[j] = jtis[j]
    BY <1>0, <1>3 DEF Accepting, With
  <2>2. <<jti, iat>> \notin DOMAIN accepted
    <3> SUFFICES ASSUME NEW a \in DOMAIN accepted, a = <<jti, iat>> PROVE FALSE
      OBVIOUS
    <3>1. a[1] = jti /\ a[2] = iat
      OBVIOUS
    <3> QED
      BY <2>1, <3>1 DEF ProofsInv
  <2>3. /\ DOMAIN accepted' = DOMAIN accepted \cup {<<jti, iat>>} /\ accepted'[<<jti, iat>>] = 1
        /\ \A a \in DOMAIN accepted : accepted'[a] = accepted[a]
    BY <1>3, <2>2 DEF Accepting, Count
  <2>4. \A a \in DOMAIN accepted' :
           /\ a = <<a[1], a[2]>> /\ a[2] \in Int /\ accepted'[a] = 1
           /\ (a[1] \in DOMAIN jtis' /\ jtis'[a[1]] = a[2]) \/ now - a[2] > MaxAge
    <3> TAKE a \in DOMAIN accepted'
    <3>1. CASE a = <<jti, iat>>
      BY <2>1, <2>3, <3>1
    <3>2. CASE a \in DOMAIN accepted
      BY <2>1, <2>3, <3>2 DEF ProofsInv
    <3> QED
      BY <2>3, <3>1, <3>2
  <2>5. \A j \in DOMAIN jtis' : jtis'[j] \in Int
    BY <2>1 DEF ProofsInv
  <2> QED
    BY <2>4, <2>5 DEF ProofsInv, Writes
<1> QED
  BY <1>1, <1>2, <1>3 DEF Writes

FullServerInv == ServerInv /\ Referred(db) /\ ProofsInv

LEMMA ServerStep ==
    ASSUME FullServerInv, ClockType, UNCHANGED now, ServerNext
    PROVE  FullServerInv'
<1>0. /\ StoreType /\ KeyType /\ DOMAIN db = Tables /\ RequestType /\ GrantsDead /\ IssuedOnce
      /\ Rotations /\ Served
      /\ Referred(db) /\ ProofsInv /\ CleanType
  BY DEF FullServerInv, ServerInv, StoreType, ProofsInv
<1>1. Effect
  <2>1. clean \in [at : 0 .. 5, now : Nat]
    BY <1>0 DEF CleanType
  <2> QED
    BY <1>0, <2>1, LoginEffects, TokenEffects, OtherEffects DEF ServerNext
<1>2. Writes
  BY <1>0, LoginWrites, TokenWrites, OtherWrites DEF ServerNext
<1>3. RequestType' /\ KeyType'
  BY <1>0, <1>1, RequestsKept
<1>4. GrantsDead' /\ IssuedOnce'
  BY <1>0, <1>1, GrantsKept, IssuedKept
<1>5. Rotations' /\ Served'
  BY <1>0, <1>1, <1>3, RotationsKept, ServedKept
<1>6. ProofsInv'
  BY <1>0, <1>2, ProofsKept
<1>7. DOMAIN db' = Tables /\ Referred(db')
  BY <1>2 DEF Writes
<1> QED
  BY <1>3, <1>4, <1>5, <1>6, <1>7 DEF FullServerInv, ServerInv, StoreType

\* Steps of others and of the clock.
LEMMA ServerWaits ==
    ASSUME FullServerInv, ClockType, UNCHANGED serverVars, now' \in Nat, now' >= now
    PROVE  FullServerInv'
<1>0. now \in Nat /\ MaxAge \in Nat
  BY IdentityAssumption, OAuthAssumption DEF ClockType
<1>1. UNCHANGED <<db, codes, tokens, jtis, req, clean, fresh, known, issued, accepted, ended, lost>>
  BY DEF serverVars, ghostVars, codes, tokens, jtis
<1>2. ServerInv'
  <2>1. StoreType' /\ RequestType'
    BY <1>1 DEF FullServerInv, ServerInv, StoreType, KeyType, Drawn, RequestType, Free
  <2>2. GrantsDead' /\ IssuedOnce'
    BY <1>1 DEF FullServerInv, ServerInv, GrantsDead, IssuedOnce, Dead, Redeeming
  <2>3. Rotations' /\ Served'
    BY <1>1 DEF FullServerInv, ServerInv, Rotations, Served, Reaches, Answering
  <2> QED
    BY <2>1, <2>2, <2>3 DEF ServerInv
<1>3. ProofsInv'
  BY <1>0, <1>1 DEF FullServerInv, ProofsInv, CleanType
<1> QED
  BY <1>1, <1>2, <1>3 DEF FullServerInv

LEMMA ServerDies ==
    ASSUME FullServerInv, ClockType, ServerCrash, UNCHANGED now
    PROVE  FullServerInv'
<1>0. now \in Nat
  BY IdentityAssumption DEF ClockType
<1>1. ServerInv'
  BY ServerCrashes DEF FullServerInv
<1>2. UNCHANGED <<db, jtis, accepted>> /\ clean' = [at |-> 0, now |-> 0]
  BY DEF ServerCrash, jtis
<1>3. ProofsInv'
  BY <1>0, <1>2 DEF FullServerInv, ProofsInv, CleanType
<1> QED
  BY <1>1, <1>2, <1>3 DEF FullServerInv

LEMMA ServerStart ==
    ASSUME ServerInit, now = 0, quota \in Quotas
    PROVE  FullServerInv
<1> DEFINE n == quota.seeded
<1>0. n \in Nat /\ fresh = n + 1 /\ known = {<<"code", i>> : i \in 1 .. n}
  BY OAuthAssumption DEF ServerInit, Seeded
<1> HIDE DEF n
<1>1. /\ DOMAIN db = Tables /\ tokens = <<>> /\ jtis = <<>> /\ db.accessTokens = <<>>
      /\ DOMAIN codes = known /\ \A c \in known : DOMAIN codes[c] = CodeColumns /\ codes[c].used = FALSE
  BY DEF ServerInit, EmptyDB, Tables, CodeColumns, codes, tokens, jtis
<1>2. /\ req = [s \in Slots |-> NoRequest] /\ clean = [at |-> 0, now |-> 0] /\ issued = <<>>
      /\ accepted = <<>>
  BY DEF ServerInit
<1>3. StoreType
  <2>1. known \subseteq {"code"} \X Drawn
    BY <1>0 DEF Drawn
  <2>2. known \subseteq {"code", "at", "rt"} \X Drawn
    BY <2>1
  <2>3. DOMAIN tokens = {} /\ fresh \in Nat
    BY <1>0, <1>1
  <2> QED
    BY <1>1, <2>1, <2>2, <2>3 DEF StoreType, KeyType
<1>4. RequestType /\ GrantsDead /\ Rotations
  BY <1>2 DEF RequestType, GrantsDead, Rotations, Free, NoRequest, RequestFields, HasStored
<1>5. IssuedOnce /\ Served /\ Referred(db)
  BY <1>1, <1>2 DEF IssuedOnce, Served, Referred, tokens
<1>6. ProofsInv
  BY <1>1, <1>2 DEF ProofsInv, CleanType
<1> QED
  BY <1>3, <1>4, <1>5, <1>6 DEF FullServerInv, ServerInv

-----------------------------------------------------------------------------
(* The three together.                                                     *)

OAuthInv == ClockType /\ FullServerInv /\ ServiceInv /\ DIDInv

LEMMA Start == Init => OAuthInv
<1> SUFFICES ASSUME Init PROVE OAuthInv
  OBVIOUS
<1>1. ClockType
  BY IdentityAssumption DEF Init, ClockType
<1>2. FullServerInv
  BY ServerStart DEF Init
<1>3. ServiceInv
  <2>1. DOMAIN entries = {} /\ Entered(entries) = {} /\ DOMAIN passed = {} /\ forgot = {}
    BY DEF Init, ServiceInit, Entered
  <2> QED
    BY <2>1, FS_EmptySet, ServiceAuthAssumption DEF ServiceInv
<1>4. DIDInv
  BY DIDStart DEF Init
<1> QED
  BY <1>1, <1>2, <1>3, <1>4 DEF OAuthInv

\* Each component keeps its own part; ServiceOnce comes with the step of its cache.
LEMMA Inductive ==
    ASSUME OAuthInv, [Next]_vars
    PROVE  OAuthInv' /\ \A p \in DOMAIN passed : passed'[p] > passed[p] => p \in forgot
<1> DEFINE Once == \A p \in DOMAIN passed : passed'[p] > passed[p] => p \in forgot
<1>0. ClockType /\ FullServerInv /\ ServiceInv /\ DIDInv /\ now \in Nat /\ MaxTime \in Nat
  BY IdentityAssumption DEF OAuthInv, ClockType
<1>o. UNCHANGED passed => Once
  BY <1>0 DEF ServiceInv
<1>p. UNCHANGED serviceVars => UNCHANGED passed
  BY DEF serviceVars
<1>d. ASSUME UNCHANGED <<now, didVars>> PROVE DIDInv'
  BY <1>0, <1>d DEF didVars, DIDInv, HistoryType, CacheSound, FlightSound, CallersSound, EntrySound,
     FlightOf, CallerOf, Current
<1> SUFFICES OAuthInv' /\ Once
  OBVIOUS
<1> HIDE DEF Once
<1>1. CASE ServerNext /\ UNCHANGED <<now, serviceVars, didVars>>
  BY <1>0, <1>1, <1>d, <1>o, <1>p, ServerStep, ServiceWaits DEF OAuthInv, ClockType
<1>2. ASSUME NEW t \in Tokens, NEW a \in DocAnswers, ServiceRequest(t, a), UNCHANGED <<now, serverVars, didVars>>
      PROVE  OAuthInv' /\ Once
  BY <1>0, <1>2, <1>d, ServiceStep, ServerWaits DEF OAuthInv, ClockType, Once
<1>3. ASSUME NEW t \in Tokens, NEW a \in DocAnswers, Reject(t, a), UNCHANGED <<now, serverVars, didVars>>
      PROVE  OAuthInv' /\ Once
  BY <1>0, <1>3, <1>d, <1>o, <1>p, ServiceWaits, ServerWaits DEF OAuthInv, ClockType, Reject
<1>4. CASE DIDCacheNext /\ UNCHANGED <<now, serverVars, serviceVars>>
  BY <1>0, <1>4, <1>o, <1>p, DIDStep, ServiceWaits, ServerWaits DEF OAuthInv, ClockType
<1>5. CASE Tick
  <2>1. /\ now' = now + 1 /\ now < MaxTime /\ DIDCacheSettled
        /\ UNCHANGED <<serverVars, serviceVars, didVars>>
    BY <1>5 DEF Tick
  <2>2. now' \in Nat /\ now' >= now /\ ClockType'
    BY <1>0, <2>1 DEF ClockType
  <2>3. DIDInv'
    BY <1>0, <2>1, <2>2, DIDTime DEF didVars
  <2> QED
    BY <1>0, <1>o, <1>p, <2>1, <2>2, <2>3, ServiceWaits, ServerWaits DEF OAuthInv
<1>6. CASE Crash
  <2>1. ServerCrash /\ ServiceCrash /\ DIDCacheCrash /\ UNCHANGED now /\ UNCHANGED passed
    BY <1>6 DEF Crash, ServiceCrash
  <2> QED
    BY <1>0, <1>o, <2>1, ServerDies, ServiceCrashes, DIDCrash DEF OAuthInv, ClockType
<1>7. CASE UNCHANGED vars
  BY <1>0, <1>7, <1>d, <1>o, <1>p, ServiceWaits, ServerWaits DEF OAuthInv, ClockType, vars
<1> QED
  BY <1>1, <1>2, <1>3, <1>4, <1>5, <1>6, <1>7 DEF Next

LEMMA Invariance == Spec => []OAuthInv
<1>1. OAuthInv /\ [Next]_vars => OAuthInv'
  BY Inductive
<1> QED
  BY <1>1, Start, PTL DEF Spec

\* Requests are at a statement of their handler, access and refresh tokens belong to
\* clients that exist, the replay cache keeps its capacity and cached documents their
\* TTL.
THEOREM TypeCorrect == Spec => []TypeOK
<1>1. OAuthInv => TypeOK
  <2> SUFFICES ASSUME OAuthInv PROVE TypeOK
    OBVIOUS
  <2>0. now \in Nat
    BY IdentityAssumption DEF OAuthInv, ClockType
  <2>1. ServerTypeOK
    <3>1. \A s \in Slots : ~Free(s) =>
             req[s].kind \in DOMAIN Order /\ req[s].pc \in 1 .. Len(Order[req[s].kind]) /\ req[s].id < fresh
      BY DEF OAuthInv, FullServerInv, ServerInv, StoreType, KeyType, RequestType, Drawn
    <3>2. clean.at \in 0 .. 5 /\ clean.now <= now
      BY DEF OAuthInv, FullServerInv, ProofsInv, CleanType
    <3> QED
      BY <3>1, <3>2 DEF OAuthInv, FullServerInv, Referred, ServerTypeOK
  <2>2. ServiceTypeOK
    BY DEF OAuthInv, ServiceInv, ServiceTypeOK
  <2>3. DIDCacheTypeOK
    BY <2>0 DEF OAuthInv, DIDInv, CacheSound, EntrySound, FlightSound, FlightOf, CallersSound, CallerOf,
       CallerStates, Waiting, DIDCacheTypeOK
  <2> QED
    BY <2>1, <2>2, <2>3 DEF OAuthInv, ClockType, TypeOK
<1> QED
  BY <1>1, Invariance, PTL

\* No DPoP proof is accepted twice, by whatever endpoint and however the cleanup of the
\* JTI table falls (validateDPoP, InsertIfNew, DeleteOlderThan).
THEOREM ReplayRefused == Spec => []NoReplay
<1>1. OAuthInv => NoReplay
  BY DEF OAuthInv, FullServerInv, ProofsInv, NoReplay
<1> QED
  BY <1>1, Invariance, PTL

\* A code or refresh token that was answered a pair of tokens leads to none for a request
\* that looks it up later (MarkUsed, Revoke in the token handlers).
THEOREM LateRefused == Spec => []NoLateIssue
<1>1. OAuthInv => NoLateIssue
  BY DEF OAuthInv, FullServerInv, ServerInv, IssuedOnce, NoLateIssue
<1> QED
  BY <1>1, Invariance, PTL

\* Rotation leaves no client without a refresh token that works, whatever failed or
\* crashed (handleRefreshTokenGrant).
THEOREM SessionsKept == Spec => []NeverStranded
<1>1. OAuthInv => NeverStranded
  <2> SUFFICES ASSUME OAuthInv PROVE NeverStranded
    OBVIOUS
  <2>1. RequestType /\ Served
    BY DEF OAuthInv, FullServerInv, ServerInv
  <2>2. \A s \in Slots : Answering(s) => At(s, "answer")
    BY <2>1, AnswersAt
  <2> QED
    BY <2>1, <2>2 DEF Served, Reaches, NeverStranded, tokens
<1> QED
  BY <1>1, Invariance, PTL

\* A document is as fresh as the cache's TTL and the resolver's timeout make it, and
\* one that bypasses the cache as fresh as the timeout (DIDCache.GetWithInvalidate).
THEOREM DocumentsFresh == Spec => []DocFresh
<1>1. OAuthInv => DocFresh
  <2> SUFFICES ASSUME OAuthInv, NEW c \in Callers, caller[c].at = "done", caller[c].doc # Null
               PROVE  LET since == Replaced(caller[c].did, caller[c].doc) IN
                      IF caller[c].fresh THEN since >= caller[c].asked - Timeout
                      ELSE since >= caller[c].asked - CacheTTL - Timeout
    BY DEF DocFresh
  <2>1. Until(replaced[caller[c].did], now, caller[c].doc)
           >= caller[c].asked - (IF caller[c].fresh THEN 0 ELSE CacheTTL) - Timeout
    BY DEF OAuthInv, DIDInv, CallersSound, CallerOf
  <2>2. caller[c].asked \in Nat /\ CacheTTL \in Nat /\ Timeout \in Nat
    BY DIDCacheAssumption DEF OAuthInv, DIDInv, CallersSound, CallerOf
  <2> QED
    BY <2>1, <2>2 DEF Until, Replaced
<1> QED
  BY <1>1, Invariance, PTL

\* A service token is accepted again only if its entry was evicted or went with the
\* process (jtiReplayCache.checkAndSet).
THEOREM TokensOnce == Spec => ServiceOnce
<1>1. OAuthInv /\ [Next]_vars => [\A k \in DOMAIN passed : passed'[k] > passed[k] => k \in forgot]_vars
  BY Inductive
<1> QED
  BY <1>1, Invariance, PTL DEF Spec, ServiceOnce
=============================================================================
