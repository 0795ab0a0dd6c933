----------------------------- MODULE ServiceAuth -----------------------------
(***************************************************************************)
(* Service-auth tokens (internal/oauth/serviceauth.go, its middleware and  *)
(* public-key parsing) and the bounded cache that refuses a token used     *)
(* before (jti_replay.go).  Signatures, base64 and JSON are external: a    *)
(* token is a record that says whether they hold.                          *)
(***************************************************************************)
EXTENDS Identity

CONSTANTS
    Tokens,         \* the Authorization headers that requests may carry
    Audience, Lxm,  \* our own DID, and the method the endpoint is pinned to
    MaxLifetime, MaxSkew,   \* serviceAuthMaxLifetime, serviceAuthMaxSkew
    Capacity        \* jtiCacheCapacity

ASSUME ServiceAuthAssumption ==
    /\ MaxLifetime \in Nat /\ MaxSkew \in Nat /\ Capacity \in Nat \ {0}
    /\ \A t \in Tokens : t.exp \in Int

VARIABLES
    entries,        \* jtiReplayCache: [key -> expiresAt], entries and heap in one
    passed,         \* history: how often a token, <<its key, its exp>>, was accepted
    forgot          \* history: tokens whose entry was lost before it expired

serviceVars == <<entries, passed, forgot>>

ServiceInit == entries = <<>> /\ passed = <<>> /\ forgot = {}

extractBearer(t) ==
    FirstFailure(<< <<"missing_header", t.header = "none">>, <<"malformed_header", t.header # "bearer">> >>)
checkTypHeader(t) == t.typ \in {Null, "JWT", "at+jwt"}

\* The multibase key: base58btc, a known multicodec, a compressed point on the curve.
parsePublicKeyMultibase(key) ==
    IF key.encoding = "base58btc" /\ key.codec \in {"p256", "secp256k1"} /\ key.point = "compressed"
    THEN key.codec ELSE Null

\* The key that golang-jwt must verify with, or the reason there is none.
keyFunc(t, a) ==
    LET doc == ResolveDID(t.iss, a)
        vm  == IF doc = Null THEN Null ELSE AtprotoSigningKey(doc)
        key == IF vm = Null THEN Null ELSE parsePublicKeyMultibase(vm.key)
    IN FirstFailure(<< <<"malformed_header", t.iss = Null>>, <<"unsupported_did_method", ~IsValid(t.iss)>>,
                       <<"did_resolve", doc = Null>>, <<"verification_method_not_found", vm = Null>>,
                       <<"malformed_multibase", key = Null>>,
                       <<"bad_signature", key # (IF t.alg = "ES256" THEN "p256" ELSE "secp256k1")>> >>)

\* jwt.ParseWithClaims and mapParseError: the reason of the key lookup survives.
Parse(t, a) ==
    FirstFailure(<< <<"unsupported_alg", t.alg \notin {"ES256", "ES256K"}>>,
                    <<keyFunc(t, a), keyFunc(t, a) # "ok">>, <<"bad_signature", ~t.signed>>,
                    <<"expired", t.exp = 0 \/ now >= t.exp>> >>)

Verify(t, a) ==
    IF extractBearer(t) # "ok" THEN extractBearer(t)
    ELSE IF ~checkTypHeader(t) \/ t.large THEN "malformed_header"
    ELSE IF Parse(t, a) # "ok" THEN Parse(t, a)
    ELSE FirstFailure(<< <<"bad_audience", t.aud # Audience>>,
                         <<"expired", t.exp <= now - MaxSkew \/ t.exp > now + MaxLifetime + MaxSkew>>,
                         <<"future_iat", t.iat # 0 /\ t.iat > now + MaxSkew>>,
                         <<"bad_lxm", t.lxm # Lxm>>,
                         <<"missing_jti", t.jti = Null /\ t.iat = 0>> >>)

\* Tokens without jti are told apart by their signature.
synthReplayKey(t) == <<t.iss, "", t.exp, t.iat, t.sig>>
ReplayKey(t) == IF t.jti = Null THEN synthReplayKey(t) ELSE <<t.iss, t.jti, 0, 0, "">>

Earliest(e) == CHOOSE k \in DOMAIN e : \A j \in DOMAIN e : e[k] <= e[j]
Without(e, k) == Restrict(e, DOMAIN e \ {k})
Pruned(e) == Restrict(e, {k \in DOMAIN e : e[k] > now})
Add(e, k, x) == [j \in DOMAIN e \cup {k} |-> IF j = k THEN x ELSE e[j]]

\* Mutant: room is made once the cache is past its capacity.
MakeRoomLate(e) == IF Cardinality(DOMAIN e) > Capacity THEN Without(e, Earliest(e)) ELSE e
MakeRoom(e) == IF Cardinality(DOMAIN e) >= Capacity THEN Without(e, Earliest(e)) ELSE e
Remember(e, k, x) ==
    IF k \in DOMAIN e THEN [new |-> FALSE, entries |-> e] ELSE [new |-> TRUE, entries |-> Add(MakeRoom(e), k, x)]

\* Mutant: room is made before the key is looked for.
checkAndSetRoomFirst(e, k, x) == Remember(MakeRoom(Pruned(e)), k, x)

\* Expired entries go; a key that is there is refused; at capacity the entry that
\* expires first makes room.
checkAndSet(e, k, x) == Remember(Pruned(e), k, x)

Used(k) == IF k \in DOMAIN passed THEN passed[k] ELSE 0

\* The tokens that entries e stand for.
Entered(e) == {<<k, e[k] - MaxSkew>> : k \in DOMAIN e}

\* ServiceAuthMiddleware: one request to the notifications endpoint.
ServiceRequest(t, a) ==
    /\ Spend("service") /\ Verify(t, a) = "ok"
    /\ LET k == ReplayKey(t)
           r == checkAndSet(entries, k, t.exp + MaxSkew)
           token == <<k, t.exp>> IN
       /\ entries' = r.entries
       /\ passed' = IF r.new THEN Add(passed, token, Used(token) + 1) ELSE passed
       /\ forgot' = (forgot \cup (Entered(Pruned(entries)) \ Entered(r.entries)))
                        \ (IF r.new THEN {token} ELSE {})

Reject(t, a) == Spend("service") /\ Verify(t, a) # "ok" /\ UNCHANGED serviceVars

\* The cache is in memory only.
ServiceCrash == entries' = <<>> /\ forgot' = forgot \cup Entered(entries) /\ UNCHANGED passed

ServiceTypeOK ==
    /\ Cardinality(DOMAIN entries) <= Capacity /\ Entered(entries) \subseteq DOMAIN passed
    /\ forgot \cap Entered(entries) = {}
=============================================================================
