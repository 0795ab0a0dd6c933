----------------------------- MODULE OAuthServer -----------------------------
(***************************************************************************)
(* The OAuth endpoints (internal/server/oauth_handlers.go, oauth_par.go,   *)
(* oauth_register.go), the check of access tokens on protected requests    *)
(* (internal/oauth/middleware.go), the administration of clients           *)
(* (graphql/admin/resolvers_oauth_clients.go) and the cleanup worker.      *)
(*                                                                         *)
(* Requests run concurrently.  A request is a chain of statements (Order); *)
(* other requests, the worker and a crash come in between.  What a handler *)
(* does between two statements touches no shared state, so it is part of   *)
(* the next statement's action.                                            *)
(***************************************************************************)
EXTENDS OAuthStore, Bridge, TLC

CONSTANTS
    Slots,              \* requests that may be in progress at a time
    Client1, AdminClient,   \* a client that is registered from the start; the admin UI
    AuthorizeParams, CallbackReplies, TokenParams, UseParams,  \* what requests may carry
    PARParams, RegisterParams, RedirectLists,
    Networks, TokenAnswers,                  \* external: what remote servers answer
    CodeTTL, AccessTTL, RefreshTTL,          \* lifetimes of codes and tokens
    MaxAge, CleanupSkew, MaxFuture,          \* of a DPoP proof; of its JTI row
    LegacyCutoff                             \* LegacyDPoPJKTCutoff

ASSUME OAuthAssumption ==
    /\ {CodeTTL, AccessTTL, RefreshTTL, MaxAge, CleanupSkew, MaxFuture, LegacyCutoff} \subseteq Nat
    /\ IsFiniteSet(Slots) /\ \A q \in Quotas : q.seeded \in Nat
    /\ \A p \in TokenParams \cup UseParams : p.proof # Null => p.proof.iat \in Int \cup {Null}

VARIABLES
    req,                \* [Slots -> request in progress, or NoRequest]
    clean,              \* the cleanup worker: next table, and the time it started
    fresh,              \* random identifiers drawn so far
    spent,              \* external: logins whose code was exchanged upstream
    known,              \* history: codes and tokens that clients have received
    issued,             \* history: per code or refresh token that was answered, the requests that
                        \* had found it good by the first answer, and those that got a pair
    accepted,           \* history: how often a DPoP proof, <<jti, iat>>, was accepted
    ended, lost         \* history: sessions revoked; sessions that lost an answer in a crash

ghostVars == <<known, issued, accepted, ended, lost>>
serverVars == <<db, req, clean, fresh, spent, ghostVars>>

\* Mutant: the old refresh token is revoked before the new tokens are stored.
OrderRevokeFirst ==
    [authorize |-> <<"authRequest", "atpRequest", "atpSession">>,
     callback  |-> <<"getAuthRequest", "exchange", "session", "code", "dropATP", "dropAuth", "redirect">>,
     expired   |-> <<"dropATP">>,
     code      |-> <<"getCode", "jti", "mark", "access", "refresh", "answer">>,
     refresh   |-> <<"getRefresh", "jti", "revoke", "access", "refresh", "answer">>,
     revoke    |-> <<"revokeAccess", "revokeRefresh">>,
     use       |-> <<"jti", "getAccess">>,
     par       |-> <<"par">>,
     update    |-> <<"update">>]

\* The statements of each handler, in order; its first statement, a lookup by the
\* request's own parameters, belongs to the arrival.
Order ==
    [authorize |-> <<"authRequest", "atpRequest", "atpSession">>,
     callback  |-> <<"getAuthRequest", "exchange", "session", "code", "dropATP", "dropAuth", "redirect">>,
     expired   |-> <<"dropATP">>,
     code      |-> <<"getCode", "jti", "mark", "access", "refresh", "answer">>,
     refresh   |-> <<"getRefresh", "jti", "access", "refresh", "revoke", "answer">>,
     revoke    |-> <<"revokeAccess", "revokeRefresh">>,
     use       |-> <<"jti", "getAccess">>,
     par       |-> <<"par">>,
     update    |-> <<"update">>]

\* Statements whose failure the handler ignores.
BestEffort == {"session", "dropATP", "dropAuth", "revokeAccess", "revokeRefresh"}

NoRequest == [kind |-> "none", pc |-> 0, in |-> Null, grant |-> Null, row |-> Null, key |-> Null, id |-> 0]

\* Client1 is registered, and quota.seeded logins have ended with a code each.
Seeded == 1 .. quota.seeded
ServerInit ==
    /\ db = [EmptyDB EXCEPT
                !.clients = (Client1 :> [redirects |-> {"cb"}, type |-> "public"]),
                !.atpSessions = [n \in Seeded |-> [did |-> CHOOSE d \in Dids : TRUE, exchanged |-> TRUE]],
                !.authCodes = [c \in {<<"code", n>> : n \in Seeded} |->
                    [client |-> Client1, session |-> c[2], redirect |-> "cb", challenge |-> "S256-v",
                     expires |-> CodeTTL, used |-> FALSE]]]
    /\ known = {<<"code", n>> : n \in Seeded} /\ fresh = quota.seeded + 1
    /\ req = [s \in Slots |-> NoRequest] /\ clean = [at |-> 0, now |-> 0]
    /\ spent = Seeded /\ issued = <<>> /\ accepted = <<>> /\ ended = {} /\ lost = {}

IsExpired(row) == now > row.expires

Free(s) == req[s].kind = "none"
At(s, step) == ~Free(s) /\ Order[req[s].kind][req[s].pc] = step
After(r) == IF r.pc = Len(Order[r.kind]) THEN NoRequest ELSE [r EXCEPT !.pc = @ + 1]
Continue(s, r) == req' = [req EXCEPT ![s] = After(r)]
Answer(s) == req' = [req EXCEPT ![s] = NoRequest]

Begin(s, kind, in, grant) ==
    /\ req' = [req EXCEPT ![s] = [kind |-> kind, pc |-> 1, in |-> in, grant |-> grant,
                                  row |-> Null, key |-> Null, id |-> fresh]]
    /\ fresh' = fresh + 1 /\ UNCHANGED <<db, clean, spent, ghostVars>>
Refuse == UNCHANGED serverVars

\* Request s runs a statement that makes the database new.  It succeeds, or fails.
Statement(s, step, new, r) ==
    /\ At(s, step)
    /\ \/ new # Null /\ db' = new /\ Fine /\ Continue(s, r)
       \/ (IF new = Null THEN Fine ELSE Spend("fault")) /\ UNCHANGED db
          /\ IF step \in BestEffort THEN Continue(s, r) ELSE Answer(s)
    /\ UNCHANGED <<clean, fresh, spent>>

\* Request s reads a row; the handler goes on if its checks pass.
Read(s, step, row, passes) ==
    /\ At(s, step) /\ UNCHANGED <<db, clean, fresh, spent, ghostVars>>
    /\ \/ Fine /\ IF passes THEN Continue(s, [req[s] EXCEPT !.row = row]) ELSE Answer(s)
       \/ Spend("fault") /\ Answer(s)

-----------------------------------------------------------------------------
(* Logging in: /oauth/authorize and /oauth/callback.                       *)

isValidRedirectURI(uri, client) == uri \in client.redirects

HandleAuthorize(s, p) ==
    /\ Free(s) /\ Spend("authorize")
    /\ LET client == GetClient(db, p.client) IN
       IF FirstFailure(<< <<"client_id", p.client = Null>>, <<"redirect_uri", p.redirect = Null>>,
                          <<"invalid_client", client = Null>>,
                          <<"invalid_request", client # Null /\ ~isValidRedirectURI(p.redirect, client)>>,
                          <<"unsupported_response_type", p.responseType # "code">>,
                          <<"invalid_request", p.challenge = Null>>,
                          <<"invalid_request", p.method \notin {Null, "S256"}>>,
                          <<"invalid_request", p.hint = Null>> >>) = "ok"
       THEN Begin(s, "authorize", p, fresh) ELSE Refuse

\* The account behind login_hint, and its authorization server.
ResolveLogin(p, n) ==
    LET did == IF IsValid(p.hint) THEN p.hint ELSE ResolveHandleToDID(n.handle)
    IN IF did = Null \/ ResolveAuthServer(did, n) = Null THEN Null ELSE did

StoreAuthRequest(s) ==
    /\ At(s, "authRequest") /\ UNCHANGED ghostVars
    /\ LET p == req[s].in IN
       \E n \in Networks :
          LET did == ResolveLogin(p, n) IN
          IF did = Null
          THEN Fine /\ Answer(s) /\ UNCHANGED <<db, clean, fresh, spent>>
          ELSE Statement(s, "authRequest",
                 InsertAuthRequest(db, req[s].grant,
                    [client |-> p.client, redirect |-> p.redirect, challenge |-> p.challenge,
                     expires |-> now + CodeTTL]),
                 [req[s] EXCEPT !.row = did])

\* The state sent upstream is its own random string; the session ties it to the login.
StoreATPRequest(s) ==
    /\ Statement(s, "atpRequest",
          InsertATPRequest(db, req[s].grant, [nonce |-> req[s].grant, expires |-> now + CodeTTL]), req[s])
    /\ UNCHANGED ghostVars
StoreATPSession(s) ==
    /\ Statement(s, "atpSession",
          InsertATPSession(db, req[s].grant, [did |-> req[s].row, exchanged |-> FALSE]), req[s])
    /\ UNCHANGED ghostVars

\* The browser comes back with the state of a login that was sent upstream.
HandleCallback(s, state, reply) ==
    /\ Free(s) /\ Spend("callback") /\ state \in DOMAIN db.atpSessions
    /\ LET atpReq == GetATPRequest(db, state) IN
       IF atpReq = Null THEN Refuse
       ELSE Begin(s, IF IsExpired(atpReq) THEN "expired" ELSE "callback", reply, atpReq.nonce)

LoadAuthRequest(s) ==
    At(s, "getAuthRequest") /\
    LET authReq == GetAuthRequest(db, req[s].grant) IN
    Read(s, "getAuthRequest", authReq, authReq # Null /\ req[s].in = "code")

\* Upstream exchanges a code once.
ExchangeCode(s) ==
    /\ At(s, "exchange") /\ Fine /\ UNCHANGED <<db, clean, fresh, ghostVars>>
    /\ \E a \in TokenAnswers :
          IF fetchTokens(a) # Null /\ req[s].grant \notin spent
          THEN spent' = spent \cup {req[s].grant} /\ Continue(s, req[s])
          ELSE UNCHANGED spent /\ Answer(s)

\* GetLatest and Update, with the account that upstream names (tokenResp.Sub); the login
\* goes on without them.  One exchange per login, so nobody writes the row in between.
ExchangedSession(s) ==
    /\ At(s, "session")
    /\ \E sub \in Dids : Statement(s, "session", UpdateATPSession(db, req[s].grant, sub), req[s])
    /\ UNCHANGED ghostVars

StoreAuthCode(s) ==
    /\ At(s, "code")
    /\ LET a == req[s].row IN
       Statement(s, "code",
          InsertAuthCode(db, <<"code", req[s].id>>,
             [client |-> a.client, session |-> req[s].grant, redirect |-> a.redirect,
              challenge |-> a.challenge, expires |-> now + CodeTTL, used |-> FALSE]), req[s])
    /\ UNCHANGED ghostVars
DropATPRequest(s) ==
    At(s, "dropATP") /\ Statement(s, "dropATP", DeleteATPRequest(db, req[s].grant), req[s]) /\ UNCHANGED ghostVars
DropAuthRequest(s) ==
    At(s, "dropAuth") /\ Statement(s, "dropAuth", DeleteAuthRequest(db, req[s].grant), req[s]) /\ UNCHANGED ghostVars
RedirectWithCode(s) ==
    /\ At(s, "redirect") /\ Fine /\ Answer(s)
    /\ known' = known \cup {<<"code", req[s].id>>}
    /\ UNCHANGED <<db, clean, fresh, spent, issued, accepted, ended, lost>>

LoginNext(s) ==
    \/ \E p \in AuthorizeParams : HandleAuthorize(s, p)
    \/ StoreAuthRequest(s) \/ StoreATPRequest(s) \/ StoreATPSession(s)
    \/ \E state \in DOMAIN db.atpSessions, r \in CallbackReplies : HandleCallback(s, state, r)
    \/ LoadAuthRequest(s) \/ ExchangeCode(s) \/ ExchangedSession(s) \/ StoreAuthCode(s)
    \/ DropATPRequest(s) \/ DropAuthRequest(s) \/ RedirectWithCode(s)
-----------------------------------------------------------------------------
(* Tokens: /oauth/token and /oauth/revoke.  A proof is a record; signature *)
(* and key thumbprint are external.                                        *)

Count(f, k) == [j \in DOMAIN f \cup {k} |-> IF j = k THEN (IF k \in DOMAIN f THEN f[k] ELSE 0) + 1 ELSE f[j]]

VerifyDPoPProof(p, method, url) ==
    FirstFailure(<< <<"format", p.header # "dpop+jwt">>, <<"alg", p.alg # "ES256">>, <<"jwk", p.key = Null>>,
                    <<"signature", ~p.signed>>, <<"htm", p.htm # method>>, <<"htu", p.htu # url>>,
                    <<"jti", p.jti = Null>>, <<"iat", p.iat = Null>>,
                    <<"too_old", now - p.iat > MaxAge>>, <<"in_future", p.iat > now + MaxFuture>> >>) = "ok"

\* SHA-256, as far as it matters: no two verifiers share a challenge.
GenerateCodeChallenge(verifier) == IF verifier = "v" THEN "S256-v" ELSE "S256-other"
VerifyCodeChallenge(verifier, challenge) == GenerateCodeChallenge(verifier) = challenge

\* POST /oauth/token for grant g, a code or a refresh token.
HandleToken(s, g, p) ==
    /\ Free(s) /\ Spend("token")
    /\ IF FirstFailure(<< <<"unsupported_grant_type", p.grant \notin {"code", "refresh"}>>,
                          <<"client_id", p.client = Null>>,
                          <<"redirect_uri", p.grant = "code" /\ p.redirect = Null>>,
                          <<"invalid_client", GetClient(db, p.client) = Null>> >>) = "ok"
       THEN Begin(s, p.grant, p, g) ELSE Refuse

handleAuthorizationCodeGrant(s) ==
    /\ At(s, "getCode")
    /\ LET row == GetAuthCode(db, req[s].grant)
           p   == req[s].in
       IN Read(s, "getCode", row,
               row # Null /\ FirstFailure(<< <<"used", row.used>>, <<"expired", IsExpired(row)>>,
                                   <<"client", row.client # p.client>>, <<"redirect", row.redirect # p.redirect>>,
                                   <<"pkce", row.challenge # Null /\ (p.verifier = Null
                                                \/ ~VerifyCodeChallenge(p.verifier, row.challenge))>> >>) = "ok")

handleRefreshTokenGrant(s) ==
    /\ At(s, "getRefresh")
    /\ LET row == GetRefreshToken(db, req[s].grant) IN
       Read(s, "getRefresh", row,
            row # Null /\ FirstFailure(<< <<"revoked", row.revoked>>, <<"expired", IsExpired(row)>>,
                                <<"client", row.client # req[s].in.client>> >>) = "ok")

\* A bound token needs its key; an unbound one must be older than the cutoff.
checkRefreshTokenDPoPBinding(row, key) ==
    IF row.jkt # Null THEN key = row.jkt ELSE row.original < LegacyCutoff

\* Mutant: the row remembers when the proof came in.
JTIReceived(p) == now
JTICreated(p) == p.iat

\* validateDPoP, and the middleware's replay check: the proof is verified, then its
\* JTI inserted; without a proof there is no key.
validateDPoP(s, p, method, url) ==
    LET r == req[s]
        GoOn(key) == IF r.kind = "refresh" /\ ~checkRefreshTokenDPoPBinding(r.row, key)
                     THEN Answer(s) ELSE Continue(s, [r EXCEPT !.key = key])
    IN /\ At(s, "jti") /\ UNCHANGED <<clean, fresh, spent, known, issued, ended, lost>>
       /\ \/ p = Null /\ Fine /\ GoOn(Null) /\ UNCHANGED <<db, accepted>>
          \/ /\ p # Null /\ ~VerifyDPoPProof(p, method, url)
             /\ Fine /\ Answer(s) /\ UNCHANGED <<db, accepted>>
          \/ /\ p # Null /\ VerifyDPoPProof(p, method, url)
             /\ \/ /\ Fine /\ db' = InsertIfNew(db, p.jti, JTICreated(p))
                   /\ IF IsNewJTI(db, p.jti)
                      THEN GoOn(p.key) /\ accepted' = Count(accepted, <<p.jti, p.iat>>)
                      ELSE Answer(s) /\ UNCHANGED accepted
                \/ Spend("fault") /\ Answer(s) /\ UNCHANGED <<db, accepted>>

CheckProof(s) ==
    /\ At(s, "jti")
    /\ IF req[s].kind = "use"
       THEN validateDPoP(s, IF req[s].in.scheme = "DPoP" THEN req[s].in.proof ELSE Null, "GET", "resource")
       ELSE validateDPoP(s, req[s].in.proof, "POST", "token")

MarkCodeUsed(s) ==
    At(s, "mark") /\ Statement(s, "mark", MarkUsed(db, req[s].grant), req[s]) /\ UNCHANGED ghostVars

StoreAccessToken(s) ==
    /\ At(s, "access") /\ UNCHANGED ghostVars
    /\ LET r == req[s] IN
       Statement(s, "access",
          InsertAccessToken(db, <<"at", r.id>>,
             [client |-> r.in.client, session |-> r.row.session, jkt |-> r.key,
              expires |-> now + AccessTTL, revoked |-> FALSE]), r)

NewRefreshToken(r) ==
    [client |-> r.in.client, session |-> r.row.session, jkt |-> r.key, original |-> now,
     expires |-> now + RefreshTTL, revoked |-> FALSE]
\* A rotated token keeps the binding and the issue time of its ancestor.
RotatedRefreshToken(r) == [NewRefreshToken(r) EXCEPT !.jkt = r.row.jkt, !.original = r.row.original]

StoreRefreshToken(s) ==
    /\ At(s, "refresh") /\ UNCHANGED ghostVars
    /\ LET r == req[s] IN
       Statement(s, "refresh",
          InsertRefreshToken(db, <<"rt", r.id>>,
             IF r.kind = "code" THEN NewRefreshToken(r) ELSE RotatedRefreshToken(r)), r)

RevokeOld(s) ==
    At(s, "revoke") /\ Statement(s, "revoke", RevokeRefreshToken(db, req[s].grant), req[s]) /\ UNCHANGED ghostVars

\* The requests that have read grant g and found it good.
Redeeming(g) == {s \in Slots : req[s].kind \in {"code", "refresh"} /\ req[s].pc >= 2 /\ req[s].grant = g}
Issue(s) ==
    LET g   == req[s].grant
        was == IF g \in DOMAIN issued THEN issued[g]
               ELSE [early |-> {req[x].id : x \in Redeeming(g)}, pairs |-> {}]
    IN With(issued, g, [early |-> was.early, pairs |-> was.pairs \cup {req[s].id}])

\* The response; the client may be gone by then.
AnswerTokens(s) ==
    /\ At(s, "answer") /\ Answer(s) /\ issued' = Issue(s)
    /\ \/ Fine /\ known' = known \cup {<<"at", req[s].id>>, <<"rt", req[s].id>>} /\ UNCHANGED lost
       \/ Spend("fault") /\ lost' = lost \cup {req[s].row.session} /\ UNCHANGED known
    /\ UNCHANGED <<db, clean, fresh, spent, accepted, ended>>

\* POST /oauth/revoke: both tables are tried, whatever comes of it.
HandleRevoke(s, t) ==
    /\ Free(s) /\ Spend("revoke")
    /\ IF t = Null THEN Refuse ELSE Begin(s, "revoke", Null, t)
RevokeInBoth(s) ==
    \/ /\ At(s, "revokeAccess") /\ UNCHANGED ghostVars
       /\ Statement(s, "revokeAccess", RevokeAccessToken(db, req[s].grant), req[s])
    \/ /\ At(s, "revokeRefresh") /\ UNCHANGED <<known, issued, accepted, lost>>
       /\ Statement(s, "revokeRefresh", RevokeRefreshToken(db, req[s].grant), req[s])
       /\ ended' = ended \cup {db.refreshTokens[t].session : t \in DOMAIN db.refreshTokens \cap {req[s].grant}}

-----------------------------------------------------------------------------
(* A protected request presents an access token (middleware.go).           *)

ValidateRequest(s, t, p) ==
    /\ Free(s) /\ Spend("use")
    /\ IF FirstFailure(<< <<"missing", p.scheme = Null>>, <<"scheme", p.scheme \notin {"DPoP", "Bearer"}>>,
                          <<"proof", p.scheme = "DPoP" /\ p.proof = Null>> >>) = "ok"
       THEN Begin(s, "use", p, t) ELSE Refuse

\* A bound token is for DPoP only, and only with its key.
CheckAccessToken(s) ==
    /\ At(s, "getAccess")
    /\ LET row == GetAccessToken(db, req[s].grant) IN
       Read(s, "getAccess", row,
            row # Null /\ FirstFailure(<< <<"expired", IsExpired(row)>>, <<"revoked", row.revoked>>,
                <<"binding", IF req[s].in.scheme = "DPoP" THEN row.jkt # req[s].key ELSE row.jkt # Null>> >>) = "ok")

-----------------------------------------------------------------------------
(* Clients: pushed requests, registration, administration.                 *)

\* Nothing reads a pushed request again.
HandlePAR(s, p) ==
    /\ Free(s) /\ Spend("par")
    /\ LET client == GetClient(db, p.client) IN
       IF FirstFailure(<< <<"client_id", p.client = Null>>, <<"invalid_client", client = Null>>,
                          <<"response_type", p.responseType = Null>>, <<"redirect_uri", p.redirect = Null>>,
                          <<"redirect_uri", client # Null /\ ~isValidRedirectURI(p.redirect, client)>> >>) = "ok"
       THEN Begin(s, "par", p, Null) ELSE Refuse
StorePAR(s) ==
    /\ At(s, "par") /\ UNCHANGED ghostVars
    /\ Statement(s, "par", InsertPARRequest(db, <<"par", req[s].id>>, [client |-> req[s].in.client]), req[s])

\* https anywhere, http at home, no fragment.
validateRedirectURI(uri) == uri.absolute /\ (uri.scheme = "https" \/ uri.host = "localhost") /\ ~uri.fragment
parseAuthMethod(m) == IF m \in {"client_secret_basic", "client_secret_post", "private_key_jwt"} THEN m ELSE "none"

\* One statement on the clients' table, which may fail.
ClientStatement(new) ==
    /\ Spend("admin") /\ UNCHANGED <<req, clean, spent, known, issued, accepted, lost>>
    /\ \/ db' = new /\ fresh' = fresh + 1
       \/ UNCHANGED <<db, fresh>>

HandleRegister(p) ==
    /\ UNCHANGED ended /\ p.redirects # {} /\ \A u \in p.redirects : validateRedirectURI(u)
    /\ ClientStatement(InsertClient(db, <<"client", fresh>>,
          [redirects |-> {u.name : u \in p.redirects},
           type |-> IF parseAuthMethod(p.authMethod) = "none" THEN "public" ELSE "confidential"]))
CreateOAuthClient(type, redirects) ==
    /\ UNCHANGED ended
    /\ ClientStatement(InsertClient(db, <<"client", fresh>>, [redirects |-> redirects, type |-> type]))
UpdateOAuthClient(s, c, redirects) ==
    /\ Free(s) /\ Spend("admin")
    /\ LET client == GetClient(db, c) IN
       IF client = Null THEN Refuse
       ELSE Begin(s, "update", [client EXCEPT !.redirects = redirects], c)
WriteClient(s) ==
    At(s, "update") /\ Statement(s, "update", UpdateClient(db, req[s].grant, req[s].in), req[s]) /\ UNCHANGED ghostVars
DeleteOAuthClient(c) ==
    /\ c # AdminClient /\ ClientStatement(DeleteClient(db, c))
    /\ ended' = ended \cup {db.refreshTokens[t].session :
                            t \in {x \in DOMAIN db.refreshTokens : db.refreshTokens[x].client = c}}

-----------------------------------------------------------------------------
(* The cleanup worker deletes from one table after the other; a failure is *)
(* logged.  Expired refresh tokens and pushed requests stay.               *)

Deletions(t) ==
    << DeleteExpiredAuthRequests(db, t), DeleteExpiredATPRequests(db, t), DeleteExpiredAuthCodes(db, t),
       DeleteExpiredAccessTokens(db, t), DeleteJTIsOlderThan(db, t - MaxAge - CleanupSkew) >>

StartCleanupWorker ==
    /\ clean.at = 0 /\ Spend("cleanup") /\ clean' = [at |-> 1, now |-> now]
    /\ UNCHANGED <<db, req, fresh, spent, ghostVars>>
CleanTable ==
    /\ clean.at > 0 /\ clean' = [clean EXCEPT !.at = (@ + 1) % 6]
    /\ \/ Fine /\ db' = Deletions(clean.now)[clean.at]
       \/ Spend("fault") /\ UNCHANGED db
    /\ UNCHANGED <<req, fresh, spent, ghostVars>>

-----------------------------------------------------------------------------

TokenNext(s) ==
    \/ \E g \in known, p \in TokenParams : HandleToken(s, g, p)
    \/ handleAuthorizationCodeGrant(s) \/ handleRefreshTokenGrant(s) \/ CheckProof(s)
    \/ MarkCodeUsed(s) \/ StoreAccessToken(s) \/ StoreRefreshToken(s) \/ RevokeOld(s) \/ AnswerTokens(s)
    \/ \E t \in known \cup {Null} : HandleRevoke(s, t)
    \/ RevokeInBoth(s)
    \/ \E t \in known, p \in UseParams : ValidateRequest(s, t, p)
    \/ CheckAccessToken(s)

ClientNext ==
    \/ \E s \in Slots :
          \/ \E p \in PARParams : HandlePAR(s, p)
          \/ StorePAR(s)
          \/ \E c \in DOMAIN db.clients, redirects \in RedirectLists : UpdateOAuthClient(s, c, redirects)
          \/ WriteClient(s)
    \/ \E p \in RegisterParams : HandleRegister(p)
    \/ \E type \in {"public", "confidential"}, redirects \in RedirectLists : CreateOAuthClient(type, redirects)
    \/ \E c \in DOMAIN db.clients : DeleteOAuthClient(c)

ServerNext == ClientNext \/ StartCleanupWorker \/ CleanTable \/ \E s \in Slots : LoginNext(s) \/ TokenNext(s)

\* The process ends; the clients of requests whose tokens were stored get no answer.
ServerCrash ==
    /\ req' = [s \in Slots |-> NoRequest] /\ clean' = [at |-> 0, now |-> 0]
    /\ lost' = lost \cup {req[s].row.session : s \in {x \in Slots : At(x, "answer")}}
    /\ UNCHANGED <<db, fresh, spent, known, issued, accepted, ended>>

ServerTypeOK ==
    /\ \A s \in Slots : ~Free(s) =>
          req[s].kind \in DOMAIN Order /\ req[s].pc \in 1 .. Len(Order[req[s].kind]) /\ req[s].id < fresh
    /\ clean.at \in 0 .. 5 /\ clean.now <= now
    /\ \A t \in DOMAIN db.accessTokens : db.accessTokens[t].client \in DOMAIN db.clients
    /\ \A t \in DOMAIN db.refreshTokens : db.refreshTokens[t].client \in DOMAIN db.clients

=============================================================================
