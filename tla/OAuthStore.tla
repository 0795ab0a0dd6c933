------------------------------ MODULE OAuthStore ------------------------------
(***************************************************************************)
(* The OAuth tables and the statements of their repositories               *)
(* (internal/database/repositories/oauth_*.go).  A statement maps the      *)
(* database to its new value, Null where a constraint refuses it: access   *)
(* and refresh tokens, authorization requests and pushed requests refer to *)
(* their client and go with it; authorization codes do not.                *)
(***************************************************************************)
EXTENDS Identity

VARIABLE db         \* the tables, each a function from primary key to row

EmptyDB == [clients |-> <<>>, authRequests |-> <<>>, atpRequests |-> <<>>, atpSessions |-> <<>>,
            authCodes |-> <<>>, accessTokens |-> <<>>, refreshTokens |-> <<>>,
            dpopJTIs |-> <<>>, parRequests |-> <<>>]

With(t, k, row) == [j \in DOMAIN t \cup {k} |-> IF j = k THEN row ELSE t[j]]
Find(t, k) == IF k \in DOMAIN t THEN t[k] ELSE Null
Keeping(t, Test(_)) == Restrict(t, {k \in DOMAIN t : Test(t[k])})
Dropping(t, k) == Restrict(t, DOMAIN t \ {k})
Referring(d, row, new) == IF row.client \in DOMAIN d.clients THEN new ELSE Null

InsertClient(d, id, row) == [d EXCEPT !.clients = With(@, id, row)]
GetClient(d, id) == Find(d.clients, id)
\* UPDATE writes all columns that the caller read before.
UpdateClient(d, id, row) == [d EXCEPT !.clients = IF id \in DOMAIN @ THEN With(@, id, row) ELSE @]
DeleteClient(d, id) ==
    LET Others(row) == row.client # id IN
    [d EXCEPT !.clients = Dropping(@, id),
              !.accessTokens = Keeping(@, Others), !.refreshTokens = Keeping(@, Others),
              !.authRequests = Keeping(@, Others), !.parRequests = Keeping(@, Others)]

InsertAuthRequest(d, id, row) == Referring(d, row, [d EXCEPT !.authRequests = With(@, id, row)])
GetAuthRequest(d, id) == Find(d.authRequests, id)
DeleteAuthRequest(d, id) == [d EXCEPT !.authRequests = Dropping(@, id)]

InsertATPRequest(d, state, row) == [d EXCEPT !.atpRequests = With(@, state, row)]
GetATPRequest(d, state) == Find(d.atpRequests, state)
DeleteATPRequest(d, state) == [d EXCEPT !.atpRequests = Dropping(@, state)]

InsertATPSession(d, id, row) == [d EXCEPT !.atpSessions = With(@, id, row)]
UpdateATPSession(d, id, did) ==
    [d EXCEPT !.atpSessions = IF id \in DOMAIN @ THEN With(@, id, [did |-> did, exchanged |-> TRUE]) ELSE @]

InsertAuthCode(d, code, row) == [d EXCEPT !.authCodes = With(@, code, row)]
GetAuthCode(d, code) == Find(d.authCodes, code)
\* Mutant: the update misses the row.
MarkUsedNot(d, code) == d
MarkUsed(d, code) == [d EXCEPT !.authCodes = IF code \in DOMAIN @ THEN [@ EXCEPT ![code].used = TRUE] ELSE @]

InsertAccessToken(d, t, row) == Referring(d, row, [d EXCEPT !.accessTokens = With(@, t, row)])
GetAccessToken(d, t) == Find(d.accessTokens, t)
RevokeAccessToken(d, t) ==
    [d EXCEPT !.accessTokens = IF t \in DOMAIN @ THEN [@ EXCEPT ![t].revoked = TRUE] ELSE @]

InsertRefreshToken(d, t, row) == Referring(d, row, [d EXCEPT !.refreshTokens = With(@, t, row)])
GetRefreshToken(d, t) == Find(d.refreshTokens, t)
RevokeRefreshToken(d, t) ==
    [d EXCEPT !.refreshTokens = IF t \in DOMAIN @ THEN [@ EXCEPT ![t].revoked = TRUE] ELSE @]

\* INSERT ... ON CONFLICT DO NOTHING; whether a row was inserted.
IsNewJTI(d, jti) == jti \notin DOMAIN d.dpopJTIs
InsertIfNew(d, jti, created) ==
    [d EXCEPT !.dpopJTIs = IF jti \in DOMAIN @ THEN @ ELSE With(@, jti, created)]

InsertPARRequest(d, uri, row) == Referring(d, row, [d EXCEPT !.parRequests = With(@, uri, row)])

\* The cleanup statements: rows whose expiry lies before t.
Unexpired(t, before) == Keeping(t, LAMBDA row : row.expires >= before)
DeleteExpiredAuthRequests(d, before) == [d EXCEPT !.authRequests = Unexpired(@, before)]
DeleteExpiredATPRequests(d, before) == [d EXCEPT !.atpRequests = Unexpired(@, before)]
DeleteExpiredAuthCodes(d, before) == [d EXCEPT !.authCodes = Unexpired(@, before)]
DeleteExpiredAccessTokens(d, before) == [d EXCEPT !.accessTokens = Unexpired(@, before)]
DeleteJTIsOlderThan(d, before) == [d EXCEPT !.dpopJTIs = Keeping(@, LAMBDA created : created >= before)]
=============================================================================
