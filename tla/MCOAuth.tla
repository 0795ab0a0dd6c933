------------------------------- MODULE MCOAuth -------------------------------
EXTENDS OAuth

None == [fault |-> 0, authorize |-> 0, callback |-> 0, token |-> 0, revoke |-> 0, use |-> 0, par |-> 0,
         admin |-> 0, cleanup |-> 0, tick |-> 0, crash |-> 0, service |-> 0, lookup |-> 0, change |-> 0,
         seeded |-> 0]

\* One choice per question, so that what they ask adds up instead of multiplying:
\* logins with a failure and a crash; a slow login and the cleanup; grants with a
\* failure or a crash; proofs over time, at both endpoints; revoked tokens; a client
\* deleted or changed meanwhile; clients and logins; service tokens; the DID cache.
MCQuotas == {
    [None EXCEPT !.authorize = 2, !.callback = 2, !.fault = 1, !.crash = 1],
    [None EXCEPT !.authorize = 1, !.callback = 2, !.tick = 3, !.cleanup = 1],
    [None EXCEPT !.seeded = 1, !.token = 4, !.fault = 1],
    [None EXCEPT !.seeded = 1, !.token = 4, !.crash = 1],
    [None EXCEPT !.seeded = 1, !.token = 2, !.tick = 3, !.cleanup = 1],
    [None EXCEPT !.seeded = 1, !.token = 1, !.use = 1, !.tick = 3, !.cleanup = 1],
    [None EXCEPT !.seeded = 1, !.token = 1, !.use = 2, !.revoke = 1, !.fault = 1],
    [None EXCEPT !.seeded = 1, !.token = 2, !.admin = 1, !.revoke = 1],
    [None EXCEPT !.admin = 1, !.authorize = 1, !.callback = 1, !.par = 1],
    [None EXCEPT !.cleanup = 1, !.fault = 1],
    [None EXCEPT !.service = 5, !.tick = 3, !.crash = 1],
    [None EXCEPT !.lookup = 3, !.change = 2, !.tick = 3] }

MCClient1 == <<"client", 0>>
MCAdmin == <<"admin", 0>>
Symmetric == Permutations(Slots) \cup Permutations(Callers)

MCMethod == [d \in Dids |-> IF d = "did:plc:a" THEN "plc" ELSE "web"]

Doc(codec) ==
    [id |-> "did:plc:a", service |-> << [type |-> "AtprotoPersonalDataServer", endpoint |-> "https"] >>,
     method |-> << [type |-> "Multikey", fragment |-> "#atproto",
                    key |-> [encoding |-> "base58btc", codec |-> codec, point |-> "compressed"]] >>]
GoodAnswer == [net |-> "up", status |-> 200, host |-> "public", size |-> "fits", body |-> "good", doc |-> Doc("p256")]
MCDocAnswers == { GoodAnswer, [GoodAnswer EXCEPT !.net = "down"] }

Page == [net |-> "up", status |-> 200, body |-> "good", servers |-> <<"https">>, issuer |-> "https"]
GoodNetwork == [handle |-> GoodAnswer, did |-> GoodAnswer, prm |-> Page, asm |-> Page]
MCNetworks == {
    GoodNetwork, [GoodNetwork EXCEPT !.did.doc.service = <<>>], [GoodNetwork EXCEPT !.prm.servers = <<>>],
    [GoodNetwork EXCEPT !.asm.status = 500], [GoodNetwork EXCEPT !.handle.size = "too large"] }
MCTokenAnswers == { <<"tokens">>, <<"use_nonce", "tokens">>, <<"use_nonce", "use_nonce">>, <<"refused">> }

GoodLogin == [client |-> Client1, redirect |-> "cb", responseType |-> "code", challenge |-> "S256-v",
              method |-> "S256", hint |-> "did:plc:a"]
MCAuthorizeParams == {
    GoodLogin, [GoodLogin EXCEPT !.hint = "alice.example"], [GoodLogin EXCEPT !.redirect = "elsewhere"],
    [GoodLogin EXCEPT !.challenge = Null] }

GoodProof == [header |-> "dpop+jwt", alg |-> "ES256", key |-> "k1", signed |-> TRUE, htm |-> "POST",
              htu |-> "token", jti |-> "j1", iat |-> 0]
Ahead == [GoodProof EXCEPT !.jti = "j2", !.iat = 2]
Code == [grant |-> "code", client |-> Client1, redirect |-> "cb", verifier |-> "v", proof |-> Null]
Refresh == [Code EXCEPT !.grant = "refresh"]
MCTokenParams == {
    Code, [Code EXCEPT !.proof = Ahead], [Code EXCEPT !.verifier = "guess", !.proof = GoodProof],
    Refresh, [Refresh EXCEPT !.proof = Ahead], [Refresh EXCEPT !.proof = GoodProof],
    [Refresh EXCEPT !.grant = "password"] }
ForResource == [Ahead EXCEPT !.htm = "GET", !.htu = "resource"]
MCUseParams == { [scheme |-> "Bearer", proof |-> Null], [scheme |-> "DPoP", proof |-> ForResource],
                 [scheme |-> "DPoP", proof |-> Null] }

MCPARParams == { [client |-> Client1, responseType |-> "code", redirect |-> "cb"],
                 [client |-> Client1, responseType |-> Null, redirect |-> "cb"] }
GoodURI == [name |-> "cb", absolute |-> TRUE, scheme |-> "https", host |-> "web", fragment |-> FALSE]
MCRegisterParams == {
    [redirects |-> {GoodURI}, authMethod |-> Null],
    [redirects |-> {GoodURI, [GoodURI EXCEPT !.scheme = "http"]}, authMethod |-> "private_key_jwt"] }
MCRedirectLists == { {"cb"}, {"cb2"} }

GoodToken == [header |-> "bearer", typ |-> "JWT", large |-> FALSE, iss |-> "did:plc:a", alg |-> "ES256",
              signed |-> TRUE, exp |-> 2, iat |-> 0, aud |-> "us", lxm |-> "list", jti |-> "t1", sig |-> "s1"]
MCTokens == {
    GoodToken, [GoodToken EXCEPT !.jti = "t2", !.exp = 3], [GoodToken EXCEPT !.jti = Null, !.iat = 1], [GoodToken EXCEPT !.exp = 3],
    [GoodToken EXCEPT !.alg = "ES256K"], [GoodToken EXCEPT !.lxm = "other"] }
==============================================================================
