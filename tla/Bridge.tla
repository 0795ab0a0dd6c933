------------------------------- MODULE Bridge -------------------------------
(***************************************************************************)
(* The outbound half of a login (internal/oauth/bridge.go): finding the    *)
(* authorization server of an account, and exchanging the code it issued.  *)
(* Each operator is a function of what the remote servers answer.          *)
(***************************************************************************)
EXTENDS Identity

\* Only https endpoints that parse and name a host are contacted.
requireHTTPSEndpoint(endpoint) == endpoint = "https"

\* A metadata document: status, whether it parses, its content.
FetchProtectedResourceMetadata(endpoint, a) ==
    IF requireHTTPSEndpoint(endpoint) /\ Sent(a) /\ a.body = "good" THEN a.servers ELSE Null
FetchAuthorizationServerMetadata(endpoint, a) ==
    IF requireHTTPSEndpoint(endpoint) /\ Sent(a) /\ a.body = "good" THEN a.issuer ELSE Null

\* The issuer of the account's authorization server, or Null.  n holds the answers of
\* the directory (did), of the PDS (prm) and of the authorization server (asm).
ResolveAuthServer(did, n) ==
    LET doc == ResolveDID(did, n.did)
        pds == IF doc = Null THEN Null ELSE GetPDSEndpoint(doc)
        servers == IF pds = Null THEN Null ELSE FetchProtectedResourceMetadata(pds, n.prm)
    IN IF servers \in {Null, <<>>} THEN Null
       ELSE FetchAuthorizationServerMetadata(Head(servers), n.asm)

\* A token request is sent once more when the server asks for a nonce and gives one.
fetchTokens(answers) ==
    LET first == answers[1] IN
    CASE first = "tokens" -> "tokens"
      [] first = "use_nonce" -> IF answers[2] = "tokens" THEN "tokens" ELSE Null
      [] OTHER -> Null        \* unreachable, refused, no nonce in the answer, garbled
=============================================================================
