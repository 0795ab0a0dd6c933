------------------------------ MODULE Identity ------------------------------
(***************************************************************************)
(* DID resolution (internal/oauth/did.go) and what the OAuth bridge, the   *)
(* service-auth verifier and the DID cache read from a DID document.  The  *)
(* network is external: a resolution is a function of the answer that the  *)
(* PLC directory or the did:web host gives.  Also the clock, and the       *)
(* bound on how often the environment acts.                                *)
(***************************************************************************)
EXTENDS Integers, FiniteSets, SequencesExt

CONSTANTS
    Dids, Handles,  \* accounts, and the names by which users log in
    Method,         \* [Dids -> {"plc", "web", "other"}]
    Null,           \* nil, NULL or an error, where a value is expected
    MaxTime,        \* bound: the clock stops here
    Quotas          \* bound: the choices of how often each thing may happen

ASSUME IdentityAssumption ==
    /\ Method \in [Dids -> {"plc", "web", "other"}] /\ MaxTime \in Nat
    /\ \A q \in Quotas : \A k \in DOMAIN q : q[k] \in Nat

VARIABLES
    now,            \* the clock of the process, in units that fit the time limits
    quota           \* what is left of the choice from Quotas

Spend(k) == quota[k] > 0 /\ quota' = [quota EXCEPT ![k] = @ - 1]
Fine == UNCHANGED quota

\* A chain of early returns: the reason of the first check that fails, or "ok".
\* A check is <<reason, whether it fails>>.
FirstFailure(checks) ==
    LET i == SelectInSeq(checks, LAMBDA c : c[2]) IN IF i = 0 THEN "ok" ELSE checks[i][1]

-----------------------------------------------------------------------------
(* A web answer: how the request fared, the host's address, the document.  *)

Sent(a) == a.net = "up" /\ a.status = 200
rejectPrivateHost(a) == a.host # "public"
readBounded(a) == Sent(a) /\ a.size = "fits"

\* The document must parse and be the one that was asked for.
parseDIDDocument(a) == IF a.body = "good" THEN a.doc ELSE Null
resolvePLCDID(a) == IF readBounded(a) THEN parseDIDDocument(a) ELSE Null
resolveWebDID(a) ==
    IF rejectPrivateHost(a) \/ ~readBounded(a) THEN Null ELSE parseDIDDocument(a)

ResolveDID(did, a) ==
    CASE Method[did] = "plc" -> resolvePLCDID(a)
      [] Method[did] = "web" -> resolveWebDID(a)
      [] OTHER -> Null

ResolveHandleToDID(a) ==
    IF readBounded(a) /\ a.body = "good" THEN a.doc.id ELSE Null

\* atproto/did: the strict syntax check; everything else is taken for a handle.
IsValid(hint) == hint \in Dids

FirstWith(entries, Test(_)) ==
    LET i == SelectInSeq(entries, Test) IN IF i = 0 THEN Null ELSE entries[i]

GetPDSEndpoint(doc) ==
    LET s == FirstWith(doc.service, LAMBDA x : x.type = "AtprotoPersonalDataServer")
    IN IF s = Null THEN Null ELSE s.endpoint

AtprotoSigningKey(doc) ==
    FirstWith(doc.method, LAMBDA m : m.type = "Multikey" /\ m.fragment = "#atproto")
=============================================================================
