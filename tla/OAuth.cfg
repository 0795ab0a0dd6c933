SPECIFICATION Spec
CONSTANTS
    Dids = {"did:plc:a"}
    Handles = {"alice.example"}
    Method <- MCMethod
    Null = Null
    MaxTime = 3
    Quotas <- MCQuotas
    Callers = {c1, c2}
    CacheTTL = 1
    Timeout = 1
    DocAnswers <- MCDocAnswers
    Tokens <- MCTokens
    Audience = "us"
    Lxm = "list"
    MaxLifetime = 2
    MaxSkew = 1
    Capacity = 2
    Slots = {s1, s2}
    Client1 <- MCClient1  AdminClient <- MCAdmin
    AuthorizeParams <- MCAuthorizeParams
    CallbackReplies = {"code", "error"}
    TokenParams <- MCTokenParams
    UseParams <- MCUseParams
    PARParams <- MCPARParams
    RegisterParams <- MCRegisterParams
    RedirectLists <- MCRedirectLists
    Networks <- MCNetworks
    TokenAnswers <- MCTokenAnswers
    CodeTTL = 2
    AccessTTL = 2
    RefreshTTL = 3
    MaxAge = 1
    CleanupSkew = 1
    MaxFuture = 2
    LegacyCutoff = 1
SYMMETRY Symmetric
INVARIANTS
    TypeOK
    NoReplay
    NoLateIssue
    NeverStranded
    DocFresh
PROPERTY
    ServiceOnce
CHECK_DEADLOCK FALSE
