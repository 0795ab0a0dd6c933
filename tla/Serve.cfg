SPECIFICATION Spec
CHECK_DEADLOCK FALSE
SYMMETRY Symmetric
CONSTANTS
    Quotas <- MCQuotas
    Text <- MCText
    Lexicons <- MCLexicons
    MaxFilterDepth = 3
    MaxFilterConditions = 3
    MaxInListSize = 2
    MinContainsLength = 3
    MaxArrayContributorScan = 2
    Subjects <- MCSubjects
    Vals = {"spam", "nsfw"}
    DomainDID = "us"
    SystemSrc = "system"
    LabelEvents <- MCLabelEvents
    Expiries = {1, 99}
    Admins = {adm1, adm2}
    Reporters = {"rep"}
    DefaultPage = 2
    MaxPage = 2
    Never = 99
    MaxTime = 2
    Uris <- MCUris
    Owner <- MCOwner
    Collection <- MCCollection
    UriRank <- MCUriRank
    Bodies <- MCBodies
    Body <- MCBody
    Rows0 <- MCRows
    Endpoints = {"pds1", "pds2"}
    Queries <- MCQueries
    DefaultPageSize = 2
    MaxPageSize = 3
    MaxFilterSize = 2
    MaxPages = 5
    FilterTree <- extractFieldFilters
    FilterBuilds <- BuildFilterGroupClause
    FilterValue <- WhereClause
    FilterRaises <- Raises
    InputMet <- MeetsInput
    Files <- MCFiles
    Nsids <- MCNsids
    Dir <- MCDir
    Tables <- MCTables
    Zips <- MCZips
    Published <- MCPublished
    TypeName <- MCTypeName
    Curators = {cur1, cur2}
    DIDs <- MCDIDs
    Blank <- MCBlank
    Callers = {call1, call2}
    EnvAdmins <- MCEnvAdmins
    GoodUrls = {"good"}
    Default = "good"
    Settings <- MCSettings
INVARIANTS
    PagingExact
    LabelView
    SchemaBuilds
    ResolvedApplied
    AdminRemains
