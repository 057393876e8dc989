CONSTANTS
    u1 = u1
    u2 = u2
    m1 = m1
    m2 = m2
    None = None
    Accounts = {u1, u2}
    Deployer = u2
    Signer = u1
    Recipient <- AllToOne
    MaxBatch = 2
    Mints = {m1, m2}
    Orders <- BatchOrApart
    LowGas = {m1}
    Reports = {m2}
    MaxRetries = 2
    MaxTokens = 5
    MaxOthers = 1
    Limits = {0, 1, 2, 3}
    f1 = f1
    f2 = f2
    n1 = n1
    n2 = n2
    FaCalls = {f1, f2}
    FaNetworks = {n1, n2}
    FaAttempts = 2
    FaVersions = {v2}
    FaArtifact = v1
    FaElsewhere = elsewhere
    NoRecord = NoRecord
    FaMaxBooks = 1
    EvSubs = {h1, h2}
    EvEvents = {l1}
    EvMaxUpdates = 2
    b1 = b1
    b2 = b2
    BmCalls = {b1, b2}
    BmBudget = 3
    BmAsked = {0, 2}
    BmTriesCap = 4
    BmNobody = BmNobody
SPECIFICATION PartsSpec
CHECK_DEADLOCK FALSE
INVARIANTS
    TokenTypesOK
    TokensKept
    ResultIsOwnToken
    DuplicateOnlyIfLost
    OneContractUnlessLost
    RecordsAgree
    HeardOnce
    ShownAtRest
PROPERTIES
    Soulbound
    EveryMintEnds
