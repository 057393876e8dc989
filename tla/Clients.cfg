CONSTANTS
    g1 = g1
    g2 = g2
    acc = acc
    Calls = {g1, g2}
    Accounts = {acc}
    Signer <- OneSigner
    TxBound = 1
    SearchDepth = 2
    t1 = t1
    t2 = t2
    t3 = t3
    n1 = n1
    n2 = n2
    None = None
    Null = Null
    Networks = {n1, n2}
    Endpoints = 2
    MaxRetries = 2
    Tasks = {t1, t2, t3}
    x1 = x1
    x2 = x2
    e1 = e1
    e2 = e2
    s1 = s1
    Extensions <- ExtensionOrder
    Enables = {e1, e2}
    Signs = {s1}
    NoExt = NoExt
    y1 = y1
    y2 = y2
    Leaves = {y1, y2}
    k1 = k1
    k2 = k2
    WcCalls = {k1, k2}
    MaxReconnects = 3
    MaxUserCalls = 2
    MaxLeaves = 1
    MaxLosses = 1
    NoCall = NoCall
    a1 = a1
    a2 = a2
    Wallets <- WalletOrder
    LgAccounts = {a1, a2}
    RetryCount = 1
    SignTimeout = 1
    ServerClocks <- Clocks
    MaxTime = 38
    NoAccount = NoAccount
    Requests <- SampleRequests
    MaxAge = 30
    Skew = 6
    Octets = 2
    OctetValues <- OctetSample
    q1 = q1
    q2 = q2
    q3 = q3
    d1 = d1
    v1 = v1
    v2 = v2
    KdCalls = {q1, q2, q3}
    d2 = d2
    KdDids = {d1, d2}
    KdTries = 2
    KdIds = {v1, v2, s1, x1}
    KdControllers = {KdAccount, k1, k2, NoRequest}
    KdMetadata = {k1, NoRequest}
    KdRequests <- SomeRequests
    KdIncomplete = {x1}
    KdAccount = KdAccount
    NoDid = NoDid
    KdRefused = KdRefused
    NoRequest = NoRequest
    o1 = o1
    o2 = o2
    i1 = i1
    i2 = i2
    m1 = m1
    m2 = m2
    DidAccounts = {o1, o2}
    Ids = {i1, i2}
    PrivateTo <- OwnAndShared
    MaxUpdates = 3
    NoOwner = NoOwner
    DidCalls = {m1, m2}
    DidSigner = o1
    DidOps <- SomeDidOps
    MaxOutside = 2
SPECIFICATION ClientsSpec
CHECK_DEADLOCK FALSE
INVARIANTS
    ClientTypesOK
    OnlyOverlapLeaks
    Settled
    ConnectionUncut
    OneConnectTimer
    SignedByItsAddress
    ServerAcceptsLogin
    AnswersAsSpecified
    NeverAnotherAddress
    ListsAgree
    OneCreateSucceeds
    OkMeansExecuted
PROPERTIES
    TasksEnd
    ReconnectingStops
    CallsEnd
    ImplementsRegistry
    InactiveIsFinal
