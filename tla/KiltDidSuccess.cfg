CONSTANTS
    q1 = q1
    q2 = q2
    q3 = q3
    d1 = d1
    v1 = v1
    v2 = v2
    s1 = s1
    x1 = x1
    k1 = k1
    k2 = k2
    KdCalls = {q1, q2, q3}
    d2 = d2
    KdDids = {d1, d2}
    KdTries = 2
    KdIds = {v1, v2, s1, x1}
    KdControllers = {KdAccount, k1, k2, NoRequest}
    KdMetadata = {k1, NoRequest}
    KdRequests <- SomeRequests
    KdIncomplete = {x1}
    KdAccount = KdAccount
    NoDid = NoDid
    KdRefused = KdRefused
    NoRequest = NoRequest
SPECIFICATION KdSpec
CHECK_DEADLOCK FALSE
INVARIANTS
    SuccessMeansExecuted
