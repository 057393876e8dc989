CONSTANTS
    c1 = c1
    c2 = c2
    a1 = a1
    a2 = a2
    None = None
    Calls = {c1, c2}
    Accounts = {a1}
    Signer <- OneAccount
    TxBound = 2
    Ops = {"noWait", "retry", "auto"}
    MaxRetries = 1
    NonceManagement = TRUE
    CallerNonces = {}
    Overlap = TRUE
    MaxClears = 1
    ElsewhereBelow = 1
SPECIFICATION Spec
INVARIANTS
    SuccessIsFinal
    RetryAtMostOnce
    ResultClearsEntry
SYMMETRY CallSymmetry
CONSTRAINT AutoAlone
