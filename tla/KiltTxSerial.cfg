CONSTANTS
    c1 = c1
    c2 = c2
    a1 = a1
    a2 = a2
    None = None
    Calls = {c1, c2}
    Accounts = {a1}
    Signer <- OneAccount
    TxBound = 4
    Ops = {"submit", "signed", "auto"}
    MaxRetries = 1
    NonceManagement = TRUE
    CallerNonces = {1}
    Overlap = FALSE
    MaxClears = 0
    ElsewhereBelow = 1
SPECIFICATION FairSpec
INVARIANTS
    Core
    CachePastSuccess
PROPERTIES
    ImplementsSubmissions
    Returns
CONSTRAINT InTurn
