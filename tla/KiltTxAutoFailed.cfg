CONSTANTS
    c1 = c1
    c2 = c2
    a1 = a1
    a2 = a2
    None = None
    Calls = {c1}
    Accounts = {a1}
    Signer <- OneAccount
    TxBound = 4
    Ops = {"auto"}
    MaxRetries = 1
    NonceManagement = TRUE
    CallerNonces = {}
    Overlap = FALSE
    MaxClears = 0
    ElsewhereBelow = 0
SPECIFICATION Spec
PROPERTIES
    AutoRetriesFailed
