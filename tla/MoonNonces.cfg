CONSTANTS
    s1 = s1
    s2 = s2
    a1 = a1
    n1 = n1
    n2 = n2
    w1 = w1
    x1 = x1
    None = None
    Networks = {n1, n2}
    Sends = {s1, s2}
    Watches = {}
    Foreign = {x1}
    ForeignNonces = {0, 1}
    Accounts = {a1}
    Sender <- OneAccount
    Given = {0}
    Kinds = {"sign"}
    Required = 1
    Disconnects = TRUE
    MaxBlocks = 1
    MaxCount = 0
    MaxSwitches = 1
    MaxResets = 1
SPECIFICATION Spec
SYMMETRY Symmetry
CHECK_DEADLOCK FALSE
INVARIANTS
    DistinctNonces
    NoncesAccounted
PROPERTIES
    TicketsIssued
