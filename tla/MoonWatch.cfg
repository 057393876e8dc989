CONSTANTS
    s1 = s1
    s2 = s2
    a1 = a1
    n1 = n1
    n2 = n2
    w1 = w1
    x1 = x1
    None = None
    Networks = {n1, n2}
    Sends = {s1}
    Watches = {w1}
    Given = {}
    Disconnects = TRUE
    Foreign = {}
    ForeignNonces = {}
    Accounts = {a1}
    Sender <- OneAccount
    MaxResets = 0
    Kinds = {"send", "monitor", "wait"}
    Required = 2
    MaxBlocks = 3
    MaxCount = 0
    MaxSwitches = 1
SPECIFICATION FairSpec
CHECK_DEADLOCK FALSE
PROPERTIES
    ConfirmedDepth
    WatchesReturn
