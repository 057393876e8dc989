CONSTANTS
    g1 = g1
    g2 = g2
    acc = acc
    None = None
    Calls = {g1, g2}
    Accounts = {acc}
    Signer <- OneSigner
    TxBound = 1
    SearchDepth = 2
SPECIFICATION PvSpec
CHECK_DEADLOCK FALSE
PROPERTIES
    DroppedIsInNoBlock
