CONSTANTS
    b1 = b1
    BmCalls = {b1}
    BmBudget = 3
    BmAsked = {0, 2}
    BmTriesCap = 4
    BmNobody = BmNobody
SPECIFICATION BmSpec
CHECK_DEADLOCK FALSE
INVARIANTS
    RetriesWithinBudget
