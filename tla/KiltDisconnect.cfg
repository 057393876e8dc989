CONSTANTS
    t1 = t1
    t2 = t2
    t3 = t3
    n1 = n1
    n2 = n2
    Null = Null
    Networks = {n1, n2}
    Endpoints = 2
    MaxRetries = 2
    Tasks = {t1, t2}
SPECIFICATION Spec
INVARIANTS
    StaysDisconnected
