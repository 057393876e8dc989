CONSTANTS
    Octets = 2
    OctetValues = {0, 3, 4, 15, 16, 62, 63, 64, 239, 251, 255}
SPECIFICATION EdSpec
CHECK_DEADLOCK FALSE
INVARIANTS
    CreatedDidResolves
