SPECIFICATION Spec
CONSTANTS
    AddrBits = 10
    ByteBits = 4
    MaxRetries = 2
INVARIANTS
    DocumentedDeletions
CHECK_DEADLOCK FALSE
