SPECIFICATION Spec
CONSTANTS
    WordSize = 3
    NWords = 3
    Modulus = 64
    MaxCounter = 20
INVARIANTS
    ClearsExactlySkipped
CHECK_DEADLOCK FALSE
