SPECIFICATION Spec
CONSTANTS
    WordSize = 2
    NWords = 2
    Modulus = 32
    MaxCounter = 5
    Senders = {s1, s2}
    Receivers = {r1, r2}
    None = None
SYMMETRY Threads
INVARIANTS
    WindowExact
    LossEstimateSound
    NonceNeverReused
PROPERTIES
    RefusalJustified
    DeliverySpec
