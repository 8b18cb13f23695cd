CONSTANTS
    RekeyAfter = 1
    RejectAfter = 2
    RekeyAttempt = 2
    RekeyTimeout = 1
    Keepalive = 1
    CookieExpiry = 2
    Persistent = 2
    Slots = {s0, s1}
    Known = {TRUE, FALSE}
    Events = {"handshake", "data", "cookie"}
    None = none
    MaxTime = 6
SPECIFICATION Spec
SYMMETRY Ring
INVARIANTS
    NeverAhead
    SessionsDie
    RetriesCease
CHECK_DEADLOCK FALSE
