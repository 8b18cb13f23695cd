CONSTANTS
    RekeyAfter = 2
    RejectAfter = 3
    RekeyAttempt = 2
    RekeyTimeout = 1
    Keepalive = 1
    CookieExpiry = 3
    Persistent = 0
    Slots = {s0, s1}
    Known = {TRUE}
    Events = {"handshake", "data"}
    None = none
    MaxTime = 6
SPECIFICATION Spec
PROPERTY QueueingResets
CHECK_DEADLOCK FALSE
