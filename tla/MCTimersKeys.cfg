CONSTANTS
    RekeyAfter = 2
    RejectAfter = 3
    RekeyAttempt = 2
    RekeyTimeout = 1
    Keepalive = 1
    CookieExpiry = 3
    Persistent = 0
    Slots = {s0, s1}
    Known = {TRUE, FALSE}
    Events = {"handshake"}
    None = none
    MaxTime = 10
SPECIFICATION Spec
PROPERTY FreshKeysKept
CHECK_DEADLOCK FALSE
