SPECIFICATION Spec
CONSTANTS
    Endpoints = {a, b}
    Builds = {{a}, {b}, {a, b}}
    NSessions = 2
    IndexSpace = 2
    RejectAfter = 1
    Faults = {"small", "badkey"}
    None = None
    MaxMade = 4
    MaxStamp = 2
    MaxData = 3
    MaxRekeys = 1
    MaxTurns = 2
SYMMETRY Peers
INVARIANTS
    NoncesFresh
    InitAnsweredOnce
    OwnKeyOnly
    NewestInUse
PROPERTIES
    KeyExchangeSpec
    SwitchConfirmed
CHECK_DEADLOCK FALSE
