CONSTANTS
    Limit = 2
    MaxTurns = 2
SPECIFICATION Spec
PROPERTY NotLockedOut
