CONSTANTS
    Packets = {p1, p2, p3}
    Keepalive = keepalive
    MaxDepth = 2
    Faults = {{}, {"small", "badkey"}}
SPECIFICATION Spec
INVARIANTS
    EveryPacketOnce
    NothingLost
    QueuedMeansTrying
PROPERTIES
    FlushEnds
    Drained
