CONSTANTS
    IPs = {}
    Poly <- MCPoly
    Random <- MCRandom
    Keys = {k1}
    PeerKeys = {p1, p2}
    Endpoints = {a1, a2}
    Ports = {port1, port2}
    Marks = {m1}
    Threads = 1
    AddrBits = 2
    Width = 3
    None = None
    MaxPeers = 2
    MaxSockets = 3
SPECIFICATION Spec
SYMMETRY MCSymmetry
INVARIANT ListenersClosed
CHECK_DEADLOCK FALSE
