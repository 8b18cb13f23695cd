SPECIFICATION Spec
CONSTANTS
    IPs <- MCIPs
    Poly <- MCPoly
    Random <- MCRandom
    Keys = {k1, k2}
    PeerKeys = {p1, p2}
    Endpoints = {a1, a2}
    Ports = {port1, port2}
    Marks = {m1}
    Threads = 1
    AddrBits = 2
    Width = 3
    None = None
    MaxPeers = 3
    MaxSockets = 3
SYMMETRY MCSymmetry
CONSTRAINT MCBound
INVARIANTS
    IndicesUnique
    TablesAgree
    RoutedIsAllowed
    KeysAgree
    ConnMatches
CHECK_DEADLOCK FALSE
