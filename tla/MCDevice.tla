----------------------------- MODULE MCDevice -----------------------------
(* Device with a few keys, addresses and sockets, and an index generator     *)
(* that is exhausted after three peers.                                      *)
EXTENDS Device, TLC

MCIPs == {<<3, 0>>, <<3, 1>>}
MCPoly == {2, 1, 0}
MCRandom == {{2, 1, 0}}
MCSymmetry == Permutations(Keys) \cup Permutations(PeerKeys)
                  \cup Permutations(Endpoints) \cup Permutations(Ports)

(* Bounds of the run.  Sockets and routes have nothing to do with each       *)
(* other: peers have either addresses, and then there are two of them, or    *)
(* allowed IPs, and then nothing opens a socket; the key changes under peers *)
(* only in the second case, in which marks may be set.                       *)
WithoutSockets ==
    /\ Len(sockets) = 1 /\ udp4 = 1 /\ fwmark = None /\ privileged
    /\ \A o \in DOMAIN objects : objects[o].addr = None
    /\ request # None /\ request.in = "peer" => request.endpoint = None

WithoutRoutes ==
    /\ Len(objects) <= 2 /\ \A o \in DOMAIN objects : objects[o].key = key_pair
    /\ \A o \in DOMAIN objects : DOMAIN objects[o].allowed_ips = {}
    /\ request # None /\ request.in = "peer" => request.allowed_ips = {}

MCBound == WithoutSockets \/ WithoutRoutes
=============================================================================
