------------------------------ MODULE Device ------------------------------
(* The tables of a device (device/mod.rs), the configuration protocol that    *)
(* changes them (device/api.rs), its peers' endpoints (device/peer.rs) and    *)
(* the sockets whose handlers are registered with its event queue             *)
(* (device/epoll.rs).  Module IndexLfsr has next_index.                       *)
(*                                                                            *)
(* A set=1 request is handled under the device's write lock: while one is     *)
(* being read no event handler runs (module DevLock).  A handler that does    *)
(* run is one step, because it holds the lock of the peer it changes.         *)
(*                                                                            *)
(* The device has two listening sockets, for IPv4 and for IPv6, that are      *)
(* opened, closed and lost together: the model has one, udp4.  A socket that  *)
(* was cloned has two file descriptors, <<s, "own">> and <<s, "clone">>; an   *)
(* event is registered under the one its handler owns, which therefore is     *)
(* not reused while the event exists.                                         *)
EXTENDS Integers, Sequences, Functions, AllowedIps, IndexLfsr

CONSTANTS
    Keys,           \* private keys of the device
    PeerKeys,       \* public keys of peers
    IPs,            \* the allowed_ip values of requests
    Endpoints,      \* socket addresses
    Ports, Marks,
    Threads,        \* number of event loops
    None,
    MaxPeers,       \* bound: Peer objects ever made
    MaxSockets      \* bound: sockets ever made

VARIABLES
    key_pair, rate_limiter, fwmark, listen_port,
    udp4,           \* the listening socket, or None
    peers,          \* public key -> Peer object, or None
    peers_by_idx,   \* index -> Peer object
    peers_by_ip,    \* AllowedIps of Peer objects
    objects,        \* every Peer made so far
    sockets,        \* every socket made so far
    events,         \* file descriptors with a registered handler
    request,        \* the set=1 request being read, or None
    threads,        \* event loops still running
    privileged      \* whether SO_MARK may be set

tables == <<peers, peers_by_idx, peers_by_ip, lfsrVars>>
config == <<key_pair, rate_limiter, fwmark, listen_port, udp4>>
vars == <<config, tables, objects, sockets, events, request, threads, privileged>>

ASSUME DeviceAssumption ==
    /\ IPs \subseteq Int \X (0 .. AddrBits)
    /\ None \notin Nat
    /\ MaxPeers \in Nat
    /\ MaxSockets \in Nat \ {0}
    /\ Threads \in Nat \ {0}

Live == {peers[k] : k \in PeerKeys} \ {None}

Listener(port) ==
    [kind |-> "listen", port |-> port, addr |-> None, mark |-> None, shut |-> FALSE, peer |-> None]

Connection(o, addr) ==
    [kind |-> "conn", port |-> listen_port, addr |-> addr, mark |-> fwmark, shut |-> FALSE, peer |-> o]

\* Device::new, then the first open_listen_socket, on a port the system chose.
Init ==
    /\ key_pair = None /\ rate_limiter = None /\ fwmark = None
    /\ listen_port \in Ports
    /\ peers = [k \in PeerKeys |-> None]
    /\ peers_by_idx = <<>> /\ peers_by_ip = <<>>
    /\ LfsrInit
    /\ objects = <<>>
    /\ sockets = <<Listener(listen_port)>>
    /\ udp4 = 1
    /\ events = {<<1, "clone">>}
    /\ request = None
    /\ threads = Threads
    /\ privileged \in BOOLEAN

-----------------------------------------------------------------------------
(* Endpoints, sockets and the event queue *)

\* EventPoll::new_event and register_event: the last event of a descriptor counts.
NewEvent(fds, fd) == fds \cup {fd}

\* EventPoll::clear_event_by_fd: nothing happens when the descriptor has no event.
ClearEventByFd(fds, fd) == fds \ {fd}

\* Peer::shutdown_endpoint of the peers os, on a value of objects and sockets.
Disconnected(objs, os) ==
    [o \in DOMAIN objs |-> IF o \in os THEN [objs[o] EXCEPT !.conn = None] ELSE objs[o]]

ShutConns(os) ==
    LET conns == {objects[o].conn : o \in os}
    IN  [s \in DOMAIN sockets |->
            IF s \in conns THEN [sockets[s] EXCEPT !.shut = TRUE] ELSE sockets[s]]

ShutdownEndpoints(os) ==
    /\ objects' = Disconnected(objects, os)
    /\ sockets' = ShutConns(os)

-----------------------------------------------------------------------------
(* The set=1 request *)

Running == threads > 0
Idle == Running /\ request = None
Reading == Running /\ request # None
Configuring == Reading /\ request.in = "device"
InSection == Reading /\ request.in = "peer"

DeviceRequest == [in |-> "device"]

\* The local variables api_set_peer starts with.
Section(k) ==
    [in |-> "peer", public_key |-> k, remove |-> FALSE, endpoint |-> None, allowed_ips |-> {}]

SetRequest ==
    /\ Idle
    /\ request' = DeviceRequest
    /\ UNCHANGED <<config, tables, objects, sockets, events, threads, privileged>>

\* The request ends in a line that is refused, or because reading fails: what was
\* done so far stays, and a peer's section that is open is dropped.  An empty line,
\* and the end of the stream, which reads as one, end the request here too, except
\* in a peer's section: LastSectionEnds.
RequestEnds ==
    /\ Reading
    /\ request' = None
    /\ UNCHANGED <<config, tables, objects, sockets, events, threads, privileged>>

\* A panic under the write lock: wants_write stays set, and every event loop is
\* waiting in Lock::read by then.
Panic ==
    /\ threads' = 0
    /\ request' = None
    /\ UNCHANGED <<config, tables, objects, sockets, events, privileged>>

\* a fault: set_key gives the new limiter to the device alone
SetKeyDeviceOnly(k) ==
    /\ key_pair' = k
    /\ rate_limiter' = IF k = key_pair THEN rate_limiter ELSE k
    /\ UNCHANGED objects

SetKey(k) ==
    \/ k = key_pair /\ UNCHANGED <<key_pair, rate_limiter, objects>>
    \/ /\ k # key_pair
       /\ key_pair' = k
       /\ rate_limiter' = k
       /\ objects' = [o \in DOMAIN objects |->
              IF o \in Live
              THEN [objects[o] EXCEPT !.key = k, !.limiter = <<"device", k>>,
                                      !.should_reset_rr = FALSE]
              ELSE objects[o]]

PrivateKey(k) ==
    /\ Configuring
    /\ SetKey(k)
    /\ UNCHANGED <<fwmark, listen_port, udp4, tables, sockets, events, request, threads, privileged>>

\* clear_event_by_fd of the old listener, under the descriptor that the device
\* keeps.
WithoutListener == IF udp4 = None THEN events ELSE ClearEventByFd(events, <<udp4, "own">>)

\* a fault: the peers' connected sockets are left on the old port
OpenListenSocketOnly(port) ==
    /\ Len(sockets) < MaxSockets
    /\ sockets' = Append(sockets, Listener(port))
    /\ udp4' = Len(sockets) + 1
    /\ events' = NewEvent(WithoutListener, <<udp4', "clone">>)
    /\ listen_port' = port
    /\ UNCHANGED <<objects, request>>

OpenListenSocket(port) ==
    \/ /\ Len(sockets) < MaxSockets
       /\ objects' = Disconnected(objects, Live)
       /\ sockets' = Append(ShutConns(Live), Listener(port))
       /\ udp4' = Len(sockets) + 1
       /\ events' = NewEvent(WithoutListener, <<udp4', "clone">>)
       /\ listen_port' = port
       /\ UNCHANGED request
    \/ \* a socket cannot be made or bound
       /\ ShutdownEndpoints(Live)
       /\ udp4' = None
       /\ events' = WithoutListener
       /\ request' = None
       /\ UNCHANGED listen_port

ListenPort(port) ==
    /\ Configuring
    /\ OpenListenSocket(port)
    /\ UNCHANGED <<key_pair, rate_limiter, fwmark, tables, threads, privileged>>

Conns == {objects[o].conn : o \in Live} \ {None}

SetFwmark(m) ==
    LET marked == Conns \cup ({udp4} \ {None})
    IN  /\ fwmark' = m
        /\ \/ /\ privileged \/ marked = {}
              /\ sockets' = [s \in DOMAIN sockets |->
                    IF s \in marked THEN [sockets[s] EXCEPT !.mark = m] ELSE sockets[s]]
              /\ UNCHANGED request
           \/ \* the first set_mark fails
              /\ ~privileged /\ marked # {}
              /\ request' = None
              /\ UNCHANGED sockets

Fwmark(m) ==
    /\ Configuring
    /\ SetFwmark(m)
    /\ UNCHANGED <<key_pair, rate_limiter, listen_port, udp4, tables, objects, events, threads, privileged>>

\* replace_peers=true: clear_peers.
ReplacePeers ==
    /\ Configuring
    /\ peers' = [k \in PeerKeys |-> None]
    /\ peers_by_idx' = <<>> /\ peers_by_ip' = <<>>
    /\ UNCHANGED <<config, lfsrVars, objects, sockets, events, request, threads, privileged>>

\* A public_key line among the device's own settings: from here on api_set_peer
\* reads the request.
PublicKey(k) ==
    /\ Configuring
    /\ request' = Section(k)
    /\ UNCHANGED <<config, tables, objects, sockets, events, threads, privileged>>

\* A setting of the peer.  Keepalives and preshared keys are kept from line to
\* line and handed to update_peer like the endpoint, and their values change
\* nothing else here; replace_allowed_ips is read but not used by update_peer.
PeerSetting ==
    /\ InSection
    /\ \/ \E b \in BOOLEAN : request' = [request EXCEPT !.remove = b]
       \/ \E a \in Endpoints : request' = [request EXCEPT !.endpoint = a]
       \/ \E ip \in IPs : request' = [request EXCEPT !.allowed_ips = @ \cup {ip}]
    /\ UNCHANGED <<config, tables, objects, sockets, events, threads, privileged>>

\* a fault: remove_peer leaves the routes of the peer
RemovePeerKeepsRoutes(k) ==
    /\ peers' = [peers EXCEPT ![k] = None]
    /\ peers_by_idx' = IF peers[k] = None THEN peers_by_idx ELSE Remove(peers_by_idx, peers[k])
    /\ ShutdownEndpoints({peers[k]} \ {None})
    /\ UNCHANGED <<peers_by_ip, lfsrVars>>

RemovePeer(k) ==
    /\ peers' = [peers EXCEPT ![k] = None]
    /\ IF peers[k] = None
       THEN UNCHANGED <<peers_by_idx, peers_by_ip, objects, sockets>>
       ELSE /\ ShutdownEndpoints({peers[k]})
            /\ peers_by_idx' = Restrict(peers_by_idx, DOMAIN peers_by_idx \ {objects[peers[k]].index})
            /\ peers_by_ip' = Remove(peers_by_ip, peers[k])
    /\ UNCHANGED lfsrVars

\* a fault: Peer::new comes after the request's allowed_ips were cleared
NewPeerAfterClear ==
    [index |-> Index(lfsr), key |-> key_pair, limiter |-> <<"peer", key_pair>>,
     should_reset_rr |-> TRUE, addr |-> request.endpoint, conn |-> None,
     allowed_ips |-> <<>>]

\* Peer::new, with the tunnel of Tunn::new, which makes a rate limiter of its
\* own because it is given none.
NewPeer ==
    [index |-> Index(lfsr), key |-> key_pair, limiter |-> <<"peer", key_pair>>,
     should_reset_rr |-> TRUE, addr |-> request.endpoint, conn |-> None,
     allowed_ips |-> InsertAll(<<>>, request.allowed_ips, TRUE)]

AddPeer(k) ==
    LET o == Len(objects) + 1
        i == Index(lfsr)
    IN  /\ o <= MaxPeers
        /\ Draw
        /\ objects' = Append(objects, NewPeer)
        /\ peers' = [peers EXCEPT ![k] = o]
        /\ peers_by_idx' = [j \in DOMAIN peers_by_idx \cup {i} |-> IF j = i THEN o ELSE peers_by_idx[j]]
        /\ peers_by_ip' = InsertAll(peers_by_ip, request.allowed_ips, o)
        /\ UNCHANGED sockets

\* The three ways in which update_peer panics.
CannotAdd(k) == peers[k] # None \/ Exhausted \/ key_pair = None

\* update_peer for the section just read, which is followed by next.
UpdatePeer(next) ==
    LET k == request.public_key
    IN  \/ /\ request.remove
           /\ RemovePeer(k)
           /\ request' = next
           /\ UNCHANGED <<config, events, threads, privileged>>
        \/ /\ ~request.remove /\ ~CannotAdd(k)
           /\ AddPeer(k)
           /\ request' = next
           /\ UNCHANGED <<config, events, threads, privileged>>
        \/ ~request.remove /\ CannotAdd(k) /\ Panic

\* An empty line or the end of the stream ends the last section, and so does a
\* public_key line whose key cannot be parsed: the section is committed first.
LastSectionEnds == InSection /\ UpdatePeer(None)

\* A public_key line ends a section and begins another.  Only allowed_ips is
\* reset.
NextSection(k) ==
    /\ InSection
    /\ UpdatePeer([request EXCEPT !.public_key = k, !.allowed_ips = {}])

-----------------------------------------------------------------------------
(* Event handlers *)

\* What a datagram from addr that the tunnel of peer o took does to o's endpoint:
\* set_endpoint, then connect_endpoint, which may fail, and
\* register_conn_handler.
Roam(o, addr) ==
    LET moved == objects[o].addr # addr
        shut == IF moved THEN ShutConns({o}) ELSE sockets
        conn == IF moved THEN None ELSE objects[o].conn
        new == Len(sockets) + 1
    IN  \/ /\ objects' = [objects EXCEPT ![o].addr = addr, ![o].conn = conn]
           /\ sockets' = shut
           /\ UNCHANGED events
        \/ /\ conn = None
           /\ new <= MaxSockets
           /\ fwmark = None \/ privileged
           /\ objects' = [objects EXCEPT ![o].addr = addr, ![o].conn = new]
           /\ sockets' = Append(shut, Connection(o, addr))
           /\ events' = NewEvent(events, <<new, "own">>)

Listening == \E fd \in events : sockets[fd[1]].kind = "listen"

\* register_udp_handler: a handshake or a packet that leads to a peer through
\* peers or peers_by_idx and that its tunnel accepts.
Datagram(o, addr) ==
    /\ Idle /\ Listening /\ key_pair # None
    /\ Roam(o, addr)
    /\ UNCHANGED <<config, tables, request, threads, privileged>>

\* The same handler with no key set: the event loop panics.
DatagramBeforeKey ==
    /\ Idle /\ Listening /\ key_pair = None
    /\ threads' = threads - 1
    /\ UNCHANGED <<config, tables, objects, sockets, events, request, privileged>>

\* register_iface_handler after a listening socket could not be opened.
PacketUnconnected ==
    /\ Idle /\ udp4 = None
    /\ threads' = threads - 1
    /\ UNCHANGED <<config, tables, objects, sockets, events, request, privileged>>

\* register_timers: update_timers says that the connection of peer o expired.
Expire(o) ==
    /\ Idle /\ udp4 # None /\ objects[o].addr # None
    /\ ShutdownEndpoints({o})
    /\ UNCHANGED <<config, tables, events, request, threads, privileged>>

\* The event loop cancels the event of a socket that was shut down.
EndOfFile(fd) ==
    /\ Idle /\ sockets[fd[1]].shut
    /\ events' = ClearEventByFd(events, fd)
    /\ UNCHANGED <<config, tables, objects, sockets, request, threads, privileged>>

Next ==
    \/ SetRequest \/ RequestEnds
    \/ \E k \in Keys : PrivateKey(k)
    \/ \E p \in Ports : ListenPort(p)
    \/ \E m \in Marks : Fwmark(m)
    \/ ReplacePeers
    \/ \E k \in PeerKeys : PublicKey(k) \/ NextSection(k)
    \/ PeerSetting \/ LastSectionEnds
    \/ \E o \in Live \cup Range(peers_by_idx), a \in Endpoints : Datagram(o, a)
    \/ DatagramBeforeKey \/ PacketUnconnected
    \/ \E o \in Live : Expire(o)
    \/ \E fd \in events : EndOfFile(fd)

Spec == Init /\ [][Next]_vars

-----------------------------------------------------------------------------
\* The three tables of peers agree after any sequence of requests: each peer is
\* found by its own index and by no other, and every index and every route leads
\* to a peer of the device.  remove_peer, update_peer and clear_peers each change
\* all three.
TablesAgree ==
    /\ Range(peers_by_idx) = Live
    /\ \A i \in DOMAIN peers_by_idx : objects[peers_by_idx[i]].index = i
    /\ Range(peers_by_ip) \subseteq Live
    /\ \A j, k \in PeerKeys : j # k /\ peers[j] # None => peers[j] # peers[k]

\* The peer to which register_iface_handler sends the packets for an address is
\* one from which register_udp_handler takes packets of that address
\* (is_allowed_ip), also where networks overlap or changed hands.
RoutedIsAllowed ==
    \A addr \in 0 .. 2^AddrBits - 1 :
        Matching(peers_by_ip, addr) # {} =>
            Matching(objects[Find(peers_by_ip, addr)].allowed_ips, addr) # {}

\* After any order of set_key and update_peer, the tunnels and the rate limiters
\* of all peers use the device's key, and each limiter has someone who resets its
\* count: the device's own timer, or the tunnel's update_timers.
KeysAgree ==
    /\ rate_limiter = key_pair
    /\ \A o \in Live :
          /\ objects[o].key = key_pair
          /\ objects[o].limiter[2] = key_pair
          /\ objects[o].should_reset_rr \/ objects[o].limiter = <<"device", rate_limiter>>

\* A peer's connected socket is the only one that serves the peer, is open, has a
\* handler, and is bound to the device's port, connected to the peer's present
\* address and marked as the device says, whatever the order of listen_port,
\* fwmark, roaming and expiry.
ConnMatches ==
    /\ \A o \in Live :
          LET s == objects[o].conn
          IN  s # None =>
                /\ <<s, "own">> \in events
                /\ ~sockets[s].shut
                /\ sockets[s].port = listen_port
                /\ sockets[s].addr = objects[o].addr
                /\ privileged => sockets[s].mark = fwmark
    /\ \A fd \in events :
          LET s == sockets[fd[1]]
          IN  s.kind = "conn" /\ ~s.shut /\ s.peer \in Live => objects[s.peer].conn = fd[1]

\* "First close any existing open socket, and remove them from the event loop"
\* (open_listen_socket): only the device's present listening socket has a handler.
ListenersClosed ==
    \A fd \in events : sockets[fd[1]].kind = "listen" => fd[1] = udp4

-----------------------------------------------------------------------------
(* The inductive invariant of module DeviceProofs *)

Networks == {Network(ip) : ip \in IPs}
IsTable(t, from, to) == DOMAIN t \subseteq from /\ t \in [DOMAIN t -> to]

Limiters == {"device", "peer"} \X Keys
NetworkSets == UNION {[D -> {TRUE}] : D \in SUBSET Networks}

PeerRecord ==
    [index : Word, key : Keys, limiter : Limiters, should_reset_rr : BOOLEAN,
     addr : Endpoints \cup {None}, conn : Nat \cup {None}, allowed_ips : NetworkSets]

SocketRecord ==
    [kind : {"listen", "conn"}, port : Ports, addr : Endpoints \cup {None},
     mark : Marks \cup {None}, shut : BOOLEAN, peer : Nat \cup {None}]

SectionRecord ==
    [in : {"peer"}, public_key : PeerKeys, remove : BOOLEAN, endpoint : Endpoints \cup {None},
     allowed_ips : SUBSET IPs]

TypeOK ==
    /\ key_pair \in Keys \cup {None} /\ listen_port \in Ports /\ fwmark \in Marks \cup {None}
    /\ objects \in Seq(PeerRecord) /\ sockets \in Seq(SocketRecord)
    /\ peers \in [PeerKeys -> (DOMAIN objects) \cup {None}]
    /\ udp4 \in (DOMAIN sockets) \cup {None}
    /\ events \subseteq (DOMAIN sockets) \X {"own", "clone"}
    /\ request \in {None, DeviceRequest} \cup SectionRecord
    /\ threads \in Nat /\ privileged \in BOOLEAN

\* The objects were given the indices drawn so far, in turn.
IndicesAre ==
    /\ LfsrInv
    /\ Len(past) = Len(objects)
    /\ \A o \in DOMAIN objects : objects[o].index = Index(past[o])

\* A route leads to a peer that was given the network, and has it still.
RoutesAre ==
    /\ IsTable(peers_by_idx, Word, Live) /\ IsTable(peers_by_ip, Networks, Live)
    /\ \A net \in DOMAIN peers_by_ip : net \in DOMAIN objects[peers_by_ip[net]].allowed_ips

\* A connected socket says whose it is, and is not the listening one.
ConnsAre ==
    /\ \A o \in Live : objects[o].conn # None =>
          /\ objects[o].conn \in DOMAIN sockets
          /\ sockets[objects[o].conn].kind = "conn" /\ sockets[objects[o].conn].peer = o
    /\ \A s \in DOMAIN sockets : sockets[s].kind = "conn" => sockets[s].peer \in DOMAIN objects
    /\ udp4 # None => sockets[udp4].kind = "listen"

DeviceInv ==
    /\ TypeOK /\ IndicesAre /\ RoutesAre /\ ConnsAre
    /\ TablesAgree /\ KeysAgree /\ ConnMatches
=============================================================================
