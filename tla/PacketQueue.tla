----------------------------- MODULE PacketQueue -----------------------------
(***************************************************************************)
(* The queue of packets that wait for a session (packet_queue of           *)
(* boringtun/src/noise/mod.rs) and the device handlers that fill and flush *)
(* it (boringtun/src/device/mod.rs).                                       *)
(*                                                                         *)
(* A handler holds the peer's mutex until its flush loop has ended, so     *)
(* while flushing is TRUE no other call reaches the tunnel.  Of the        *)
(* handshake only what the queue depends on is here: the two slots for     *)
(* outgoing handshakes, whether encapsulate finds a session, and whether   *)
(* an unconfirmed session of a peer's handshake waits for its first data.  *)
(***************************************************************************)
EXTENDS Naturals, Sequences, FiniteSets

CONSTANTS
    Packets,       \* IP packets, each read from the interface once
    Keepalive,     \* the empty packet
    MaxDepth,      \* MAX_QUEUE_DEPTH
    Faults         \* the sets of failures that may happen
                   \* "small": a buffer too small for a handshake message is passed
                   \* "badkey": an ML-KEM encapsulation key does not decode

ASSUME QueueAssumption ==
    /\ Keepalive \notin Packets
    /\ MaxDepth \in Nat \ {0}
    /\ Faults \subseteq SUBSET {"small", "badkey"}

VARIABLES
    queue,      \* packet_queue
    state,      \* handshake.state
    previous,   \* handshake.previous
    session,    \* the current slot of the ring holds a session
    spare,      \* another slot holds one, not confirmed yet or superseded
    flushing,   \* a handler runs its flush loop
    endpoint,   \* the peer has an endpoint address
    udp,        \* the device has its UDP sockets
    faults,     \* what may fail: {} for the device with its large buffers and a sound peer
    offered,    \* history: packets handed to encapsulate by the interface
    sent,       \* history: how often each packet was sealed
    dropped     \* history: packets given up

network == <<endpoint, udp>>
vars == <<queue, state, previous, session, spare, flushing, network, faults, offered, sent, dropped>>

Payload == Packets \cup {Keepalive}

Handshake == {"None", "InitSent", "InitReceived", "Expired"}

IsInProgress == state \in {"InitSent", "InitReceived"}

Init ==
    /\ queue = <<>>
    /\ state = "None" /\ previous = "None"
    /\ session = FALSE /\ spare = FALSE /\ flushing = FALSE
    /\ endpoint \in BOOLEAN /\ udp = TRUE   \* the configuration may leave the endpoint out
    /\ faults \in Faults
    /\ offered = {}
    /\ sent = [p \in Packets |-> 0]
    /\ dropped = {}

-----------------------------------------------------------------------------

QueuePacket(q, p) == IF Len(q) < MaxDepth THEN Append(q, p) ELSE q

RequeuePacket(q, p) == IF Len(q) < MaxDepth THEN <<p>> \o q ELSE q

Overflow(q, p) == IF Len(q) < MaxDepth THEN {} ELSE {p}

\* a fault: a handshake in progress is not noticed
InitiationAlways(result, fits) ==
    IF ~ fits THEN result = "Err" /\ UNCHANGED <<state, previous>>
    ELSE /\ result = "WriteToNetwork"
         /\ previous' = state
         /\ state' = "InitSent"

(***************************************************************************)
(* format_handshake_initiation(dst, false): its result, by the room that   *)
(* dst has.                                                                *)
(***************************************************************************)
Initiation(result, fits) ==
    IF IsInProgress THEN result = "Done" /\ UNCHANGED <<state, previous>>
    ELSE IF ~ fits THEN result = "Err" /\ UNCHANGED <<state, previous>>
    ELSE /\ result = "WriteToNetwork"
         /\ previous' = state
         /\ state' = "InitSent"

\* a fault: a packet that finds no session is not kept
EncapsulateUnqueued(q, p, result, fits) ==
    IF session
    THEN /\ fits
         /\ result = "WriteToNetwork"
         /\ queue' = q
         /\ sent' = IF p = Keepalive THEN sent ELSE [sent EXCEPT ![p] = @ + 1]
         /\ UNCHANGED <<state, previous, dropped>>
    ELSE /\ Initiation(result, fits)
         /\ queue' = q
         /\ UNCHANGED <<sent, dropped>>

(***************************************************************************)
(* encapsulate(p, dst) on a queue q: sealed at once with a session,        *)
(* otherwise queued (or dropped when the queue is full) and a handshake    *)
(* begun.  A buffer too small for a sealed packet panics, so fits is       *)
(* asked of the caller there.  The queue it leaves is the caller's to      *)
(* amend when result is "Err".                                             *)
(***************************************************************************)
Encapsulate(q, p, result, fits) ==
    IF session
    THEN /\ fits
         /\ result = "WriteToNetwork"
         /\ queue' = q
         /\ sent' = IF p = Keepalive THEN sent ELSE [sent EXCEPT ![p] = @ + 1]
         /\ UNCHANGED <<state, previous, dropped>>
    ELSE /\ Initiation(result, fits)
         /\ queue' = IF result = "Err" /\ flushing
                     THEN RequeuePacket(QueuePacket(q, p), p)   \* send_queued_packet's Err arm
                     ELSE QueuePacket(q, p)
         /\ dropped' = dropped \cup (Overflow(q, p) \ {Keepalive})
         /\ UNCHANGED sent

Results == {"Done", "Err", "WriteToNetwork"}

Fits == {TRUE} \cup (IF "small" \in faults THEN {FALSE} ELSE {})

-----------------------------------------------------------------------------
\* The handlers

(***************************************************************************)
(* The timer handler calls update_timers of a peer only when the device    *)
(* has both sockets and the peer an endpoint.                              *)
(***************************************************************************)
Served == udp /\ endpoint

(***************************************************************************)
(* register_iface_handler: a packet from the interface, which is queued    *)
(* also for a peer without an endpoint.  Without the sockets it panics.    *)
(***************************************************************************)
IfaceRead(p) ==
    /\ ~ flushing
    /\ udp
    /\ p \in Packets \ offered
    /\ offered' = offered \cup {p}
    /\ \E result \in Results, fits \in Fits : Encapsulate(queue, p, result, fits)
    /\ UNCHANGED <<session, spare, flushing, network, faults>>

\* update_timers resends an initiation or rekeys
ForceHandshake ==
    /\ ~ flushing
    /\ Served
    /\ previous' = state
    /\ state' = "InitSent"
    /\ UNCHANGED <<queue, session, spare, flushing, network, offered, sent, dropped, faults>>

\* update_timers wants a keepalive: only when no handshake of ours is awaited
KeepaliveTimer ==
    /\ ~ flushing
    /\ Served
    /\ state \in {"None", "InitReceived"}
    /\ \E result \in Results, fits \in Fits : Encapsulate(queue, Keepalive, result, fits)
    /\ UNCHANGED <<session, spare, flushing, network, offered, faults>>

\* The new session goes to the slot of its index, which may be the current one.
StoreSession ==
    \/ spare' = TRUE /\ UNCHANGED session
    \/ session' = TRUE /\ UNCHANGED spare

\* a fault: the answer to an initiation is sent and the queue left as it is
HandleInitUnflushed ==
    /\ ~ flushing
    /\ previous' = state
    /\ state' = "None"
    /\ StoreSession
    /\ endpoint' = TRUE
    /\ UNCHANGED <<queue, flushing, udp, offered, sent, dropped, faults>>

(***************************************************************************)
(* The peer's initiation is answered: the outgoing handshake becomes the   *)
(* previous one, the new session is stored unconfirmed, and the handler    *)
(* flushes because there was something to write.                           *)
(***************************************************************************)
HandleInit ==
    /\ ~ flushing
    /\ previous' = state
    /\ state' = "None"
    /\ StoreSession
    /\ flushing' = TRUE
    /\ UNCHANGED <<queue, network, offered, sent, dropped, faults>>

\* The initiation is taken but answering it fails: the handler returns early.
HandleInitFails ==
    /\ ~ flushing
    /\ previous' = state
    /\ \/ "small" \in faults /\ state' = "InitReceived"
       \/ "badkey" \in faults /\ state' = "None"
    /\ UNCHANGED <<queue, session, spare, flushing, network, offered, sent, dropped, faults>>

(***************************************************************************)
(* register_conn_handler, under load: decapsulate returns a cookie reply   *)
(* to write, which the handler takes like any other and flushes after.     *)
(* It serves the socket connected to the peer's endpoint.                  *)
(***************************************************************************)
CookieReplySent ==
    /\ ~ flushing
    /\ endpoint
    /\ flushing' = TRUE
    /\ UNCHANGED <<queue, state, previous, session, spare, network, offered, sent, dropped, faults>>

\* A response completes one of our handshakes: session in use, keepalive out, flush.
HandleResponse ==
    /\ ~ flushing
    /\ \/ /\ state = "InitSent"
          /\ state' = "None" /\ UNCHANGED previous
       \/ /\ previous = "InitSent"
          /\ previous' = "None" /\ UNCHANGED state
    /\ session' = TRUE
    /\ spare' \in {spare, spare \/ session}
    /\ flushing' = TRUE
    /\ UNCHANGED <<queue, network, offered, sent, dropped, faults>>

\* Data in another session of the ring may put it into use.  Nothing is written, so nothing
\* is flushed.
HandleData ==
    /\ ~ flushing
    /\ spare
    /\ session' = TRUE
    /\ spare' \in (IF session THEN {TRUE} ELSE BOOLEAN)
    /\ endpoint' = TRUE
    /\ UNCHANGED <<queue, state, previous, flushing, udp, offered, sent, dropped, faults>>

(***************************************************************************)
(* One decapsulate(None, &[], dst) of the flush loop, that is              *)
(* send_queued_packet.  The loop goes on while there is something to       *)
(* write; an error is turned into Done.  After it the handler makes the    *)
(* sender of the datagram the peer's endpoint.                             *)
(***************************************************************************)
FlushStep ==
    /\ flushing
    /\ \/ /\ queue = <<>>
          /\ flushing' = FALSE
          /\ UNCHANGED <<queue, state, previous, sent, dropped>>
       \/ /\ queue # <<>>
          /\ \E result \in Results, fits \in Fits :
                /\ Encapsulate(Tail(queue), Head(queue), result, fits)
                /\ flushing' = (result = "WriteToNetwork")
    /\ endpoint' = (endpoint \/ ~ flushing')
    /\ UNCHANGED <<session, spare, udp, offered, faults>>

\* update_session_timers drops the sessions that are too old
SessionTimeout ==
    /\ ~ flushing
    /\ Served
    /\ session \/ spare
    /\ \/ session' = FALSE /\ UNCHANGED spare
       \/ spare' = FALSE /\ UNCHANGED session
    /\ UNCHANGED <<queue, state, previous, flushing, network, offered, sent, dropped, faults>>

\* set_key: the sessions are dropped, the queue and the handshakes are not
SetStaticPrivate ==
    /\ ~ flushing
    /\ session' = FALSE /\ spare' = FALSE
    /\ UNCHANGED <<queue, state, previous, flushing, network, offered, sent, dropped, faults>>

\* open_listen_socket closes the old sockets and leaves none when it cannot bind the new ones
OpenListenSocket ==
    /\ ~ flushing
    /\ udp' \in BOOLEAN
    /\ UNCHANGED <<queue, state, previous, session, spare, flushing, endpoint, offered, sent, dropped, faults>>

\* a fault: giving up leaves the queue as it is
ExpireKeepsQueue ==
    /\ ~ flushing
    /\ Served
    /\ state # "Expired"
    /\ state' = "Expired" /\ previous' = "Expired"
    /\ session' = FALSE /\ spare' = FALSE
    /\ UNCHANGED <<queue, flushing, network, offered, sent, dropped, faults>>

\* update_timers gives up: set_expired and clear_all
Expire ==
    /\ ~ flushing
    /\ Served
    /\ state # "Expired"
    /\ state' = "Expired" /\ previous' = "Expired"
    /\ session' = FALSE /\ spare' = FALSE
    /\ dropped' = dropped \cup { p \in Packets : \E i \in 1 .. Len(queue) : queue[i] = p }
    /\ queue' = <<>>
    /\ UNCHANGED <<flushing, network, offered, sent, faults>>

Next ==
    \/ \E p \in Packets : IfaceRead(p)
    \/ ForceHandshake
    \/ KeepaliveTimer
    \/ HandleInit
    \/ HandleInitFails
    \/ CookieReplySent
    \/ HandleResponse
    \/ HandleData
    \/ FlushStep
    \/ SessionTimeout
    \/ SetStaticPrivate
    \/ OpenListenSocket
    \/ Expire

(***************************************************************************)
(* Fairness: a handler's loop runs on.  Of a peer that the timer handler   *)
(* reaches, update_timers resends an initiation that is awaited every      *)
(* REKEY_TIMEOUT until a response arrives or, after REKEY_ATTEMPT_TIME,    *)
(* gives up: one of the two happens.  (Initiations of the peer displace    *)
(* ours, and each begins an attempt anew: should they never cease, the     *)
(* assumption is that a response gets through in the end.)  Nothing is     *)
(* assumed of a peer that the timer handler does not reach.                *)
(***************************************************************************)
AnsweredOrGivenUp == Served /\ state = "InitSent" /\ (HandleResponse \/ Expire)

Spec == Init /\ [][Next]_vars /\ WF_vars(FlushStep) /\ SF_vars(AnsweredOrGivenUp)

-----------------------------------------------------------------------------

Queued(p) == Cardinality({ i \in 1 .. Len(queue) : queue[i] = p })

(***************************************************************************)
(* Unless a caller passes a buffer too small for a handshake message, a    *)
(* packet read from the interface is, however handshakes and timeouts      *)
(* interleave with the rotations of the flush loop, in exactly one place:  *)
(* waiting in the queue once, or sealed once, or given up.                 *)
(***************************************************************************)
EveryPacketOnce ==
    "small" \notin faults =>
        \A p \in Packets :
            Queued(p) + sent[p] + Cardinality({p} \cap dropped) = Cardinality({p} \cap offered)

(***************************************************************************)
(* Whatever fails, no packet vanishes: each one read from the interface is *)
(* still waiting, was sealed, or was given up by the depth limit or by     *)
(* clear_all.                                                              *)
(***************************************************************************)
NothingLost == \A p \in offered : Queued(p) > 0 \/ sent[p] > 0 \/ p \in dropped

(***************************************************************************)
(* Between calls of a handler, waiting packets mean that an initiation of  *)
(* ours is awaited, whose response will flush them: encapsulate begins     *)
(* one, and the flush after answering the peer's initiation begins another *)
(* when that answer displaced it.                                          *)
(***************************************************************************)
QueuedMeansTrying == faults = {} /\ queue # <<>> /\ ~ flushing => state = "InitSent"

(***************************************************************************)
(* The flush loop of the UDP handlers, "while let WriteToNetwork", ends:   *)
(* without a session its first round either finds a handshake in progress  *)
(* or starts one, which the second round finds.                            *)
(***************************************************************************)
FlushEnds == flushing ~> ~ flushing

(***************************************************************************)
(* Packets queued by encapsulate ("for future retry") are sent or given up *)
(* in the end, as long as the timer handler reaches their peer.  To one    *)
(* without an endpoint it never comes, so there they may wait until a      *)
(* datagram of the peer makes its sender the endpoint; from then on they   *)
(* are drained too.                                                        *)
(***************************************************************************)
Drained == faults = {} /\ queue # <<>> /\ Served ~> queue = <<>> \/ ~ Served

-----------------------------------------------------------------------------
(* The inductive invariant of module PacketQueueProofs *)

TypeOK ==
    /\ queue \in Seq(Payload) /\ Len(queue) <= MaxDepth
    /\ {state, previous} \subseteq Handshake
    /\ {session, spare, flushing, endpoint, udp} \subseteq BOOLEAN
    /\ faults \in Faults
    /\ offered \subseteq Packets /\ dropped \subseteq Packets
    /\ sent \in [Packets -> Nat]

\* Without faults an initiation that is taken is answered in the same call.
AlwaysAnswered == faults = {} => state # "InitReceived"

PacketsInv == TypeOK /\ EveryPacketOnce /\ NothingLost /\ AlwaysAnswered /\ QueuedMeansTrying
=============================================================================
