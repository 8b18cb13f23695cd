--------------------------- MODULE PacketDelivery ---------------------------
(***************************************************************************)
(* What a session promises about data packets, whatever the network does:  *)
(* a packet that is delivered was sealed by the peer, and no packet is     *)
(* delivered twice.  Packets are known by their counters; delivered counts *)
(* how often each was handed to the interface.                             *)
(***************************************************************************)
EXTENDS Naturals

CONSTANT Packets

VARIABLES sealed, delivered

vars == <<sealed, delivered>>

Init == sealed = {} /\ delivered = [p \in Packets |-> 0]

SealNew ==
    \E p \in Packets \ sealed :
        /\ sealed' = sealed \cup {p}
        /\ UNCHANGED delivered

DeliverOnce ==
    \E p \in sealed :
        /\ delivered[p] = 0
        /\ delivered' = [delivered EXCEPT ![p] = 1]
        /\ UNCHANGED sealed

Next == SealNew \/ DeliverOnce

Spec == Init /\ [][Next]_vars
=============================================================================
