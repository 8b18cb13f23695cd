------------------------------- MODULE Session -------------------------------
(***************************************************************************)
(* One direction of an established session                                 *)
(* (boringtun/src/noise/session.rs, struct Session): the sealing side of   *)
(* one peer, a network that loses, duplicates and reorders, and the        *)
(* opening side of the other.                                              *)
(*                                                                         *)
(* format_packet_data and receive_packet_data take &self: the send counter *)
(* is an atomic and the replay window sits behind a mutex, so any number   *)
(* of threads may be inside them.  receive_packet_data locks the mutex     *)
(* twice, for the quick check and for the mark, and decrypts in between.   *)
(***************************************************************************)
EXTENDS ReplayWindow, FiniteSets

CONSTANTS
    Senders,     \* threads sealing packets on the sending side
    Receivers,   \* threads opening packets on the receiving side
    None         \* no packet in hand

ASSUME SessionAssumption ==
    /\ Receivers # {}
    /\ None \notin Counters \cup [own : BOOLEAN, counter : Counters, authentic : BOOLEAN]

VARIABLES
    sending_key_counter,  \* the atomic of the sealing side
    taken,                \* counter fetched by a sender that has not sealed yet
    sealed,               \* counters of the packets sealed: all of them may arrive, again and again
    validator,            \* the receiving side's window
    opening,              \* the packet a receiver decrypts, past its quick check
    ret,                  \* what a receiver's last receive_packet_data returned
    delivered             \* history: how often receive_packet_data returned Ok for a counter

sendVars == <<sending_key_counter, taken, sealed>>
recvVars == <<validator, opening, ret, delivered>>
vars == <<sending_key_counter, taken, sealed, validator, opening, ret, delivered>>

accepted == { c \in Counters : delivered[c] > 0 }

Errors == {"WrongIndex", "InvalidCounter", "DuplicateCounter", "InvalidAeadTag"}

(***************************************************************************)
(* A data packet as it arrives: whether its receiver_idx is this session's *)
(* (the ring slot may hold another session of the same index modulo 8),    *)
(* its counter, and whether its tag verifies.  The tag of a packet the     *)
(* peer did not seal under this key, or that was damaged, does not.        *)
(***************************************************************************)
Packet == [own : BOOLEAN, counter : Counters, authentic : BOOLEAN]

Arrivals == { p \in Packet : p.authentic => p.counter \in sealed }

Init ==
    /\ sending_key_counter = 0
    /\ taken = [s \in Senders |-> None]
    /\ sealed = {}
    /\ validator = EmptyValidator
    /\ opening = [r \in Receivers |-> None]
    /\ ret = [r \in Receivers |-> "Ok"]
    /\ delivered = [c \in Counters |-> 0]

-----------------------------------------------------------------------------
\* format_packet_data

\* a fault: the counter is loaded and the increment is lost
FetchCounterLost(s) ==
    /\ taken[s] = None
    /\ sending_key_counter <= MaxCounter
    /\ taken' = [taken EXCEPT ![s] = sending_key_counter]
    /\ UNCHANGED <<sending_key_counter, sealed, recvVars>>

(***************************************************************************)
(* sending_key_counter.fetch_add(1).  The bound on the counter is that of  *)
(* WindowAssumption.                                                       *)
(***************************************************************************)
FetchCounter(s) ==
    /\ taken[s] = None
    /\ sending_key_counter <= MaxCounter
    /\ taken' = [taken EXCEPT ![s] = sending_key_counter]
    /\ sending_key_counter' = Wrap(sending_key_counter + 1)
    /\ UNCHANGED <<sealed, recvVars>>

\* seal_in_place_separate_tag with the counter as nonce, and the packet leaves
Seal(s) ==
    /\ taken[s] # None
    /\ sealed' = sealed \cup {taken[s]}
    /\ taken' = [taken EXCEPT ![s] = None]
    /\ UNCHANGED <<sending_key_counter, recvVars>>

-----------------------------------------------------------------------------
\* receive_packet_data

Return(r, result) == ret' = [ret EXCEPT ![r] = result]

\* the index check, then the quick check under the first lock
QuickCheck(r) ==
    /\ opening[r] = None
    /\ \E p \in Arrivals :
         LET check == IF ~ p.own THEN "WrongIndex" ELSE WillAccept(validator, p.counter)
         IN  IF check = "Ok"
             THEN opening' = [opening EXCEPT ![r] = p] /\ UNCHANGED ret
             ELSE Return(r, check) /\ UNCHANGED opening
    /\ UNCHANGED <<validator, delivered, sendVars>>

\* open_in_place fails: no lock is taken again, the window is untouched
DecryptFails(r) ==
    /\ opening[r] # None
    /\ ~ opening[r].authentic
    /\ Return(r, "InvalidAeadTag")
    /\ opening' = [opening EXCEPT ![r] = None]
    /\ UNCHANGED <<validator, delivered, sendVars>>

\* open_in_place succeeded: check again and mark, under the second lock
Mark(r) ==
    /\ opening[r] # None
    /\ opening[r].authentic
    /\ LET c == opening[r].counter
       IN  /\ Return(r, MarkResult(validator, c))
           /\ validator' = ReceivingCounterMark(validator, c)
           /\ delivered' = IF MarkResult(validator, c) = "Ok"
                           THEN [delivered EXCEPT ![c] = @ + 1] ELSE delivered
    /\ opening' = [opening EXCEPT ![r] = None]
    /\ UNCHANGED sendVars

Next ==
    \/ \E s \in Senders : FetchCounter(s) \/ Seal(s)
    \/ \E r \in Receivers : QuickCheck(r) \/ DecryptFails(r) \/ Mark(r)

Spec == Init /\ [][Next]_vars

-----------------------------------------------------------------------------

\* The bitmap of the validator keeps its size, and receive_packet_data returns Ok or an error.
TypeOK ==
    /\ sending_key_counter \in 0 .. MaxCounter + 1
    /\ taken \in [Senders -> Counters \cup {None}]
    /\ sealed \in SUBSET Counters
    /\ validator \in Validator
    /\ opening \in [Receivers -> Packet \cup {None}]
    /\ ret \in [Receivers -> Errors \cup {"Ok"}]
    /\ delivered \in [Counters -> Nat]

(***************************************************************************)
(* The comment on will_accept, "Returns true if the counter was not yet    *)
(* received, and is not too far back", as an equivalence that holds after  *)
(* every interleaving: the quick check lets a counter through exactly when *)
(* no receive_packet_data returned Ok for it and it is at most NBits       *)
(* behind.  In particular a reordered packet is never lost to the window.  *)
(***************************************************************************)
WindowExact ==
    \A c \in Counters :
        WillAccept(validator, c) = "Ok" <=> c \notin accepted /\ c + NBits >= validator.next

(***************************************************************************)
(* The second check repairs the gap between the two locks: a mark returns  *)
(* Ok only for a counter never accepted before, although the quick check   *)
(* that let it through may be stale by then.                               *)
(***************************************************************************)
AcceptedOnce ==
    [][\A r \in Receivers :
         Mark(r) /\ ret'[r] = "Ok" => opening[r].counter \notin accepted]_vars

(***************************************************************************)
(* A packet whose tag verifies is refused only for a reason: its counter   *)
(* was accepted before, or it is more than NBits behind the newest one.    *)
(***************************************************************************)
RefusalJustified ==
    [][\A r \in Receivers :
         Mark(r) /\ ret'[r] # "Ok" =>
            LET c == opening[r].counter
            IN  c \in accepted \/ c + NBits < validator.next]_vars

(***************************************************************************)
(* receive_cnt counts packets, each once, so estimate_loss divides a       *)
(* number of received packets by an expected number that is no smaller.    *)
(***************************************************************************)
LossEstimateSound ==
    /\ validator.receive_cnt = Cardinality(accepted)
    /\ validator.receive_cnt <= validator.next

(***************************************************************************)
(* No nonce is used twice under one key: the counter a sender has fetched  *)
(* is nobody else's, was not sealed with, and will not be handed out again.*)
(***************************************************************************)
NonceNeverReused ==
    \A s \in Senders : taken[s] # None =>
        /\ taken[s] \notin sealed
        /\ taken[s] < sending_key_counter
        /\ \A t \in Senders \ {s} : taken[t] # taken[s]

(***************************************************************************)
(* The inductive invariant behind the properties above.  WindowInv: the    *)
(* bit of every counter of the window tells whether it was accepted, and   *)
(* nothing at or past next was.  SendInv: everything sealed or fetched is  *)
(* below the atomic.  OpenInv: what decrypts was sealed by the peer.       *)
(***************************************************************************)
WindowInv ==
    /\ \A c \in accepted : c < validator.next
    /\ \A c \in Counters :
         c < validator.next /\ c + NBits >= validator.next =>
            (CheckBit(validator.bitmap, c) <=> c \in accepted)

SendInv ==
    /\ NonceNeverReused
    /\ \A c \in sealed : c < sending_key_counter

OpenInv ==
    \A r \in Receivers : opening[r] # None =>
        (opening[r].authentic => opening[r].counter \in sealed)

(***************************************************************************)
(* The inductive invariant: the bitmap and next of mark_did_receive record *)
(* exactly what was accepted, and the atomic of format_packet_data is      *)
(* ahead of every nonce in use.                                            *)
(***************************************************************************)
SessionInv ==
    /\ TypeOK
    /\ WindowInv
    /\ SendInv
    /\ OpenInv
    /\ validator.receive_cnt = Cardinality(accepted)

Delivery == INSTANCE PacketDelivery
              WITH Packets <- Counters, sealed <- sealed, delivered <- delivered

(***************************************************************************)
(* The session implements at-most-once delivery of what the peer sealed:   *)
(* receive_packet_data, run by several threads, returns each packet once.  *)
(***************************************************************************)
DeliverySpec == Delivery!Spec
=============================================================================
