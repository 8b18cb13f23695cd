----------------------------- MODULE KeyExchange -----------------------------
(***************************************************************************)
(* What a handshake promises, whatever the network does: the initiator     *)
(* installs a key only after the responder has installed the same one, and *)
(* an initiation leads to at most one key that both have.                  *)
(***************************************************************************)
CONSTANT Keys    \* records with the fields ini and ieph naming the initiation

VARIABLES offered, agreed   \* keys installed by responders, by initiators

vars == <<offered, agreed>>

SameInitiation(k, l) == k.ini = l.ini /\ k.ieph = l.ieph

Init == offered = {} /\ agreed = {}

Offer ==
    \E k \in offered' \ offered :
        /\ k \in Keys
        /\ offered' = offered \cup {k}
        /\ UNCHANGED agreed

Agree ==
    \E k \in offered :
        /\ \A l \in agreed : ~ SameInitiation(k, l)
        /\ agreed' = agreed \cup {k}
        /\ UNCHANGED offered

Next == Offer \/ Agree

Spec == Init /\ [][Next]_vars
=============================================================================
