------------------------------ MODULE MCSession ------------------------------
(* Two receivers race on one replay window of two words of two bits. *)
EXTENDS Session, TLC

Threads == Permutations(Receivers) \cup Permutations(Senders)
=============================================================================
