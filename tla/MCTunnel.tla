------------------------------ MODULE MCTunnel ------------------------------
(* Two peers, interchangeable. *)
EXTENDS Tunnel, TLC

Peers == Permutations(Endpoints)
=============================================================================
