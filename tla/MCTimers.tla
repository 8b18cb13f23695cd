------------------------------ MODULE MCTimers ------------------------------
(* Timers with short times; the slots of the ring are interchangeable. *)
EXTENDS Timers, TLC

Ring == Permutations(Slots)
=============================================================================
