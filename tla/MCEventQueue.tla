---------------------------- MODULE MCEventQueue ----------------------------
(* EventQueue with two threads, and so few descriptors that a later socket  *)
(* gets a number that was used before.                                      *)
EXTENDS EventQueue
=============================================================================
