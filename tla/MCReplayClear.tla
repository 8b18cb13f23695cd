---------------------------- MODULE MCReplayClear ----------------------------
(* Windows of NWords words of WordSize bits, all starting points, all skips. *)
EXTENDS ReplayClear
=============================================================================
