---------------------------- MODULE MCStreamUsage -----------------------------
(* The instance of StreamUsage for TLC: its state space is finite as it is. *)
EXTENDS StreamUsage
===============================================================================
