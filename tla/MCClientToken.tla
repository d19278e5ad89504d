---------------------------- MODULE MCClientToken -----------------------------
(* Instances of ClientToken for TLC: sets of threads come from the cfg. *)
EXTENDS ClientToken
===============================================================================
