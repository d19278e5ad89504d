----------------------------- MODULE MCKeyLimits ------------------------------
(* Instances of KeyLimits for TLC. *)
EXTENDS KeyLimits, TLC

Symmetry == Permutations(Streams) \cup Permutations(Requests \ Streams)
===============================================================================
