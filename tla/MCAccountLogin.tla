---------------------------- MODULE MCAccountLogin ----------------------------
(* Instances of AccountLogin for TLC. *)
EXTENDS AccountLogin, TLC

Symmetry == Permutations(Threads) \cup Permutations(Names)
===============================================================================
