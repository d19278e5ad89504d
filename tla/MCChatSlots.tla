----------------------------- MODULE MCChatSlots ------------------------------
(* Instances of ChatSlots for TLC. *)
EXTENDS ChatSlots, TLC

Symmetry == Permutations(Requests)
===============================================================================
