----------------------------- MODULE MCUsageRows ------------------------------
(* Instances of UsageRows for TLC. *)
EXTENDS UsageRows, TLC

Symmetry == Permutations(Streams) \cup Permutations(Accounts)
===============================================================================
