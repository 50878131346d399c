----------------------------- MODULE MCStoreLock -----------------------------
(* Instances of StoreLock for TLC, with the mutated steps each property must *)
(* reject.                                                                   *)
EXTENDS StoreLock, TLC

Symmetric == Permutations(Openers) \cup Permutations(Inodes)
=============================================================================
