---------------------------- MODULE MCSecretStore ----------------------------
(* Instances of SecretStore for TLC.                                         *)
EXTENDS SecretStore, TLC

Symmetric == Permutations(Handles) \cup Permutations(Masters) \cup Permutations(Names)
=============================================================================
