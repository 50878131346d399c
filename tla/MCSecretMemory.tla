---------------------------- MODULE MCSecretMemory ----------------------------
(* TLC instance of SecretMemory: pages of two bytes and a four-bit usize.    *)
EXTENDS SecretMemory, TLC

CONSTANTS b1, b2
TwoBufs  == {b1, b2}
\* Empty, part of a page, a page, a page and a byte; 11 needs a mapping of 16
\* bytes, and 15 does not even round up.
SomeLens == {0, 1, 2, 3, 11, 15}
Symmetry == Permutations(TwoBufs)
===============================================================================
