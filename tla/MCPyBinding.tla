------------------------------ MODULE MCPyBinding ------------------------------
(* TLC instance of PyBinding: two threads; two places for master keys and for   *)
(* stores, so that a rotate has old and new side by side and memory is reused;  *)
(* and one file, which every open and rotate of every master is about.          *)
EXTENDS PyBinding

CONSTANTS t1, t2, b1, m1, m2, s1, s2, p1

TwoThreads == {t1, t2}
OneBuf     == {b1}
TwoMasters == {m1, m2}
TwoStores  == {s1, s2}
OnePath    == {p1}
================================================================================
