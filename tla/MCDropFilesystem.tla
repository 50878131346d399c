--------------------------- MODULE MCDropFilesystem ---------------------------
(* TLC instance of DropFilesystem: Slash and two directories below it. *)
EXTENDS DropFilesystem, TLC

CONSTANTS t1, t2, slash, a, b
OneThread  == {t1}
TwoThreads == {t1, t2}
SomeDirs   == {slash, a, b}
===============================================================================
