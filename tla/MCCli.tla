---------------------------------- MODULE MCCli ----------------------------------
(* TLC instance of Cli: two key files, two contexts, and for each command the    *)
(* command lines that are right and those that are wrong in one or more ways.    *)
EXTENDS Cli

TwoMasters    == {"m1", "m2"}
TwoPlaintexts == {"p1", "p2"}
OtherData     == [magic |-> "other"]

Plain == [cmd |-> "version", help |-> FALSE, flags |-> "right", alg |-> "absent",
          keyFile |-> "absent", context |-> "absent", salt |-> "absent",
          public |-> "absent", signature |-> "absent"]

AnyWay == {[Plain EXCEPT !.cmd = c, !.help = h, !.flags = f] :
             c \in Commands \cup {"no command"}, h \in BOOLEAN, f \in {"right", "wrong"}}

Aeads(cmds, algs, keys, contexts, salts) ==
  {[Plain EXCEPT !.cmd = c, !.alg = a, !.keyFile = k, !.context = x, !.salt = s] :
     c \in cmds, a \in algs, k \in keys, x \in contexts, s \in salts}

GoodCalls == Aeads({"seal"}, {"absent", "aes256gcm"}, TwoMasters, {"c1"}, {"s1"})
        \cup Aeads({"open"}, {"absent"}, TwoMasters, {"c1", "c2"}, {"s1"})

Keys   == {"m1", "absent", "unreadable", "wrong length"}
Values == {"absent", "empty", "long"}

WrongCalls ==
  Aeads(WithKey, {"absent"}, Keys, {"c1"}, {"s1"})
  \cup Aeads(WithAead, {"absent"}, {"m1", "unreadable"}, Values, {"s1"})
  \cup Aeads(WithAead, {"absent"}, {"m1"}, {"c1", "empty"}, Values)
  \cup Aeads(WithAead, {"other"}, {"absent"}, {"c1"}, {"s1"})

VerifyCalls ==
  {[Plain EXCEPT !.cmd = "verify", !.alg = a, !.public = p, !.signature = g] :
     a \in {"absent", "ed25519", "p256"},
     p \in {"absent", "not hex", "malformed", "good"}, g \in {"malformed", "good"}}

SomeCommandLines == AnyWay \cup GoodCalls \cup WrongCalls \cup VerifyCalls
===================================================================================
