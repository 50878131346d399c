------------------------------ MODULE FileLock ------------------------------
(***************************************************************************)
(* What the store's lock promises (src/src/store.rs, module comment and     *)
(* SecretStore::open): one handle per file at a time.  StoreLock shows that *)
(* the flock protocol implements it; SecretStore builds on it.              *)
(***************************************************************************)
CONSTANT Openers

VARIABLE holders    \* the openers that own a handle which keeps the lock

Init == holders = {}

\* `open` succeeds with the lock: only when nobody has it.
Acquire(o) == holders = {} /\ holders' = {o}

\* The handle is dropped, or its process ends.
Release(o) == o \in holders /\ holders' = holders \ {o}

Next == \E o \in Openers : Acquire(o) \/ Release(o)

Spec == Init /\ [][Next]_holders
=============================================================================
