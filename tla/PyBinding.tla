------------------------------- MODULE PyBinding -------------------------------
(***************************************************************************)
(* src/krypto-py/src/lib.rs: Python objects around secrets, master keys and *)
(* stores.  A SecretBuf and a SecretStore keep their krypto value in a      *)
(* Mutex<Option<_>>; from_bytes and rotate take it out.  A store's krypto   *)
(* value refers to the memory of a MasterKey object, which the SecretStore  *)
(* object keeps alive beside it.                                            *)
(*                                                                          *)
(* Python threads call the methods.  A thread runs while it is attached to  *)
(* the interpreter; an interpreter with a global lock attaches one thread   *)
(* at a time and changes it only while that thread is in Python code, or in *)
(* the password functions, which detach.  An object nothing refers to is    *)
(* deallocated at once, and its place in memory is used again.              *)
(***************************************************************************)
EXTENDS Naturals, Sequences, FiniteSets, Functions

CONSTANTS
  Threads,        \* Python threads
  Bufs,           \* places in memory for SecretBuf objects
  Masters,        \* places for MasterKey objects
  Stores,         \* places for SecretStore objects
  Paths,          \* store files
  None,           \* no object, no value
  MaxGen,         \* bound: generations a file goes through
  MaxCalls,       \* bound: calls under way, on the stacks of all threads
  MaxNamed,       \* bound: objects the program has names for
  Builds          \* how many threads interpreters attach at once: 1 with the lock

ASSUME NoneAssumption ==
  None \notin Threads \cup Bufs \cup Masters \cup Stores \cup Paths
              \cup [path : Paths, key : Masters, gen : 1..MaxGen]
ASSUME PlacesAssumption ==
  Bufs \cap Masters = {} /\ Bufs \cap Stores = {} /\ Masters \cap Stores = {}
ASSUME BuildsAssumption == Builds \subseteq Nat \ {0}
ASSUME BoundsAssumption == {MaxCalls, MaxNamed} \subseteq Nat /\ MaxGen \in Nat \ {0}

VARIABLES
  together,   \* threads this interpreter attaches at once
  attached,   \* the threads attached now
  stack,      \* per thread: the calls into krypto_py under way
  mutex,      \* per SecretBuf and SecretStore: the thread that has its mutex
  buf,        \* per SecretBuf: no object, one with a secret, or consumed
  master,     \* per MasterKey: no object, or one with a key
  store,      \* per SecretStore: the krypto store and the MasterKey it holds
  named,      \* the objects the Python program has a name for
  flock,      \* the files whose lock some krypto store has
  generation  \* per file: how many salts and key ids its header has had, 0 for no file

vars == <<together, attached, stack, mutex, buf, master, store, named, flock, generation>>

NoBuf    == "free"
NoMaster == "free"
NoStore  == [object |-> FALSE, inner |-> None, master |-> None]
\* What a store has of its own: the path it locks, the key it refers to, and the
\* header its writes give the file.
Inner    == [path : Paths, key : Masters, gen : 1..MaxGen]

OnBuf    == {"read", "expose", "from_bytes"}
OnStore  == {"put", "get", "rotate"}
NoCall   == [op |-> "none", at |-> "lock", buf |-> None, store |-> None,
             master |-> None, taken |-> None]

Places   == {"lock", "secret", "work", "callback", "detach", "hash", "attach"}
Calls    == [op : OnBuf \cup OnStore \cup {"password"}, at : Places,
             buf : Bufs \cup {None}, store : Stores \cup {None},
             master : Masters \cup {None}, taken : Inner \cup {None}]

Init ==
  /\ together \in Builds
  /\ attached = {}
  /\ stack = [t \in Threads |-> <<>>]
  /\ mutex = [o \in Bufs \cup Stores |-> None]
  /\ buf = [b \in Bufs |-> NoBuf]
  /\ master = [m \in Masters |-> NoMaster]
  /\ store = [s \in Stores |-> NoStore]
  /\ named = {}
  /\ flock = {}
  /\ generation = [p \in Paths |-> 0]

-----------------------------------------------------------------------------
(* Objects and their references.                                           *)
Objects == {b \in Bufs : buf[b] # NoBuf} \cup {m \in Masters : master[m] # NoMaster}
           \cup {s \in Stores : store[s].object}
\* A call keeps its arguments alive, a SecretStore its MasterKey.
Underway == UNION {Range(stack[t]) : t \in Threads}
Used(c)  == {c.buf, c.store, c.master}
Refs     == named \cup {store[s].master : s \in Stores} \cup UNION {Used(c) : c \in Underway}
Garbage  == Objects \ Refs

FreeBufs    == {b \in Bufs : buf[b] = NoBuf}
FreeMasters == {m \in Masters : master[m] = NoMaster}
FreeStores  == {s \in Stores : ~store[s].object}
\* The allocator's choice.
Place(free) == CHOOSE o \in free : TRUE

\* Calls under way, for the bound.
Depth   == Cardinality({c \in Threads \X (1..MaxCalls) : c[2] \in DOMAIN stack[c[1]]})
Top(t)  == stack[t][Len(stack[t])]
Bottom(t) == SubSeq(stack[t], 1, Len(stack[t]) - 1)
Returns(t) == stack' = [stack EXCEPT ![t] = Bottom(t)]
\* The top call goes on to place p.
GoesTo(t, p) == stack' = [stack EXCEPT ![t] = Append(Bottom(t), [Top(t) EXCEPT !.at = p])]
At(t, p) == stack[t] # <<>> /\ Top(t).at = p

\* Thread t runs bytecode: it is in no call, or in the callback of one.
InPython(t) == stack[t] = <<>> \/ At(t, "callback")
Python(t)   == t \in attached /\ InPython(t) /\ Garbage = {}
Rust(t, p)  == t \in attached /\ At(t, p) /\ Garbage = {}

\* A new object with a name; the caller may drop the name at once.
MakesBuf ==
  /\ FreeBufs # {} /\ Cardinality(named) < MaxNamed
  /\ buf' = [buf EXCEPT ![Place(FreeBufs)] = "secret"]
  /\ named' = named \cup {Place(FreeBufs)}
MakesMaster ==
  /\ FreeMasters # {} /\ Cardinality(named) < MaxNamed
  /\ master' = [master EXCEPT ![Place(FreeMasters)] = "key"]
  /\ named' = named \cup {Place(FreeMasters)}
\* A SecretStore with krypto store i, which keeps MasterKey m alive.
MakesStore(i, m) ==
  /\ FreeStores # {} /\ Cardinality(named) < MaxNamed
  /\ store' = [store EXCEPT ![Place(FreeStores)] = [object |-> TRUE, inner |-> i, master |-> m]]
  /\ named' = named \cup {Place(FreeStores)}

-----------------------------------------------------------------------------
(* The interpreter.                                                         *)
Attach(t) ==
  /\ t \notin attached /\ Cardinality(attached) < together
  /\ InPython(t) \/ At(t, "attach")
  /\ attached' = attached \cup {t}
  /\ UNCHANGED <<together, stack, mutex, buf, master, store, named, flock, generation>>

\* Between two bytecodes, when another thread asks for the lock.
Detach(t) ==
  /\ Python(t)
  /\ attached' = attached \ {t}
  /\ UNCHANGED <<together, stack, mutex, buf, master, store, named, flock, generation>>

Del(t) ==
  /\ Python(t)
  /\ \E o \in named : named' = named \ {o}
  /\ UNCHANGED <<together, attached, stack, mutex, buf, master, store, flock, generation>>

\* Deallocation drops a SecretStore's fields in order: the store, then _master.
DropInner ==
  /\ \E s \in Garbage \cap Stores :
       /\ store[s].inner # None
       /\ flock' = flock \ {store[s].inner.path}
       /\ store' = [store EXCEPT ![s].inner = None]
  /\ UNCHANGED <<together, attached, stack, mutex, buf, master, named, generation>>

Free ==
  /\ \/ \E b \in Garbage \cap Bufs : buf' = [buf EXCEPT ![b] = NoBuf] /\ UNCHANGED <<master, store>>
     \/ \E m \in Garbage \cap Masters : master' = [master EXCEPT ![m] = NoMaster] /\ UNCHANGED <<buf, store>>
     \/ \E s \in Garbage \cap Stores : /\ store[s].inner = None
                                       /\ store' = [store EXCEPT ![s] = NoStore]
                                       /\ UNCHANGED <<buf, master>>
  /\ UNCHANGED <<together, attached, stack, mutex, named, flock, generation>>

-----------------------------------------------------------------------------
(* Calls that neither lock nor leave the interpreter: one step each.        *)

\* from_vec, random, open of a blob, a new key pair: memory, then the object.
NewSecret(t) ==
  /\ Python(t) /\ Depth < MaxCalls
  /\ MakesBuf
  /\ UNCHANGED <<together, attached, stack, mutex, master, store, flock, generation>>

FromSecretFile(t) ==
  /\ Python(t) /\ Depth < MaxCalls
  /\ MakesMaster
  /\ UNCHANGED <<together, attached, stack, mutex, buf, store, flock, generation>>

\* The file after krypto::SecretStore::open: read as it is, or created.
Opened(p) == IF generation[p] = 0 THEN 1 ELSE generation[p]

\* A file that another store has locked is Io.  Which master the file was written
\* under is not looked at: with another one the store opens, and get says Auth.
OpenStore(t) ==
  /\ Python(t) /\ Depth < MaxCalls
  /\ \E p \in Paths \ flock, m \in named \cap Masters :
       /\ MakesStore([path |-> p, key |-> m, gen |-> Opened(p)], m)
       /\ flock' = flock \cup {p}
       /\ generation' = [generation EXCEPT ![p] = Opened(p)]
  /\ UNCHANGED <<together, attached, stack, mutex, buf, master>>

\* The new file was renamed into place, and the sync of the directory failed.
OpenFails(t) ==
  /\ Python(t) /\ Depth < MaxCalls /\ named \cap Masters # {}
  /\ \E p \in Paths \ flock : generation[p] = 0 /\ generation' = [generation EXCEPT ![p] = 1]
  /\ UNCHANGED <<together, attached, stack, mutex, buf, master, store, named, flock>>

-----------------------------------------------------------------------------
(* Calls that go through a mutex, a callback or a detached stretch.         *)
Enter(t, c) ==
  /\ Python(t) /\ Depth < MaxCalls
  /\ stack' = [stack EXCEPT ![t] = Append(@, c)]
  /\ UNCHANGED <<together, attached, mutex, buf, master, store, named, flock, generation>>

CallBuf(t) == \E op \in OnBuf, b \in named \cap Bufs :
  Enter(t, [NoCall EXCEPT !.op = op, !.buf = b])
CallPut(t) == \E s \in named \cap Stores, b \in named \cap Bufs :
  Enter(t, [NoCall EXCEPT !.op = "put", !.store = s, !.buf = b])
CallGet(t) == \E s \in named \cap Stores :
  Enter(t, [NoCall EXCEPT !.op = "get", !.store = s])
CallRotate(t) == \E s \in named \cap Stores, m \in named \cap Masters :
  Enter(t, [NoCall EXCEPT !.op = "rotate", !.store = s, !.master = m])
CallPassword(t) == Enter(t, [NoCall EXCEPT !.op = "password", !.at = "detach"])

\* The object whose mutex a call takes first, and what the mutex guards.
First(c)   == IF c.op \in OnStore THEN c.store ELSE c.buf
IsSome(o)  == IF o \in Stores THEN store[o].inner # None ELSE buf[o] = "secret"
\* Guards are dropped when the call returns, or goes on to Python.
Unlocks(t) == mutex' = [o \in DOMAIN mutex |-> IF mutex[o] = t THEN None ELSE mutex[o]]

\* with: the guard is held while the closure works.
Lock(t) ==
  /\ Rust(t, "lock") /\ Top(t).op \notin {"from_bytes", "rotate"}
  /\ mutex[First(Top(t))] = None /\ IsSome(First(Top(t)))
  /\ mutex' = [mutex EXCEPT ![First(Top(t))] = t]
  /\ GoesTo(t, IF Top(t).op = "put" THEN "secret" ELSE "work")
  /\ UNCHANGED <<together, attached, buf, master, store, named, flock, generation>>

\* ValueError: consumed, or rotated away.
FindsNothing(t) ==
  /\ Rust(t, "lock")
  /\ mutex[First(Top(t))] = None /\ ~IsSome(First(Top(t)))
  /\ Returns(t)
  /\ UNCHANGED <<together, attached, mutex, buf, master, store, named, flock, generation>>

\* Mutant: rotate reads the store and leaves it in its object.
TakeNot(t) ==
  /\ Rust(t, "lock") /\ Top(t).op \in {"from_bytes", "rotate"}
  /\ mutex[First(Top(t))] = None /\ IsSome(First(Top(t)))
  /\ stack' = [stack EXCEPT ![t] = Append(Bottom(t), [Top(t) EXCEPT !.at = "work",
       !.taken = IF Top(t).op = "rotate" THEN store[Top(t).store].inner ELSE None])]
  /\ UNCHANGED <<together, attached, mutex, buf, master, store, named, flock, generation>>

\* take: the guard lives for one statement, the value moves into the call.
Take(t) ==
  /\ Rust(t, "lock") /\ Top(t).op \in {"from_bytes", "rotate"}
  /\ mutex[First(Top(t))] = None /\ IsSome(First(Top(t)))
  /\ IF Top(t).op = "rotate"
     THEN /\ stack' = [stack EXCEPT ![t] = Append(Bottom(t),
                         [Top(t) EXCEPT !.at = "work", !.taken = store[Top(t).store].inner])]
          /\ store' = [store EXCEPT ![Top(t).store].inner = None]
          /\ UNCHANGED buf
     ELSE /\ GoesTo(t, "work")
          /\ buf' = [buf EXCEPT ![Top(t).buf] = "consumed"]
          /\ UNCHANGED store
  /\ UNCHANGED <<together, attached, mutex, master, named, flock, generation>>

LockSecret(t) ==
  /\ Rust(t, "secret")
  /\ mutex[Top(t).buf] = None
  /\ IF buf[Top(t).buf] # "secret"
     THEN Returns(t) /\ Unlocks(t)
     ELSE GoesTo(t, "work") /\ mutex' = [mutex EXCEPT ![Top(t).buf] = t]
  /\ UNCHANGED <<together, attached, buf, master, store, named, flock, generation>>

\* len, seal, sign and their like; x25519_shared makes a new secret.
Read(t) ==
  /\ Rust(t, "work") /\ Top(t).op = "read"
  /\ Returns(t) /\ Unlocks(t)
  /\ MakesBuf \/ UNCHANGED <<buf, named>>
  /\ UNCHANGED <<together, attached, master, store, flock, generation>>

\* Mutant: the callback runs inside `with`.
CallUnderMutex(t) ==
  /\ Rust(t, "work") /\ Top(t).op = "expose"
  /\ GoesTo(t, "callback")
  /\ UNCHANGED <<together, attached, mutex, buf, master, store, named, flock, generation>>

\* expose: a copy is taken under the mutex, the callback is called without it.
CopyOut(t) ==
  /\ Rust(t, "work") /\ Top(t).op = "expose"
  /\ Unlocks(t)
  /\ GoesTo(t, "callback")
  /\ UNCHANGED <<together, attached, buf, master, store, named, flock, generation>>

CallbackReturns(t) ==
  /\ Python(t) /\ At(t, "callback")
  /\ Returns(t)
  /\ UNCHANGED <<together, attached, mutex, buf, master, store, named, flock, generation>>

\* put and delete write the file with the header in memory, or not: an error may
\* come before or after the file changed, and a delete may find nothing to do.
MayWrite(i) == generation' = [generation EXCEPT ![i.path] = i.gen] \/ UNCHANGED generation

Put(t) ==
  /\ Rust(t, "work") /\ Top(t).op = "put"
  /\ Returns(t) /\ Unlocks(t)
  /\ MayWrite(store[Top(t).store].inner)
  /\ UNCHANGED <<together, attached, buf, master, store, named, flock>>

\* get, delete, contains, list.
Get(t) ==
  /\ Rust(t, "work") /\ Top(t).op = "get"
  /\ Returns(t) /\ Unlocks(t)
  /\ \/ MakesBuf /\ UNCHANGED generation
     \/ MayWrite(store[Top(t).store].inner) /\ UNCHANGED <<buf, named>>
  /\ UNCHANGED <<together, attached, master, store, flock>>

\* A salt and a key id are drawn for the file of i, and the file is replaced.
Renews(i) ==
  /\ generation[i.path] < MaxGen
  /\ generation' = [generation EXCEPT ![i.path] = @ + 1]

\* Mutant: the new object keeps the old master key.
RotateKeepsMaster(t) ==
  /\ Rust(t, "work") /\ Top(t).op = "rotate"
  /\ LET old == Top(t).taken IN
     /\ Renews(old)
     /\ MakesStore([path |-> old.path, key |-> Top(t).master, gen |-> generation[old.path] + 1],
                   old.key)
  /\ Returns(t)
  /\ UNCHANGED <<together, attached, mutex, buf, master, flock>>

RotateOk(t) ==
  /\ Rust(t, "work") /\ Top(t).op = "rotate"
  /\ LET old == Top(t).taken IN
     /\ Renews(old)
     /\ MakesStore([path |-> old.path, key |-> Top(t).master, gen |-> generation[old.path] + 1],
                   Top(t).master)
  /\ Returns(t)
  /\ UNCHANGED <<together, attached, mutex, buf, master, flock>>

\* Mutant: a failed rotate gives the object its store back.
RotateGivesBack(t) ==
  /\ Rust(t, "work") /\ Top(t).op = "rotate"
  /\ LET old == Top(t).taken IN
     /\ store' = [store EXCEPT ![Top(t).store].inner = old]
     /\ Renews(old) \/ UNCHANGED generation
  /\ Returns(t)
  /\ UNCHANGED <<together, attached, mutex, buf, master, named, flock>>

\* The error drops the old store, lock and all; the file may be either one.
RotateFails(t) ==
  /\ Rust(t, "work") /\ Top(t).op = "rotate"
  /\ LET old == Top(t).taken IN
     /\ flock' = flock \ {old.path}
     /\ Renews(old) \/ UNCHANGED generation
  /\ Returns(t)
  /\ UNCHANGED <<together, attached, mutex, buf, master, store, named>>

\* Format for a wrong length, Hardening without memory: the secret is gone.
FromBytes(t) ==
  /\ Rust(t, "work") /\ Top(t).op = "from_bytes"
  /\ MakesMaster \/ UNCHANGED <<master, named>>
  /\ Returns(t)
  /\ UNCHANGED <<together, attached, mutex, buf, store, flock, generation>>

\* Mutant: Argon2 works without letting go of the interpreter.
DetachNot(t) ==
  /\ Rust(t, "detach")
  /\ GoesTo(t, "hash")
  /\ UNCHANGED <<together, attached, mutex, buf, master, store, named, flock, generation>>

\* py.detach around Argon2.
DetachToHash(t) ==
  /\ Rust(t, "detach")
  /\ attached' = attached \ {t}
  /\ GoesTo(t, "hash")
  /\ UNCHANGED <<together, mutex, buf, master, store, named, flock, generation>>

Hashed(t) ==
  /\ At(t, "hash")
  /\ GoesTo(t, "attach")
  /\ UNCHANGED <<together, attached, mutex, buf, master, store, named, flock, generation>>

\* derive_key makes a new secret; hash and verify do not.
PasswordReturns(t) ==
  /\ Rust(t, "attach")
  /\ Returns(t)
  /\ MakesBuf \/ UNCHANGED <<buf, named>>
  /\ UNCHANGED <<together, attached, mutex, master, store, flock, generation>>

-----------------------------------------------------------------------------
PythonStep(t) ==
  \/ Detach(t) \/ Del(t) \/ NewSecret(t) \/ FromSecretFile(t)
  \/ OpenStore(t) \/ OpenFails(t)
  \/ CallBuf(t) \/ CallPut(t) \/ CallGet(t) \/ CallRotate(t) \/ CallPassword(t)
  \/ CallbackReturns(t)

RustStep(t) ==
  \/ Lock(t) \/ FindsNothing(t) \/ Take(t) \/ LockSecret(t)
  \/ Read(t) \/ CopyOut(t) \/ Put(t) \/ Get(t) \/ RotateOk(t) \/ RotateFails(t)
  \/ FromBytes(t) \/ DetachToHash(t) \/ Hashed(t) \/ PasswordReturns(t)

Next == (\E t \in Threads : Attach(t) \/ PythonStep(t) \/ RustStep(t)) \/ DropInner \/ Free

\* What is in Rust, or being deallocated, goes on; the interpreter lets every
\* thread that asks for its lock have it in turn.
Fairness == /\ WF_vars(DropInner) /\ WF_vars(Free)
            /\ \A t \in Threads : WF_vars(RustStep(t)) /\ SF_vars(Attach(t)) /\ SF_vars(Detach(t))

Spec == Init /\ [][Next]_vars /\ Fairness

-----------------------------------------------------------------------------
\* Types, the interpreter's limit, and who may work without it.
TypeOK ==
  /\ together \in Builds
  /\ attached \subseteq Threads /\ Cardinality(attached) <= together
  /\ \A t \in Threads : \A i \in DOMAIN stack[t] : stack[t][i] \in Calls
  /\ mutex \in [Bufs \cup Stores -> Threads \cup {None}]
  /\ buf \in [Bufs -> {NoBuf, "secret", "consumed"}]
  /\ master \in [Masters -> {NoMaster, "key"}]
  /\ store \in [Stores -> [object : BOOLEAN, inner : Inner \cup {None}, master : Masters \cup {None}]]
  /\ named \subseteq Bufs \cup Masters \cup Stores
  /\ flock \subseteq Paths
  /\ generation \in [Paths -> 0..MaxGen]
  \* A call works attached, except that others may run while Argon2 does.
  /\ \A t \in Threads : (\E p \in {"lock", "secret", "work", "detach"} : At(t, p)) => t \in attached
  /\ \A t \in Threads : At(t, "hash") => t \notin attached

\* The krypto stores there are: in an object, or taken out by a rotate under way.
Holders(p) == {s \in Stores : store[s].inner # None /\ store[s].inner.path = p} \cup
              {t \in Threads : \E c \in Range(stack[t]) : c.taken # None /\ c.taken.path = p}
Live       == ({store[s].inner : s \in Stores} \cup {c.taken : c \in Underway}) \ {None}

\* A krypto store refers to a MasterKey object that still exists: the object
\* beside it keeps it (lib.rs:364-366), is dropped after it, and rotate hands
\* the new key, not the old one, to the new object.
MasterOutlivesStore == \A v \in Live : master[v.key] # NoMaster

\* A file is locked exactly while one krypto store for it exists: a rotate that
\* fails and a SecretStore that goes give it back, a rotate that works moves it.
LockFollowsStore == \A p \in Paths :
  /\ Cardinality(Holders(p)) <= 1
  /\ p \in flock <=> Holders(p) # {}

\* A store that can still be used has the header that is in its file, also after a
\* rotate that failed behind the rename: rotate has the store taken out before it
\* can fail (lib.rs:419), so nobody writes the old generation back over the new
\* one.  Which master it was opened with is its caller's own affair.
NeverStale == \A v \in Live : v.gen = generation[v.path]

\* Who has a mutex is running in Rust and never waits in a circle: no callback,
\* and no stretch without the interpreter, under a mutex (lib.rs:165, 397, 514).
MutexHolderRuns == \A o \in DOMAIN mutex : mutex[o] # None =>
  LET t == mutex[o] IN
  /\ t \in attached /\ (At(t, "secret") \/ At(t, "work"))
  /\ At(t, "secret") => /\ o \in Stores
                         /\ mutex[Top(t).buf] # None => At(mutex[Top(t).buf], "work")

\* With the interpreter's lock, a call that is in Rust returns, or gets to its
\* callback, whatever other threads and callbacks do with the same objects.
EveryCallReturns == \A t \in Threads :
  together = 1 /\ ~InPython(t) ~> InPython(t)
=============================================================================
