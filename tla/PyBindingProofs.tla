---------------------------- MODULE PyBindingProofs ----------------------------
(***************************************************************************)
(* What the Python objects promise of the krypto values in them, for any    *)
(* number of threads, objects and files, with or without the interpreter's  *)
(* global lock.  The invariant says what the call a thread is in holds: the *)
(* store a rotate has taken out, the mutexes, the references.               *)
(***************************************************************************)
EXTENDS PyBinding, FiniteSetTheorems, SequenceTheorems, TLAPS

\* What the calls of each kind have for arguments, and where they can be.
Shape(c) ==
  /\ c \in Calls
  /\ c.op \in OnBuf \cup {"put"} => c.buf \in Bufs
  /\ c.op \in OnStore => c.store \in Stores
  /\ c.op = "rotate" => c.master \in Masters
  /\ c.at = "secret" => c.op = "put"
  /\ c.at \in {"detach", "hash", "attach"} <=> c.op = "password"
  /\ c.at = "callback" => c.op = "expose"
  /\ c.taken # None <=> c.op = "rotate" /\ c.at = "work"

\* Below the call that a thread is in, there are only calls in their callbacks.
Nested(s) == \A i \in 1..Len(s) : Shape(s[i]) /\ (i # Len(s) => s[i].at = "callback")
StackInv  == stack \in [Threads -> Seq(Calls)] /\ \A t \in Threads : Nested(stack[t])

\* The call a thread is in; in none, it is as free as in a callback.
Idle       == [NoCall EXCEPT !.at = "callback"]
Current(t) == IF stack[t] = <<>> THEN Idle ELSE Top(t)

-----------------------------------------------------------------------------
\* Stacks.

LEMMA Pushed ==
  ASSUME NEW s \in Seq(Calls), NEW c \in Calls
  PROVE  /\ Append(s, c) \in Seq(Calls) /\ Append(s, c) # <<>>
         /\ Len(Append(s, c)) = Len(s) + 1 /\ Append(s, c)[Len(s) + 1] = c
         /\ \A i \in 1..Len(s) : Append(s, c)[i] = s[i]
OBVIOUS

LEMMA Popped ==
  ASSUME NEW s \in Seq(Calls), s # <<>>, NEW r, r = SubSeq(s, 1, Len(s) - 1)
  PROVE  /\ r \in Seq(Calls) /\ Len(r) = Len(s) - 1 /\ Len(s) \in Nat \ {0}
         /\ \A i \in 1..Len(r) : r[i] = s[i]
<1>1. Len(s) \in Nat \ {0}
  BY EmptySeq
<1>2. \A i \in 1..Len(s) - 1 : s[i] \in Calls
  BY <1>1, LenProperties
<1> DEFINE n == Len(s) - 1
<1>3. n \in Nat /\ 1 \in Int /\ n \in Int /\ Len(s) = n + 1
  BY <1>1
<1>4. \A i \in 1..n : s[i] \in Calls
  BY <1>2
<1> HIDE DEF n
<1>5. /\ SubSeq(s, 1, n) \in Seq(Calls)
      /\ Len(SubSeq(s, 1, n)) = IF 1 <= n THEN n - 1 + 1 ELSE 0
      /\ \A i \in 1..n - 1 + 1 : SubSeq(s, 1, n)[i] = s[1 + i - 1]
  BY <1>3, <1>4, SubSeqProperties
<1>6. Len(SubSeq(s, 1, n)) = n
  BY <1>3, <1>5
<1>7. ASSUME NEW i \in 1..n PROVE SubSeq(s, 1, n)[i] = s[i]
  <2>1. n - 1 + 1 = n /\ 1 + i - 1 = i
    BY <1>3
  <2>2. QED
    BY <1>5, <2>1
<1>8. r = SubSeq(s, 1, n)
  BY DEF n
<1>9. QED
  BY <1>1, <1>3, <1>5, <1>6, <1>7, <1>8

\* A call is entered from Python.
LEMMA PushStep ==
  ASSUME StackInv, NEW t \in Threads, InPython(t), NEW c, Shape(c),
         stack' = [stack EXCEPT ![t] = Append(@, c)]
  PROVE  /\ StackInv' /\ Current(t)' = c
         /\ \A u \in Threads \ {t} : stack'[u] = stack[u]
         /\ Range(stack'[t]) \subseteq Range(stack[t]) \cup {c}
<1> DEFINE s == stack[t]
           r == Append(s, c)
<1>1. s \in Seq(Calls) /\ c \in Calls /\ Len(s) \in Nat
  BY LenProperties DEF StackInv, Shape
<1>2. /\ r \in Seq(Calls) /\ r # <<>> /\ Len(r) = Len(s) + 1 /\ r[Len(s) + 1] = c
      /\ \A i \in 1..Len(s) : r[i] = s[i]
  BY <1>1, Pushed
<1>3. stack' \in [Threads -> Seq(Calls)] /\ stack'[t] = r
      /\ \A u \in Threads \ {t} : stack'[u] = stack[u]
  BY <1>1, <1>2 DEF StackInv
<1>4. \A i \in 1..Len(s) : Shape(s[i]) /\ (i # Len(s) => s[i].at = "callback")
  BY DEF StackInv, Nested
<1>5. \A i \in 1..Len(s) : s[i].at = "callback"
  <2>1. CASE s = <<>>
    BY <2>1, EmptySeq
  <2>2. CASE s # <<>>
    BY <1>4, <2>2 DEF InPython, At, Top
  <2>3. QED
    BY <2>1, <2>2
<1> HIDE DEF s, r
<1>6. \A i \in 1..Len(r) : Shape(r[i]) /\ (i # Len(r) => r[i].at = "callback")
  <2>1. ASSUME NEW i \in 1..Len(r)
        PROVE  Shape(r[i]) /\ (i # Len(r) => r[i].at = "callback")
    <3>1. i \in 1..Len(s) \/ i = Len(s) + 1
      BY <1>1, <1>2
    <3>2. QED
      BY <1>1, <1>2, <1>4, <1>5, <3>1
  <2>2. QED
    BY <2>1
<1>7. StackInv'
  BY <1>3, <1>6 DEF StackInv, Nested
<1>8. Current(t)' = c
  BY <1>2, <1>3 DEF Current, Top
<1>9. Range(stack'[t]) \subseteq Range(stack[t]) \cup {c}
  <2>1. DOMAIN r = 1..Len(r) /\ DOMAIN s = 1..Len(s) /\ stack[t] = s
    BY <1>1, <1>2, LenProperties DEF s
  <2>2. \A i \in 1..Len(r) : i \in 1..Len(s) \/ i = Len(s) + 1
    BY <1>1, <1>2
  <2>3. QED
    BY <1>2, <1>3, <2>1, <2>2 DEF Range
<1>10. QED
  BY <1>3, <1>7, <1>8, <1>9

\* A thread returns from its call.
LEMMA ReturnStep ==
  ASSUME StackInv, NEW t \in Threads, stack[t] # <<>>, Returns(t)
  PROVE  /\ StackInv' /\ Current(t)'.at = "callback" /\ Current(t)'.taken = None
         /\ \A u \in Threads \ {t} : stack'[u] = stack[u]
         /\ Range(stack'[t]) \subseteq Range(stack[t])
<1> DEFINE s == stack[t]
           r == Bottom(t)
<1>1. s \in Seq(Calls) /\ s # <<>>
  BY DEF StackInv
<1>2. /\ r \in Seq(Calls) /\ Len(r) = Len(s) - 1 /\ Len(s) \in Nat \ {0}
      /\ \A i \in 1..Len(r) : r[i] = s[i]
  BY <1>1, Popped DEF Bottom
<1>3. stack' \in [Threads -> Seq(Calls)] /\ stack'[t] = r
      /\ \A u \in Threads \ {t} : stack'[u] = stack[u]
  BY <1>1, <1>2 DEF StackInv, Returns
<1>4. \A i \in 1..Len(s) : Shape(s[i]) /\ (i # Len(s) => s[i].at = "callback")
  BY DEF StackInv, Nested
<1> HIDE DEF s, r
<1>5. \A i \in 1..Len(r) : Shape(r[i]) /\ r[i].at = "callback"
  <2>1. ASSUME NEW i \in 1..Len(r)
        PROVE  Shape(r[i]) /\ r[i].at = "callback"
    <3>1. i \in 1..Len(s) /\ i # Len(s)
      BY <1>2
    <3>2. QED
      BY <1>2, <1>4, <3>1
  <2>2. QED
    BY <2>1
<1>6. StackInv'
  BY <1>3, <1>5 DEF StackInv, Nested
<1>7. Current(t)'.at = "callback" /\ Current(t)'.taken = None
  <2>1. CASE r = <<>>
    BY <1>3, <2>1 DEF Current, Idle, NoCall
  <2>2. CASE r # <<>>
    <3>1. Len(r) \in 1..Len(r)
      BY <1>2, <2>2, EmptySeq
    <3>2. r[Len(r)].at = "callback" /\ Shape(r[Len(r)])
      BY <1>5, <3>1
    <3>3. QED
      BY <1>3, <2>2, <3>2 DEF Current, Top, Shape
  <2>3. QED
    BY <2>1, <2>2
<1>8. Range(stack'[t]) \subseteq Range(stack[t])
  <2>1. DOMAIN r = 1..Len(r) /\ DOMAIN s = 1..Len(s) /\ stack[t] = s
    BY <1>1, <1>2, LenProperties DEF s
  <2>2. \A i \in 1..Len(r) : i \in 1..Len(s)
    BY <1>2
  <2>3. QED
    BY <1>2, <1>3, <2>1, <2>2 DEF Range
<1>9. QED
  BY <1>3, <1>6, <1>7, <1>8

\* A call goes on, as c.
LEMMA TurnStep ==
  ASSUME StackInv, NEW t \in Threads, stack[t] # <<>>, NEW c, Shape(c),
         stack' = [stack EXCEPT ![t] = Append(Bottom(t), c)]
  PROVE  /\ StackInv' /\ Current(t)' = c
         /\ \A u \in Threads \ {t} : stack'[u] = stack[u]
         /\ Range(stack'[t]) \subseteq Range(stack[t]) \cup {c}
<1> DEFINE s == stack[t]
           b == Bottom(t)
           r == Append(b, c)
<1>1. s \in Seq(Calls) /\ s # <<>> /\ c \in Calls
  BY DEF StackInv, Shape
<1>2. /\ b \in Seq(Calls) /\ Len(b) = Len(s) - 1 /\ Len(s) \in Nat \ {0}
      /\ \A i \in 1..Len(b) : b[i] = s[i]
  BY <1>1, Popped DEF Bottom
<1>3. /\ r \in Seq(Calls) /\ r # <<>> /\ Len(r) = Len(b) + 1 /\ r[Len(b) + 1] = c
      /\ \A i \in 1..Len(b) : r[i] = b[i]
  BY <1>1, <1>2, Pushed
<1>4. stack' \in [Threads -> Seq(Calls)] /\ stack'[t] = r
      /\ \A u \in Threads \ {t} : stack'[u] = stack[u]
  BY <1>1, <1>3 DEF StackInv
<1>5. \A i \in 1..Len(s) : Shape(s[i]) /\ (i # Len(s) => s[i].at = "callback")
  BY DEF StackInv, Nested
<1> HIDE DEF s, b, r
<1>6. \A i \in 1..Len(r) : i = Len(r) \/ (i \in 1..Len(b) /\ i \in 1..Len(s) /\ i # Len(s))
  BY <1>2, <1>3
<1>7. Len(r) = Len(b) + 1 /\ r[Len(r)] = c
  BY <1>3
<1>8. \A i \in 1..Len(r) : Shape(r[i]) /\ (i # Len(r) => r[i].at = "callback")
  BY <1>2, <1>3, <1>5, <1>6, <1>7
<1>9. StackInv'
  BY <1>4, <1>8 DEF StackInv, Nested
<1>10. Current(t)' = c
  BY <1>3, <1>4, <1>7 DEF Current, Top
<1>11. Range(stack'[t]) \subseteq Range(stack[t]) \cup {c}
  <2>1. DOMAIN r = 1..Len(r) /\ DOMAIN s = 1..Len(s) /\ stack[t] = s
    BY <1>1, <1>3, LenProperties DEF s
  <2>2. QED
    BY <1>2, <1>3, <1>4, <1>6, <1>7, <2>1 DEF Range
<1>12. QED
  BY <1>4, <1>9, <1>10, <1>11

\* The call a thread is in has its shape, and is one of its calls.
LEMMA CurrentShape ==
  ASSUME StackInv, NEW t \in Threads, stack[t] # <<>>
  PROVE  Shape(Current(t)) /\ Current(t) = Top(t) /\ Current(t) \in Range(stack[t])
<1>1. stack[t] \in Seq(Calls) /\ Len(stack[t]) \in Nat \ {0}
  BY EmptySeq DEF StackInv
<1>2. Len(stack[t]) \in 1..Len(stack[t]) /\ DOMAIN stack[t] = 1..Len(stack[t])
  BY <1>1, LenProperties
<1>3. QED
  BY <1>2 DEF StackInv, Nested, Current, Top, Range

\* Below it is no call that has taken a store.
LEMMA OnlyTopTakes ==
  ASSUME StackInv, NEW t \in Threads, NEW c \in Range(stack[t]), c.taken # None
  PROVE  c = Current(t)
<1>1. stack[t] \in Seq(Calls) /\ Len(stack[t]) \in Nat /\ DOMAIN stack[t] = 1..Len(stack[t])
  BY LenProperties DEF StackInv
<1>2. PICK i \in 1..Len(stack[t]) : c = stack[t][i]
  BY <1>1 DEF Range
<1>3. Shape(c) /\ (i # Len(stack[t]) => c.at = "callback")
  BY <1>2 DEF StackInv, Nested
<1>4. i = Len(stack[t]) /\ stack[t] # <<>>
  <2>1. c.at = "work"
    BY <1>3 DEF Shape
  <2>2. QED
    BY <1>1, <1>2, <1>3, <2>1, EmptySeq
<1>5. QED
  BY <1>2, <1>4 DEF Current, Top

-----------------------------------------------------------------------------
\* The invariant.

\* What a thread has while it is in its call: the interpreter, or not; the mutex
\* of the object it works on, with what the mutex guards; and, in a rotate, the
\* store that the old object no longer has.
Has(t, c) ==
  /\ c.at \in {"lock", "secret", "work", "detach"} => t \in attached
  /\ c.at = "hash" => t \notin attached
  /\ c.at \in {"secret", "work"} /\ c.op \notin {"from_bytes", "rotate"} => mutex[First(c)] = t
  /\ c.at \in {"secret", "work"} /\ c.op \in {"put", "get"} => store[c.store].inner # None
  /\ c.taken # None => store[c.store] = [object |-> TRUE, inner |-> None, master |-> c.taken.key]
CallInv == \A t \in Threads : Has(t, Current(t))

\* Nobody else has it, and nobody keeps it.
MutexOf(o, c) ==
  /\ c.at \in {"secret", "work"} /\ c.op \notin {"from_bytes", "rotate"}
  /\ o = First(c) \/ (c.op = "put" /\ c.at = "work" /\ o = c.buf)
MutexInv == \A o \in Bufs \cup Stores : mutex[o] # None => MutexOf(o, Current(mutex[o]))

\* Whatever has a name, is used by a call or kept by a store exists.
StoreSound(s) ==
  IF store[s].object
  THEN /\ store[s].master \in Masters /\ master[store[s].master] # NoMaster
       /\ store[s].inner # None => store[s].inner.key = store[s].master
  ELSE store[s] = NoStore
RefInv ==
  /\ named \subseteq Objects
  /\ \A c \in Underway : Used(c) \subseteq Objects \cup {None}
  /\ \A s \in Stores : StoreSound(s)

\* The places a krypto store can be in: an object, or a call.
Hands  == ({"object"} \X Stores) \cup ({"call"} \X Threads)
In(h)  == IF h[1] = "object" THEN store[h[2]].inner ELSE Current(h[2]).taken
Full   == {h \in Hands : In(h) # None}
HandInv ==
  /\ \A g, h \in Full : In(g).path = In(h).path => g = h
  /\ \A p \in Paths : p \in flock <=> \E h \in Full : In(h).path = p
  /\ \A h \in Full : In(h).gen = generation[In(h).path]

IInv == /\ TypeOK /\ IsFiniteSet(attached)
        /\ StackInv /\ CallInv /\ MutexInv /\ RefInv /\ HandInv

-----------------------------------------------------------------------------
\* What each step does to the calls under way.

\* Thread t is in call c now, and no other thread in another than before.
Moved(t, c) ==
  /\ StackInv' /\ Current(t)' = c
  /\ \A u \in Threads \ {t} : Current(u)' = Current(u)
\* Nothing is used that was not used before.
NoMoreUsed == \A d \in Underway' : \E c \in Underway : Used(d) = Used(c)

LEMMA MovesEnter ==
  ASSUME StackInv, NEW t \in Threads, NEW c, Shape(c), Enter(t, c)
  PROVE  /\ Moved(t, c)
         /\ \A d \in Underway' : d = c \/ d \in Underway
<1>1. /\ StackInv' /\ Current(t)' = c
      /\ \A u \in Threads \ {t} : stack'[u] = stack[u]
      /\ Range(stack'[t]) \subseteq Range(stack[t]) \cup {c}
  <2>1. InPython(t) /\ stack' = [stack EXCEPT ![t] = Append(@, c)]
    BY DEF Enter, Python
  <2>2. QED
    BY <2>1, PushStep
<1>2. QED
  BY <1>1 DEF Moved, Current, Top, Underway

LEMMA MovesReturn ==
  ASSUME StackInv, NEW t \in Threads, stack[t] # <<>>, Returns(t)
  PROVE  \E c : Moved(t, c) /\ c.at = "callback" /\ c.taken = None /\ NoMoreUsed
<1>1. /\ StackInv' /\ Current(t)'.at = "callback" /\ Current(t)'.taken = None
      /\ \A u \in Threads \ {t} : stack'[u] = stack[u]
      /\ Range(stack'[t]) \subseteq Range(stack[t])
  BY ReturnStep
<1>2. Underway' \subseteq Underway
  BY <1>1 DEF Underway
<1>3. QED
  BY <1>1, <1>2 DEF Moved, Current, Top, NoMoreUsed

LEMMA MovesTurn ==
  ASSUME StackInv, NEW t \in Threads, stack[t] # <<>>, NEW c, Shape(c), Used(c) = Used(Current(t)),
         stack' = [stack EXCEPT ![t] = Append(Bottom(t), c)]
  PROVE  Moved(t, c) /\ NoMoreUsed
<1>1. /\ StackInv' /\ Current(t)' = c
      /\ \A u \in Threads \ {t} : stack'[u] = stack[u]
      /\ Range(stack'[t]) \subseteq Range(stack[t]) \cup {c}
  BY TurnStep
<1>2. Current(t) \in Underway
  BY CurrentShape DEF Underway
<1>3. NoMoreUsed
  <2>1. \A d \in Underway' : d = c \/ d \in Underway
    BY <1>1 DEF Underway
  <2>2. QED
    BY <1>2, <2>1 DEF NoMoreUsed
<1>4. QED
  BY <1>1, <1>3 DEF Moved, Current, Top

LEMMA MovesTo ==
  ASSUME StackInv, NEW t \in Threads, stack[t] # <<>>, NEW p \in Places, GoesTo(t, p),
         LET c == Current(t) IN
         /\ c.taken = None /\ (p = "secret" => c.op = "put") /\ (p = "callback" => c.op = "expose")
         /\ p \in {"detach", "hash", "attach"} <=> c.op = "password"
         /\ ~(c.op = "rotate" /\ p = "work")
  PROVE  Moved(t, [Current(t) EXCEPT !.at = p]) /\ NoMoreUsed
<1> DEFINE c == Current(t)
           d == [c EXCEPT !.at = p]
<1>1. Shape(c) /\ c = Top(t)
  BY CurrentShape
<1>2. Shape(d)
  BY <1>1 DEF Shape, Calls
<1>3. Used(d) = Used(c)
  BY <1>1 DEF Used, Shape, Calls
<1>4. stack' = [stack EXCEPT ![t] = Append(Bottom(t), d)]
  BY <1>1 DEF GoesTo
<1> HIDE DEF d
<1>5. Moved(t, d) /\ NoMoreUsed
  BY <1>2, <1>3, <1>4, MovesTurn
<1>6. QED
  BY <1>5 DEF d

LEMMA Stays ==
  ASSUME StackInv, UNCHANGED stack
  PROVE  StackInv' /\ (\A t : Current(t)' = Current(t)) /\ Underway' = Underway
BY DEF StackInv, Current, Top, Underway

MovedTo(t, p) == Moved(t, [Current(t) EXCEPT !.at = p]) /\ NoMoreUsed
Back(t) == \E c : Moved(t, c) /\ c.at = "callback" /\ c.taken = None /\ NoMoreUsed

LEMMA AtIs ==
  ASSUME StackInv, NEW t \in Threads, NEW p, At(t, p)
  PROVE  /\ stack[t] # <<>> /\ Current(t).at = p /\ Current(t) = Top(t)
         /\ Shape(Current(t)) /\ Current(t) \in Underway
BY CurrentShape DEF At, Underway

LEMMA Turns ==
  ASSUME StackInv, NEW t \in Threads
  PROVE  /\ Lock(t) => MovedTo(t, IF Current(t).op = "put" THEN "secret" ELSE "work")
         /\ LockSecret(t) /\ buf[Current(t).buf] = "secret" => MovedTo(t, "work")
         /\ CopyOut(t) => MovedTo(t, "callback")
         /\ DetachToHash(t) => MovedTo(t, "hash")
         /\ Hashed(t) => MovedTo(t, "attach")
<1> DEFINE c == Current(t)
<1> USE DEF MovedTo, Rust
<1>1. ASSUME Lock(t) PROVE MovedTo(t, IF c.op = "put" THEN "secret" ELSE "work")
  <2>1. /\ stack[t] # <<>> /\ c.at = "lock" /\ c = Top(t) /\ Shape(c)
        /\ c.op # "rotate"
        /\ GoesTo(t, IF c.op = "put" THEN "secret" ELSE "work")
    BY <1>1, AtIs DEF Lock
  <2> HIDE DEF c
  <2>2. c.taken = None /\ c.op # "password"
    BY <2>1 DEF Shape
  <2> DEFINE p == IF c.op = "put" THEN "secret" ELSE "work"
  <2>3. /\ p \in Places /\ (p = "secret" => c.op = "put") /\ p \in {"secret", "work"}
    BY DEF Places
  <2>4. GoesTo(t, p)
    BY <2>1
  <2> HIDE DEF p
  <2>5. MovedTo(t, p)
    BY <2>1, <2>2, <2>3, <2>4, MovesTo DEF c
  <2>6. QED
    BY <2>5 DEF p, c
<1>2. ASSUME LockSecret(t), buf[c.buf] = "secret" PROVE MovedTo(t, "work")
  <2>1. /\ stack[t] # <<>> /\ c.at = "secret" /\ c = Top(t) /\ Shape(c) /\ GoesTo(t, "work")
    BY <1>2, AtIs DEF LockSecret
  <2>2. c.taken = None /\ c.op = "put" /\ "work" \in Places
    BY <2>1 DEF Shape, Places
  <2>3. QED
    BY <2>1, <2>2, MovesTo
<1>3. ASSUME CopyOut(t) PROVE MovedTo(t, "callback")
  <2>1. /\ stack[t] # <<>> /\ c.at = "work" /\ c = Top(t) /\ Shape(c) /\ GoesTo(t, "callback")
        /\ c.op = "expose"
    BY <1>3, AtIs DEF CopyOut
  <2>2. c.taken = None /\ "callback" \in Places
    BY <2>1 DEF Shape, Places
  <2>3. QED
    BY <2>1, <2>2, MovesTo
<1>4. ASSUME DetachToHash(t) PROVE MovedTo(t, "hash")
  <2>1. /\ stack[t] # <<>> /\ c.at = "detach" /\ c = Top(t) /\ Shape(c) /\ GoesTo(t, "hash")
    BY <1>4, AtIs DEF DetachToHash
  <2>2. c.op = "password" /\ c.taken = None /\ "hash" \in Places
    BY <2>1 DEF Shape, Places
  <2>3. QED
    BY <2>1, <2>2, MovesTo
<1>5. ASSUME Hashed(t) PROVE MovedTo(t, "attach")
  <2>1. /\ stack[t] # <<>> /\ c.at = "hash" /\ c = Top(t) /\ Shape(c) /\ GoesTo(t, "attach")
    BY <1>5, AtIs DEF Hashed
  <2>2. c.op = "password" /\ c.taken = None /\ "attach" \in Places
    BY <2>1 DEF Shape, Places
  <2>3. QED
    BY <2>1, <2>2, MovesTo
<1>6. QED
  BY <1>1, <1>2, <1>3, <1>4, <1>5

LEMMA Backs ==
  ASSUME StackInv, NEW t \in Threads,
         \/ FindsNothing(t) \/ (LockSecret(t) /\ buf[Current(t).buf] # "secret")
         \/ Read(t) \/ Put(t) \/ Get(t) \/ RotateOk(t) \/ RotateFails(t) \/ FromBytes(t)
         \/ CallbackReturns(t) \/ PasswordReturns(t)
  PROVE  Back(t)
<1>1. stack[t] # <<>> /\ Returns(t)
  BY CurrentShape DEF FindsNothing, LockSecret, Read, Put, Get, RotateOk, RotateFails, FromBytes, CallbackReturns,
         PasswordReturns, Rust, At
<1>2. QED
  BY <1>1, MovesReturn DEF Back

\* rotate takes the store out of its object; from_bytes, the secret.
LEMMA Takes ==
  ASSUME StackInv, RefInv, TypeOK, NEW t \in Threads, Take(t)
  PROVE  LET c == Current(t) IN
         /\ NoMoreUsed /\ c.at = "lock" /\ Shape(c) /\ c.op \in {"from_bytes", "rotate"}
         /\ c.op = "from_bytes" => Moved(t, [c EXCEPT !.at = "work"])
         /\ c.op = "rotate" => /\ store[c.store].inner # None
                               /\ Moved(t, [c EXCEPT !.at = "work", !.taken = store[c.store].inner])
<1> DEFINE c == Current(t)
<1>1. stack[t] # <<>> /\ c.at = "lock" /\ c = Top(t) /\ Shape(c)
  BY AtIs DEF Take, Rust
<1>2. c.taken = None /\ c.op \in {"from_bytes", "rotate"} /\ IsSome(First(c))
  BY <1>1 DEF Shape, Take
<1>3. CASE c.op = "from_bytes"
  <2>1. GoesTo(t, "work") /\ "work" \in Places
    BY <1>1, <1>3 DEF Take, Places
  <2>2. MovedTo(t, "work")
    BY <1>1, <1>2, <1>3, <2>1, MovesTo DEF MovedTo
  <2>3. QED
    BY <1>1, <1>2, <1>3, <2>2 DEF MovedTo
<1>4. CASE c.op = "rotate"
  <2> DEFINE d == [c EXCEPT !.at = "work", !.taken = store[c.store].inner]
  <2>1. c.store \in Stores /\ First(c) = c.store
    BY <1>1, <1>4 DEF Shape, First, OnStore
  <2>2. store[c.store].inner # None /\ store[c.store].inner \in Inner
    BY <1>2, <2>1 DEF IsSome, TypeOK
  <2>3. Shape(d)
    BY <1>1, <1>4, <2>2 DEF Shape, Calls, Places
  <2>4. Used(d) = Used(c)
    BY <1>1 DEF Used, Shape, Calls
  <2>5. stack' = [stack EXCEPT ![t] = Append(Bottom(t), d)]
    BY <1>1, <1>4 DEF Take
  <2> HIDE DEF d
  <2>6. Moved(t, d) /\ NoMoreUsed
    BY <1>1, <2>3, <2>4, <2>5, MovesTurn
  <2>7. QED
    BY <1>1, <1>2, <1>4, <2>2, <2>6 DEF d
<1>5. QED
  BY <1>2, <1>3, <1>4

\* The calls that Python makes.
Enters(t) == CallBuf(t) \/ CallPut(t) \/ CallGet(t) \/ CallRotate(t) \/ CallPassword(t)
LEMMA Entered ==
  ASSUME StackInv, RefInv, NEW t \in Threads, Enters(t)
  PROVE  \E c : /\ Shape(c) /\ Enter(t, c) /\ c.at \in {"lock", "detach"} /\ c.taken = None
                /\ Used(c) \subseteq named \cup {None}
                /\ Moved(t, c) /\ \A d \in Underway' : d = c \/ d \in Underway
<1>1. \E c : /\ Shape(c) /\ Enter(t, c) /\ c.at \in {"lock", "detach"} /\ c.taken = None
             /\ Used(c) \subseteq named \cup {None}
  <2> USE DEF NoCall, Shape, Calls, Places, OnBuf, OnStore, Used
  <2>1. CASE CallBuf(t)
    <3>1. PICK op \in OnBuf, b \in named \cap Bufs : Enter(t, [NoCall EXCEPT !.op = op, !.buf = b])
      BY <2>1 DEF CallBuf
    <3> WITNESS [NoCall EXCEPT !.op = op, !.buf = b]
    <3>2. QED
      BY <3>1
  <2>2. CASE CallPut(t)
    <3>1. PICK s \in named \cap Stores, b \in named \cap Bufs :
            Enter(t, [NoCall EXCEPT !.op = "put", !.store = s, !.buf = b])
      BY <2>2 DEF CallPut
    <3> WITNESS [NoCall EXCEPT !.op = "put", !.store = s, !.buf = b]
    <3>2. QED
      BY <3>1
  <2>3. CASE CallGet(t)
    <3>1. PICK s \in named \cap Stores : Enter(t, [NoCall EXCEPT !.op = "get", !.store = s])
      BY <2>3 DEF CallGet
    <3> WITNESS [NoCall EXCEPT !.op = "get", !.store = s]
    <3>2. QED
      BY <3>1
  <2>4. CASE CallRotate(t)
    <3>1. PICK s \in named \cap Stores, m \in named \cap Masters :
            Enter(t, [NoCall EXCEPT !.op = "rotate", !.store = s, !.master = m])
      BY <2>4 DEF CallRotate
    <3> WITNESS [NoCall EXCEPT !.op = "rotate", !.store = s, !.master = m]
    <3>2. QED
      BY <3>1
  <2>5. CASE CallPassword(t)
    <3>1. Enter(t, [NoCall EXCEPT !.op = "password", !.at = "detach"])
      BY <2>5 DEF CallPassword
    <3> WITNESS [NoCall EXCEPT !.op = "password", !.at = "detach"]
    <3>2. QED
      BY <3>1
  <2>6. QED
    BY <2>1, <2>2, <2>3, <2>4, <2>5 DEF Enters
<1>2. QED
  BY <1>1, MovesEnter

-----------------------------------------------------------------------------
\* What the calls hold.

\* A call that relies on what is in its store's object.
Relies(c) == c.taken # None \/ (c.at \in {"secret", "work"} /\ c.op \in {"put", "get"})

LEMMA ReliesOnObject ==
  ASSUME StackInv, RefInv, NEW u \in Threads, Relies(Current(u))
  PROVE  LET s == Current(u).store IN s \in Stores /\ store[s].object /\ s \notin Garbage
<1> DEFINE c == Current(u)
<1>1. stack[u] # <<>>
  BY DEF Relies, Current, Idle, NoCall
<1>2. Shape(c) /\ c \in Underway
  BY <1>1, CurrentShape DEF Underway
<1>3. c.op \in OnStore
  BY <1>2 DEF Shape, Relies, OnStore
<1>4. c.store \in Stores
  BY <1>2, <1>3 DEF Shape
<1>5. c.store \in Objects /\ c.store \in Refs
  BY <1>2, <1>4, NoneAssumption DEF RefInv, Used, Refs
<1>6. store[c.store].object
  BY <1>4, <1>5, PlacesAssumption DEF Objects
<1>7. QED
  BY <1>4, <1>5, <1>6 DEF Garbage

LEMMA FirstIs ==
  ASSUME NEW c, Shape(c), c.at \in {"lock", "secret", "work"}
  PROVE  First(c) \in Bufs \cup Stores
<1>1. c.op # "password" /\ c.op \in OnBuf \cup OnStore
  BY DEF Shape, Calls
<1>2. QED
  BY <1>1 DEF Shape, First, OnBuf, OnStore

LEMMA NoMutex ==
  ASSUME MutexInv, NEW t \in Threads,
         Current(t).at \notin {"secret", "work"} \/ Current(t).op \in {"from_bytes", "rotate"}
  PROVE  \A o \in Bufs \cup Stores : mutex[o] # t
BY NoneAssumption DEF MutexInv, MutexOf

LEMMA CallKept ==
  ASSUME TypeOK, StackInv, CallInv, MutexInv, NEW t \in Threads, NEW c, Moved(t, c), Has(t, c)',
         \A u \in Threads \ {t} : u \in attached' <=> u \in attached,
         \A u \in Threads \ {t} : Relies(Current(u)) => store'[Current(u).store] = store[Current(u).store],
         \A o \in Bufs \cup Stores : \/ mutex'[o] = mutex[o] /\ mutex[o] # t
                                     \/ mutex'[o] = t /\ MutexOf(o, c) /\ mutex[o] \in {t, None}
                                     \/ mutex'[o] = None /\ mutex[o] = t
  PROVE  CallInv' /\ MutexInv'
<1>1. ASSUME NEW u \in Threads \ {t}
      PROVE  Has(u, Current(u))'
  <2> DEFINE d == Current(u)
  <2>1. d' = d /\ Has(u, d)
    BY <1>1 DEF Moved, CallInv
  <2>2. d.at \in {"secret", "work"} => First(d) \in Bufs \cup Stores
    <3>1. d.at \in {"secret", "work"} => stack[u] # <<>>
      BY DEF Current, Idle, NoCall
    <3>2. QED
      BY <3>1, CurrentShape, FirstIs
  <2>3. d.at \in {"secret", "work"} /\ mutex[First(d)] = u => mutex'[First(d)] = u
    BY <2>2, NoneAssumption
  <2>4. Relies(d) => store'[d.store] = store[d.store]
    BY <1>1
  <2> HIDE DEF d
  <2>5. Has(u, d)'
    BY <1>1, <2>1, <2>3, <2>4 DEF Has, First, Relies
  <2>6. QED
    BY <2>5 DEF d
<1>2. CallInv'
  BY <1>1 DEF CallInv, Moved
<1>3. ASSUME NEW o \in Bufs \cup Stores, mutex'[o] # None
      PROVE  MutexOf(o, Current(mutex[o]))'
  <2>1. CASE mutex'[o] = t
    BY <2>1, <1>3, NoneAssumption DEF Moved, MutexOf, First
  <2>2. CASE mutex'[o] # t
    <3>1. mutex'[o] = mutex[o] /\ mutex[o] \in Threads \ {t}
      BY <1>3, <2>2 DEF TypeOK
    <3>2. Current(mutex[o])' = Current(mutex[o])
      BY <3>1 DEF Moved
    <3>3. MutexOf(o, Current(mutex[o]))
      BY <1>3, <3>1 DEF MutexInv
    <3>4. QED
      BY <3>1, <3>2, <3>3 DEF MutexOf, First
  <2>3. QED
    BY <2>1, <2>2
<1>4. QED
  BY <1>2, <1>3 DEF MutexInv

\* A new store's place is nobody's, so no call relies on it.
LEMMA StoresKept ==
  ASSUME TypeOK, StackInv, RefInv, NEW i, NEW m, MakesStore(i, m) \/ UNCHANGED store
  PROVE  \A u \in Threads : Relies(Current(u)) => store'[Current(u).store] = store[Current(u).store]
<1>1. FreeStores # {} => Place(FreeStores) \in FreeStores
  BY DEF Place
<1>2. QED
  BY <1>1, ReliesOnObject DEF MakesStore, FreeStores, TypeOK

\* A thread that returns or goes to its callback, and lets go of its mutexes.
LEMMA CallsReturn ==
  ASSUME TypeOK, StackInv, CallInv, MutexInv, NEW t \in Threads, NEW c, Moved(t, c),
         c.at = "callback", c.taken = None, UNCHANGED attached,
         Unlocks(t) \/ (UNCHANGED mutex /\ \A o \in Bufs \cup Stores : mutex[o] # t),
         \A u \in Threads : Relies(Current(u)) => store'[Current(u).store] = store[Current(u).store]
  PROVE  CallInv' /\ MutexInv'
<1>1. Has(t, c)'
  BY DEF Has
<1>2. DOMAIN mutex = Bufs \cup Stores
  BY DEF TypeOK
<1>3. \A o \in Bufs \cup Stores : \/ mutex'[o] = mutex[o] /\ mutex[o] # t
                                  \/ mutex'[o] = None /\ mutex[o] = t
  BY <1>2 DEF Unlocks
<1>4. QED
  BY <1>1, <1>3, CallKept

\* A thread in Python has the interpreter, and no mutex.
LEMMA InPythonHas ==
  ASSUME StackInv, NEW t \in Threads, InPython(t)
  PROVE  Current(t).at = "callback" /\ Current(t).taken = None
<1>1. CASE stack[t] = <<>>
  BY <1>1 DEF Current, Idle, NoCall
<1>2. CASE At(t, "callback")
  BY <1>2, AtIs DEF Shape
<1>3. QED
  BY <1>1, <1>2 DEF InPython

LEMMA RustCalls ==
  ASSUME TypeOK, StackInv, CallInv, MutexInv, RefInv, NEW t \in Threads, RustStep(t)
  PROVE  CallInv' /\ MutexInv'
<1> DEFINE c == Current(t)
<1> USE NoneAssumption
<1>1. Has(t, c)
  BY DEF CallInv
<1>2. CASE Lock(t)
  <2> DEFINE p == IF c.op = "put" THEN "secret" ELSE "work"
             f == First(c)
  <2>0. PICK d : d = [c EXCEPT !.at = p]
    OBVIOUS
  <2>1. Moved(t, d)
    BY <1>2, <2>0, Turns DEF MovedTo
  <2>2. /\ c.at = "lock" /\ Shape(c) /\ c.op \notin {"from_bytes", "rotate"}
        /\ mutex[f] = None /\ IsSome(f) /\ mutex' = [mutex EXCEPT ![f] = t]
        /\ UNCHANGED <<attached, store>>
    BY <1>2, AtIs DEF Lock, Rust
  <2>3. f \in Bufs \cup Stores /\ \A o \in Bufs \cup Stores : mutex[o] # t
    BY <2>2, FirstIs, NoMutex
  <2>4. /\ d.at \in {"secret", "work"} /\ d.op = c.op /\ d.store = c.store /\ d.buf = c.buf
        /\ d.taken = None
    BY <2>0, <2>2 DEF Shape, Calls
  <2>5. First(d) = f
    BY <2>4 DEF First
  <2>6. d.op \in {"put", "get"} => store[d.store].inner # None
    <3>1. c.op \in {"put", "get"} => f = c.store /\ c.store \in Stores
      BY <2>2 DEF First, OnStore, Shape
    <3>2. QED
      BY <2>2, <2>4, <3>1 DEF IsSome
  <2> HIDE DEF f
  <2>7. mutex'[f] = t /\ \A o \in Bufs \cup Stores : o # f => mutex'[o] = mutex[o]
    BY <2>2, <2>3 DEF TypeOK
  <2>8. Has(t, d)'
    <3>1. t \in attached
      BY <1>1, <2>2 DEF Has
    <3>2. QED
      BY <2>2, <2>4, <2>5, <2>6, <2>7, <3>1 DEF Has, First
  <2>9. \A o \in Bufs \cup Stores : \/ mutex'[o] = mutex[o] /\ mutex[o] # t
                                    \/ mutex'[o] = t /\ MutexOf(o, d) /\ mutex[o] \in {t, None}
    <3>1. MutexOf(f, d)
      BY <2>2, <2>4, <2>5 DEF MutexOf
    <3>2. QED
      BY <2>2, <2>3, <2>7, <3>1
  <2>10. QED
    BY <2>1, <2>2, <2>8, <2>9, CallKept
<1>3. CASE FindsNothing(t)
  <2>1. PICK d : Moved(t, d) /\ d.at = "callback" /\ d.taken = None
    BY <1>3, Backs DEF Back
  <2>2. c.at = "lock" /\ UNCHANGED <<attached, mutex, store>>
    BY <1>3, AtIs DEF FindsNothing, Rust
  <2>3. QED
    BY <2>1, <2>2, NoMutex, CallsReturn
<1>4. CASE Take(t)
  <2>1. /\ c.at = "lock" /\ Shape(c) /\ c.op \in {"from_bytes", "rotate"}
        /\ c.op = "from_bytes" => Moved(t, [c EXCEPT !.at = "work"])
        /\ c.op = "rotate" => /\ store[c.store].inner # None
                              /\ Moved(t, [c EXCEPT !.at = "work", !.taken = store[c.store].inner])
    BY <1>4, Takes
  <2>2. /\ c = Top(t) /\ UNCHANGED <<attached, mutex>> /\ mutex[First(c)] = None
        /\ c.op = "from_bytes" => UNCHANGED store
        /\ c.op = "rotate" => store' = [store EXCEPT ![c.store].inner = None]
    BY <1>4, AtIs DEF Take, Rust
  <2>3. t \in attached /\ \A o \in Bufs \cup Stores : mutex[o] # t
    BY <1>1, <2>1, NoMutex DEF Has
  <2>4. CASE c.op = "from_bytes"
    <3>0. PICK d : d = [c EXCEPT !.at = "work"]
      OBVIOUS
    <3>1. d.at = "work" /\ d.op = "from_bytes" /\ d.taken = None
      BY <2>1, <2>4, <3>0 DEF Shape, Calls
    <3>2. Moved(t, d)
      BY <2>1, <2>4, <3>0
    <3>3. Has(t, d)'
      BY <2>2, <2>3, <3>1 DEF Has
    <3>4. QED
      BY <2>2, <2>3, <2>4, <3>2, <3>3, CallKept
  <2>5. CASE c.op = "rotate"
    <3>0. PICK s, d : s = c.store /\ d = [c EXCEPT !.at = "work", !.taken = store[s].inner]
      OBVIOUS
    <3>1. s \in Stores /\ First(c) = s
      BY <2>1, <2>5, <3>0 DEF Shape, OnStore, First
    <3>2. d.at = "work" /\ d.op = "rotate" /\ d.taken = store[s].inner /\ d.store = s
      BY <2>1, <2>5, <3>0 DEF Shape, Calls
    <3>3. store[s].inner # None /\ Moved(t, d)
      BY <2>1, <2>5, <3>0
    <3>4. /\ store[s].object /\ store[s].inner.key = store[s].master
          /\ store[s] = [object |-> store[s].object, inner |-> store[s].inner, master |-> store[s].master]
      BY <3>1, <3>3 DEF RefInv, StoreSound, NoStore, TypeOK
    <3>5. store'[s] = [object |-> TRUE, inner |-> None, master |-> store[s].inner.key]
      <4>1. store[s].object \in BOOLEAN /\ store'[s] = [store[s] EXCEPT !.inner = None]
        BY <2>2, <2>5, <3>0, <3>1 DEF TypeOK
      <4>2. QED
        BY <3>4, <4>1
    <3>6. \A u \in Threads \ {t} : Relies(Current(u)) => store'[Current(u).store] = store[Current(u).store]
      <4>1. ASSUME NEW u \in Threads \ {t}, Relies(Current(u))
            PROVE  Current(u).store # s /\ Current(u).store \in Stores
        <5>1. Current(u).store \in Stores /\ stack[u] # <<>>
          BY <4>1, ReliesOnObject DEF Relies, Current, Idle, NoCall
        <5>2. Has(u, Current(u))
          BY DEF CallInv
        <5>3. CASE Current(u).taken # None
          BY <3>3, <5>1, <5>2, <5>3 DEF Has
        <5>4. CASE Current(u).taken = None
          <6>1. mutex[Current(u).store] = u
            BY <4>1, <5>2, <5>4 DEF Has, Relies, First, OnStore
          <6>2. QED
            BY <2>2, <3>1, <5>1, <6>1
        <5>5. QED
          BY <5>3, <5>4
      <4>2. QED
        BY <2>2, <2>5, <3>0, <4>1 DEF TypeOK
    <3>7. Has(t, d)'
      BY <2>2, <2>3, <3>2, <3>5 DEF Has
    <3>8. QED
      BY <2>2, <2>3, <3>3, <3>6, <3>7, CallKept
  <2>6. QED
    BY <2>1, <2>4, <2>5
<1>5. CASE LockSecret(t) /\ buf[c.buf] = "secret"
  <2>0. PICK d : d = [c EXCEPT !.at = "work"]
    OBVIOUS
  <2>1. Moved(t, d)
    BY <1>5, <2>0, Turns DEF MovedTo
  <2>2. /\ c.at = "secret" /\ Shape(c) /\ mutex[c.buf] = None /\ mutex' = [mutex EXCEPT ![c.buf] = t]
        /\ UNCHANGED <<attached, store>>
    BY <1>5, AtIs DEF LockSecret, Rust
  <2>3. c.op = "put" /\ c.buf \in Bufs /\ c.taken = None /\ First(c) = c.store
    BY <2>2 DEF Shape, First, OnStore
  <2>4. d.at = "work" /\ d.op = "put" /\ d.taken = None /\ d.buf = c.buf /\ d.store = c.store
        /\ First(d) = c.store
    BY <2>0, <2>2, <2>3 DEF Shape, Calls, First, OnStore
  <2>5. t \in attached /\ mutex[c.store] = t /\ store[c.store].inner # None
    BY <1>1, <2>2, <2>3 DEF Has
  <2>6. \A o \in Bufs \cup Stores : mutex[o] = t => o = c.store
    BY <2>2, <2>3 DEF MutexInv, MutexOf
  <2>7. mutex'[c.buf] = t /\ \A o \in Bufs \cup Stores : o # c.buf => mutex'[o] = mutex[o]
    BY <2>2, <2>3 DEF TypeOK
  <2>8. Has(t, d)'
    <3>1. mutex'[c.store] = t
      <4>1. c.store \in Bufs \cup Stores
        BY <2>2, <2>3 DEF Shape, OnStore
      <4>2. QED
        BY <2>5, <2>7, <4>1
    <3>2. QED
      BY <2>2, <2>4, <2>5, <3>1 DEF Has, First
  <2>9. \A o \in Bufs \cup Stores : \/ mutex'[o] = mutex[o] /\ mutex[o] # t
                                    \/ mutex'[o] = t /\ MutexOf(o, d) /\ mutex[o] \in {t, None}
    <3>1. MutexOf(c.buf, d) /\ MutexOf(c.store, d)
      BY <2>4 DEF MutexOf
    <3>2. QED
      BY <2>2, <2>6, <2>7, <3>1
  <2>10. QED
    BY <2>1, <2>2, <2>8, <2>9, CallKept
<1>6. CASE LockSecret(t) /\ buf[c.buf] # "secret"
  <2>1. PICK d : Moved(t, d) /\ d.at = "callback" /\ d.taken = None
    BY <1>6, Backs DEF Back
  <2>2. Unlocks(t) /\ UNCHANGED <<attached, store>>
    BY <1>6, AtIs DEF LockSecret, Rust
  <2>3. QED
    BY <2>1, <2>2, CallsReturn
<1>7. CASE Read(t) \/ Put(t) \/ Get(t)
  <2>1. PICK d : Moved(t, d) /\ d.at = "callback" /\ d.taken = None
    BY <1>7, Backs DEF Back
  <2>2. Unlocks(t) /\ UNCHANGED <<attached, store>>
    BY <1>7 DEF Read, Put, Get
  <2>3. QED
    BY <2>1, <2>2, CallsReturn
<1>8. CASE CopyOut(t)
  <2>0. PICK d : d = [c EXCEPT !.at = "callback"]
    OBVIOUS
  <2>1. Moved(t, d)
    BY <1>8, <2>0, Turns DEF MovedTo
  <2>2. Unlocks(t) /\ UNCHANGED <<attached, store>>
    BY <1>8 DEF CopyOut
  <2>3. c.op = "expose" /\ Shape(c)
    BY <1>8, AtIs DEF CopyOut, Rust
  <2>4. d.at = "callback" /\ d.taken = None
    BY <2>0, <2>3 DEF Shape, Calls
  <2>5. QED
    BY <2>1, <2>2, <2>4, CallsReturn
<1>9. CASE RotateOk(t) \/ RotateFails(t) \/ FromBytes(t)
  <2>1. PICK d : Moved(t, d) /\ d.at = "callback" /\ d.taken = None
    BY <1>9, Backs DEF Back
  <2>2. c.op \in {"rotate", "from_bytes"} /\ UNCHANGED <<attached, mutex>>
    BY <1>9, AtIs DEF RotateOk, RotateFails, FromBytes, Rust
  <2>3. \E i, m : MakesStore(i, m) \/ UNCHANGED store
    BY <1>9 DEF RotateOk, RotateFails, FromBytes
  <2>4. QED
    BY <2>1, <2>2, <2>3, NoMutex, StoresKept, CallsReturn
<1>10. CASE DetachToHash(t) \/ Hashed(t)
  <2>1. PICK p \in {"hash", "attach"} : Moved(t, [c EXCEPT !.at = p]) /\ (p = "hash" => t \notin attached')
    BY <1>10, Turns DEF MovedTo, DetachToHash, Hashed
  <2>0. PICK d : d = [c EXCEPT !.at = p]
    OBVIOUS
  <2>2. Shape(c) /\ c.at \in {"detach", "hash"}
    BY <1>10, AtIs DEF DetachToHash, Hashed, Rust
  <2>3. d.at = p /\ d.taken = None
    BY <2>0, <2>2 DEF Shape, Calls
  <2>4. UNCHANGED <<mutex, store>> /\ \A u \in Threads \ {t} : u \in attached' <=> u \in attached
    BY <1>10 DEF DetachToHash, Hashed
  <2>5. Has(t, d)'
    BY <2>1, <2>3 DEF Has
  <2>6. \A o \in Bufs \cup Stores : mutex[o] # t
    BY <2>2, NoMutex
  <2>7. Moved(t, d)
    BY <2>0, <2>1
  <2>8. QED
    BY <2>4, <2>5, <2>6, <2>7, CallKept
<1>11. CASE PasswordReturns(t)
  <2>1. PICK d : Moved(t, d) /\ d.at = "callback" /\ d.taken = None
    BY <1>11, Backs DEF Back
  <2>2. c.at = "attach" /\ UNCHANGED <<attached, mutex, store>>
    BY <1>11, AtIs DEF PasswordReturns, Rust
  <2>3. QED
    BY <2>1, <2>2, NoMutex, CallsReturn
<1>12. QED
  BY <1>2, <1>3, <1>4, <1>5, <1>6, <1>7, <1>8, <1>9, <1>10, <1>11 DEF RustStep

\* What is in Python, or being deallocated, disturbs no call.
LEMMA OtherCalls ==
  ASSUME TypeOK, StackInv, CallInv, MutexInv, RefInv,
         (\E t \in Threads : Attach(t) \/ PythonStep(t)) \/ DropInner \/ Free \/ UNCHANGED vars
  PROVE  CallInv' /\ MutexInv'
<1> USE NoneAssumption
<1>1. ASSUME UNCHANGED <<stack, mutex, attached>>,
             \A u \in Threads : Relies(Current(u)) => store'[Current(u).store] = store[Current(u).store]
      PROVE  CallInv' /\ MutexInv'
  <2>1. \A u : Current(u)' = Current(u)
    BY <1>1 DEF Current, Top
  <2>2. ASSUME NEW u \in Threads PROVE Has(u, Current(u))'
    <3> DEFINE d == Current(u)
    <3>1. Has(u, d) /\ d' = d /\ (Relies(d) => store'[d.store] = store[d.store])
      BY <1>1, <2>1 DEF CallInv
    <3> HIDE DEF d
    <3>2. QED
      BY <1>1, <3>1 DEF Has, First, Relies, d
  <2>3. MutexInv'
    BY <1>1, <2>1 DEF MutexInv, MutexOf, First
  <2>4. QED
    BY <2>2, <2>3 DEF CallInv
<1>2. ASSUME NEW t \in Threads, InPython(t) \/ At(t, "attach"), UNCHANGED <<stack, mutex, store>>,
             \A u \in Threads \ {t} : u \in attached' <=> u \in attached
      PROVE  CallInv' /\ MutexInv'
  <2>1. PICK c : c = Current(t)
    OBVIOUS
  <2>2. Moved(t, c)
    BY <1>2, <2>1, Stays DEF Moved
  <2>3. c.at \in {"callback", "attach"} /\ c.taken = None
    BY <1>2, <2>1, InPythonHas, AtIs DEF Shape
  <2>4. Has(t, c)'
    BY <2>3 DEF Has
  <2>5. \A o \in Bufs \cup Stores : mutex[o] # t
    BY <2>1, <2>3, NoMutex
  <2>6. QED
    BY <1>2, <2>2, <2>4, <2>5, CallKept
<1>3. ASSUME NEW t \in Threads, Attach(t) \/ Detach(t) \/ Del(t)
      PROVE  CallInv' /\ MutexInv'
  BY <1>2, <1>3 DEF Attach, Detach, Del, Python
<1>4. ASSUME NEW t \in Threads, NewSecret(t) \/ FromSecretFile(t) \/ OpenStore(t) \/ OpenFails(t)
      PROVE  CallInv' /\ MutexInv'
  <2>1. UNCHANGED <<stack, mutex, attached>> /\ \E i, m : MakesStore(i, m) \/ UNCHANGED store
    BY <1>4 DEF NewSecret, FromSecretFile, OpenStore, OpenFails
  <2>2. QED
    BY <1>1, <2>1, StoresKept
<1>5. ASSUME NEW t \in Threads, Enters(t)
      PROVE  CallInv' /\ MutexInv'
  <2>1. PICK c : /\ Enter(t, c) /\ c.at \in {"lock", "detach"} /\ c.taken = None /\ Moved(t, c)
    BY <1>5, Entered
  <2>2. t \in attached /\ InPython(t) /\ UNCHANGED <<attached, mutex, store>>
    BY <2>1 DEF Enter, Python
  <2>3. Has(t, c)'
    BY <2>1, <2>2 DEF Has
  <2>4. \A o \in Bufs \cup Stores : mutex[o] # t
    BY <2>2, InPythonHas, NoMutex
  <2>5. QED
    BY <2>1, <2>2, <2>3, <2>4, CallKept
<1>6. ASSUME NEW t \in Threads, CallbackReturns(t)
      PROVE  CallInv' /\ MutexInv'
  <2>1. PICK d : Moved(t, d) /\ d.at = "callback" /\ d.taken = None
    BY <1>6, Backs DEF Back
  <2>2. UNCHANGED <<attached, mutex, store>> /\ InPython(t)
    BY <1>6 DEF CallbackReturns, Python
  <2>3. \A o \in Bufs \cup Stores : mutex[o] # t
    BY <2>2, InPythonHas, NoMutex
  <2>4. QED
    BY <2>1, <2>2, <2>3, CallsReturn
<1>7. CASE DropInner \/ Free
  <2>1. UNCHANGED <<stack, mutex, attached>> /\ \A s \in Stores \ Garbage : store'[s] = store[s]
    BY <1>7 DEF DropInner, Free, TypeOK
  <2>2. QED
    BY <1>1, <2>1, ReliesOnObject
<1>8. CASE UNCHANGED vars
  BY <1>1, <1>8 DEF vars
<1>9. QED
  BY <1>3, <1>4, <1>5, <1>6, <1>7, <1>8 DEF PythonStep, Enters

LEMMA CallStep ==
  ASSUME TypeOK, StackInv, CallInv, MutexInv, RefInv, [Next]_vars
  PROVE  CallInv' /\ MutexInv'
BY RustCalls, OtherCalls DEF Next

\* The stacks keep their shape.
LEMMA StackStep ==
  ASSUME TypeOK, StackInv, RefInv, [Next]_vars
  PROVE  StackInv'
<1>1. ASSUME NEW t \in Threads, RustStep(t) PROVE StackInv'
  <2>1. CASE Take(t)
    BY <2>1, Takes DEF Moved
  <2>2. CASE Lock(t) \/ CopyOut(t) \/ DetachToHash(t) \/ Hashed(t)
    BY <1>1, <2>2, Turns DEF MovedTo, Moved
  <2>3. CASE LockSecret(t) /\ buf[Current(t).buf] = "secret"
    BY <2>3, Turns DEF MovedTo, Moved
  <2>4. CASE ~(Take(t) \/ Lock(t) \/ CopyOut(t) \/ DetachToHash(t) \/ Hashed(t)
               \/ (LockSecret(t) /\ buf[Current(t).buf] = "secret"))
    <3>1. Back(t)
      BY <1>1, <2>4, Backs DEF RustStep
    <3>2. QED
      BY <3>1 DEF Back, Moved
  <2>5. QED
    BY <2>1, <2>2, <2>3, <2>4
<1>2. ASSUME NEW t \in Threads, PythonStep(t) PROVE StackInv'
  <2>1. CASE Enters(t)
    BY <2>1, Entered DEF Moved
  <2>2. CASE CallbackReturns(t)
    BY <2>2, Backs DEF Back, Moved
  <2>3. CASE ~Enters(t) /\ ~CallbackReturns(t)
    <3>1. UNCHANGED stack
      BY <1>2, <2>3 DEF PythonStep, Enters, Detach, Del, NewSecret, FromSecretFile, OpenStore,
         OpenFails
    <3>2. QED
      BY <3>1, Stays
  <2>4. QED
    BY <2>1, <2>2, <2>3
<1>3. CASE (\E t \in Threads : Attach(t)) \/ DropInner \/ Free \/ UNCHANGED vars
  <2>1. UNCHANGED stack
    BY <1>3 DEF Attach, DropInner, Free, vars
  <2>2. QED
    BY <2>1, Stays
<1>4. QED
  BY <1>1, <1>2, <1>3 DEF Next

-----------------------------------------------------------------------------
\* What refers to what.

\* A file that is there after an open has a header of some generation.
LEMMA OpenedType ==
  ASSUME TypeOK, NEW p \in Paths
  PROVE  Opened(p) \in 1..MaxGen
BY BoundsAssumption DEF TypeOK, Opened

\* The objects a thread's step makes, consumes or gives a name.
LEMMA ThreadData ==
  ASSUME TypeOK, StackInv, NEW t \in Threads, PythonStep(t) \/ RustStep(t)
  PROVE  /\ MakesBuf \/ UNCHANGED buf \/ \E b : buf' = [buf EXCEPT ![b] = "consumed"]
         /\ MakesMaster \/ UNCHANGED master
         /\ \/ UNCHANGED store
            \/ \E i \in Inner : MakesStore(i, i.key) /\ i.key \in Refs
            \/ \E s : store' = [store EXCEPT ![s].inner = None]
         /\ \/ named' \subseteq named \/ MakesBuf \/ MakesMaster
            \/ \E i \in Inner : MakesStore(i, i.key)
<1>1. CASE Detach(t) \/ Del(t) \/ NewSecret(t) \/ FromSecretFile(t) \/ OpenFails(t)
  BY <1>1 DEF Detach, Del, NewSecret, FromSecretFile, OpenFails
<1>2. CASE OpenStore(t)
  <2>1. PICK p \in Paths, m \in named \cap Masters :
          MakesStore([path |-> p, key |-> m, gen |-> Opened(p)], m)
    BY <1>2 DEF OpenStore
  <2>2. PICK i \in Inner : i = [path |-> p, key |-> m, gen |-> Opened(p)]
    <3>1. Opened(p) \in 1..MaxGen
      BY OpenedType
    <3>2. QED
      BY <3>1 DEF Inner
  <2>3. MakesStore(i, i.key) /\ i.key \in Refs
    BY <2>1, <2>2 DEF Refs
  <2>4. UNCHANGED <<buf, master>>
    BY <1>2 DEF OpenStore
  <2>5. QED
    BY <2>3, <2>4
<1>3. CASE Enters(t) \/ CallbackReturns(t)
  BY <1>3 DEF Enters, CallBuf, CallPut, CallGet, CallRotate, CallPassword, Enter, CallbackReturns
<1>4. CASE Lock(t) \/ FindsNothing(t) \/ LockSecret(t) \/ CopyOut(t) \/ DetachToHash(t) \/ Hashed(t)
  BY <1>4 DEF Lock, FindsNothing, LockSecret, CopyOut, DetachToHash, Hashed
<1>5. CASE Take(t)
  BY <1>5 DEF Take
<1>6. CASE Read(t) \/ Put(t) \/ Get(t) \/ PasswordReturns(t)
  BY <1>6 DEF Read, Put, Get, PasswordReturns
<1>7. CASE RotateFails(t) \/ FromBytes(t)
  BY <1>7 DEF RotateFails, FromBytes
<1>8. CASE RotateOk(t)
  <2>1. /\ Shape(Current(t)) /\ Current(t) = Top(t) /\ Current(t) \in Underway
        /\ Current(t).at = "work" /\ Current(t).op = "rotate"
    BY <1>8, AtIs DEF RotateOk, Rust
  <2>2. Top(t).taken \in Inner /\ Top(t).master \in Masters /\ Top(t).master \in Refs
    BY <2>1 DEF Shape, Calls, Refs, Used
  <2>3. PICK i \in Inner : i = [path |-> Top(t).taken.path, key |-> Top(t).master,
                                gen |-> generation[Top(t).taken.path] + 1]
    <3>1. Renews(Top(t).taken) /\ Top(t).taken.path \in Paths
      BY <1>8, <2>2 DEF RotateOk, Inner
    <3>2. generation[Top(t).taken.path] + 1 \in 1..MaxGen
      BY <3>1, BoundsAssumption DEF Renews, TypeOK
    <3>3. QED
      BY <2>2, <3>1, <3>2 DEF Inner
  <2>4. MakesStore(i, i.key) /\ i.key \in Refs
    BY <1>8, <2>2, <2>3 DEF RotateOk
  <2>5. UNCHANGED <<buf, master>>
    BY <1>8 DEF RotateOk
  <2>6. QED
    BY <2>4, <2>5
<1>9. QED
  BY <1>1, <1>2, <1>3, <1>4, <1>5, <1>6, <1>7, <1>8 DEF PythonStep, RustStep, Enters

\* What is referred to stays, and a key stays the same.
LEMMA ReferredStays ==
  ASSUME TypeOK, StackInv, [Next]_vars
  PROVE  /\ \A o \in Objects \cap Refs : o \in Objects'
         /\ \A m \in Masters : master[m] # NoMaster /\ m \in Refs => master'[m] = master[m]
<1>1. /\ FreeBufs # {} => Place(FreeBufs) \in FreeBufs
      /\ FreeMasters # {} => Place(FreeMasters) \in FreeMasters
      /\ FreeStores # {} => Place(FreeStores) \in FreeStores
  BY DEF Place
<1> DEFINE StepOn == \/ \E t \in Threads : PythonStep(t) \/ RustStep(t)
                     \/ (\E t \in Threads : Attach(t)) \/ DropInner \/ Free \/ UNCHANGED vars
<1>2. StepOn
  BY DEF Next
<1>3. ASSUME NEW b \in Bufs, buf[b] # NoBuf, b \in Refs
      PROVE  buf'[b] # NoBuf
  <2>1. CASE \E t \in Threads : PythonStep(t) \/ RustStep(t)
    <3>1. MakesBuf \/ UNCHANGED buf \/ \E x : buf' = [buf EXCEPT ![x] = "consumed"]
      BY <2>1, ThreadData
    <3>2. NoBuf # "consumed" /\ NoBuf # "secret"
      BY DEF NoBuf
    <3>3. QED
      BY <1>1, <1>3, <3>1, <3>2 DEF MakesBuf, FreeBufs, TypeOK
  <2>2. CASE (\E t \in Threads : Attach(t)) \/ DropInner \/ Free \/ UNCHANGED vars
    BY <1>3, <2>2 DEF Attach, DropInner, Free, vars, Garbage, TypeOK
  <2>3. QED
    BY <1>2, <2>1, <2>2
<1>4. ASSUME NEW m \in Masters, master[m] # NoMaster, m \in Refs
      PROVE  master'[m] = master[m]
  <2>1. CASE \E t \in Threads : PythonStep(t) \/ RustStep(t)
    <3>1. MakesMaster \/ UNCHANGED master
      BY <2>1, ThreadData
    <3>2. QED
      BY <1>1, <1>4, <3>1 DEF MakesMaster, FreeMasters, TypeOK
  <2>2. CASE (\E t \in Threads : Attach(t)) \/ DropInner \/ Free \/ UNCHANGED vars
    BY <1>4, <2>2 DEF Attach, DropInner, Free, vars, Garbage, TypeOK
  <2>3. QED
    BY <1>2, <2>1, <2>2
<1>5. ASSUME NEW s \in Stores, store[s].object, s \in Refs
      PROVE  store'[s].object
  <2>1. CASE \E t \in Threads : PythonStep(t) \/ RustStep(t)
    <3>1. \/ UNCHANGED store
          \/ \E i : MakesStore(i, i.key)
          \/ \E x : store' = [store EXCEPT ![x].inner = None]
      BY <2>1, ThreadData
    <3>2. /\ DOMAIN store = Stores
          /\ store[s] \in [object : BOOLEAN, inner : Inner \cup {None}, master : Masters \cup {None}]
      BY DEF TypeOK
    <3>3. ASSUME NEW i, MakesStore(i, i.key) PROVE store'[s].object
      <4>1. s # Place(FreeStores)
        BY <1>1, <1>5, <3>3 DEF MakesStore, FreeStores
      <4>2. QED
        BY <1>5, <3>2, <3>3, <4>1 DEF MakesStore
    <3>4. ASSUME NEW x, store' = [store EXCEPT ![x].inner = None] PROVE store'[s].object
      BY <1>5, <3>2, <3>4
    <3>5. QED
      BY <1>5, <3>1, <3>3, <3>4
  <2>2. CASE (\E t \in Threads : Attach(t)) \/ DropInner \/ Free \/ UNCHANGED vars
    BY <1>5, <2>2 DEF Attach, DropInner, Free, vars, Garbage, TypeOK
  <2>3. QED
    BY <1>2, <2>1, <2>2
<1>6. \A o \in Objects \cap Refs : o \in Objects'
  BY <1>3, <1>4, <1>5 DEF Objects
<1>7. QED
  BY <1>4, <1>6

\* What the calls use was used, or has a name.
LEMMA UsedStep ==
  ASSUME TypeOK, StackInv, RefInv, [Next]_vars
  PROVE  \A d \in Underway' : \/ \E c \in Underway : Used(d) = Used(c)
                              \/ Used(d) \subseteq named \cup {None}
<1>1. ASSUME NEW t \in Threads, RustStep(t) PROVE NoMoreUsed
  <2>1. CASE Take(t)
    BY <2>1, Takes
  <2>2. CASE Lock(t) \/ CopyOut(t) \/ DetachToHash(t) \/ Hashed(t)
    BY <1>1, <2>2, Turns DEF MovedTo
  <2>3. CASE LockSecret(t) /\ buf[Current(t).buf] = "secret"
    BY <2>3, Turns DEF MovedTo
  <2>4. CASE ~(Take(t) \/ Lock(t) \/ CopyOut(t) \/ DetachToHash(t) \/ Hashed(t)
               \/ (LockSecret(t) /\ buf[Current(t).buf] = "secret"))
    BY <1>1, <2>4, Backs DEF RustStep, Back
  <2>5. QED
    BY <2>1, <2>2, <2>3, <2>4
<1>2. ASSUME NEW t \in Threads, Enters(t)
      PROVE  \E c : Used(c) \subseteq named \cup {None} /\ \A d \in Underway' : d = c \/ d \in Underway
  BY <1>2, Entered
<1>3. ASSUME NEW t \in Threads, CallbackReturns(t) PROVE NoMoreUsed
  BY <1>3, Backs DEF Back
<1>4. ASSUME NEW t \in Threads, PythonStep(t), ~Enters(t), ~CallbackReturns(t) PROVE NoMoreUsed
  <2>1. UNCHANGED stack
    BY <1>4 DEF PythonStep, Enters, Detach, Del, NewSecret, FromSecretFile, OpenStore,
         OpenFails
  <2>2. QED
    BY <2>1, Stays DEF NoMoreUsed
<1>5. CASE (\E t \in Threads : Attach(t)) \/ DropInner \/ Free \/ UNCHANGED vars
  <2>1. UNCHANGED stack
    BY <1>5 DEF Attach, DropInner, Free, vars
  <2>2. QED
    BY <2>1, Stays
<1>6. QED
  BY <1>1, <1>2, <1>3, <1>4, <1>5 DEF Next, NoMoreUsed

LEMMA RefStep ==
  ASSUME TypeOK, StackInv, RefInv, [Next]_vars
  PROVE  RefInv'
<1> USE NoneAssumption
<1>1. /\ FreeBufs # {} => Place(FreeBufs) \in FreeBufs
      /\ FreeMasters # {} => Place(FreeMasters) \in FreeMasters
      /\ FreeStores # {} => Place(FreeStores) \in FreeStores
  BY DEF Place
<1>2. named \subseteq Objects'
  BY ReferredStays DEF RefInv, Refs
<1>3. named' \subseteq Objects'
  <2>1. CASE named' \subseteq named
    BY <1>2, <2>1
  <2>2. CASE MakesBuf
    <3>1. Place(FreeBufs) \in Bufs /\ buf'[Place(FreeBufs)] # NoBuf /\ named' = named \cup {Place(FreeBufs)}
      BY <1>1, <2>2 DEF MakesBuf, FreeBufs, TypeOK, NoBuf
    <3>2. Place(FreeBufs) \in Objects'
      BY <3>1 DEF Objects
    <3>3. QED
      BY <1>2, <3>1, <3>2
  <2>3. CASE MakesMaster
    <3>1. /\ Place(FreeMasters) \in Masters /\ master'[Place(FreeMasters)] # NoMaster
          /\ named' = named \cup {Place(FreeMasters)}
      BY <1>1, <2>3 DEF MakesMaster, FreeMasters, TypeOK, NoMaster
    <3>2. Place(FreeMasters) \in Objects'
      BY <3>1 DEF Objects
    <3>3. QED
      BY <1>2, <3>1, <3>2
  <2>4. CASE \E i \in Inner : MakesStore(i, i.key)
    <3>1. /\ Place(FreeStores) \in Stores /\ store'[Place(FreeStores)].object
          /\ named' = named \cup {Place(FreeStores)}
      BY <1>1, <2>4 DEF MakesStore, FreeStores, TypeOK
    <3>2. Place(FreeStores) \in Objects'
      BY <3>1 DEF Objects
    <3>3. QED
      BY <1>2, <3>1, <3>2
  <2>5. CASE (\E t \in Threads : Attach(t)) \/ DropInner \/ Free \/ UNCHANGED vars
    BY <2>1, <2>5 DEF Attach, DropInner, Free, vars
  <2>6. QED
    BY <2>1, <2>2, <2>3, <2>4, <2>5, ThreadData DEF Next
<1>4. ASSUME NEW d \in Underway' PROVE Used(d) \subseteq Objects' \cup {None}
  <2>1. CASE Used(d) \subseteq named \cup {None}
    BY <1>2, <2>1
  <2>2. CASE \E c \in Underway : Used(d) = Used(c)
    <3>1. Used(d) \subseteq Objects \cup {None} /\ Used(d) \subseteq Refs
      BY <2>2 DEF RefInv, Refs
    <3>2. QED
      BY <3>1, ReferredStays
  <2>3. QED
    BY <2>1, <2>2, UsedStep
<1>5. ASSUME NEW s \in Stores PROVE StoreSound(s)'
  <2>1. StoreSound(s) /\ store[s].master \in Refs
    BY DEF RefInv, Refs
  <2>2. ASSUME NEW m \in Masters, master[m] # NoMaster, m \in Refs PROVE master'[m] # NoMaster
    BY <2>2, ReferredStays
  <2>3. CASE store'[s] = store[s]
    BY <2>1, <2>2, <2>3 DEF StoreSound, NoStore
  <2>4. CASE store'[s] = [store[s] EXCEPT !.inner = None]
    <3>1. store[s] \in [object : BOOLEAN, inner : Inner \cup {None}, master : Masters \cup {None}]
      BY DEF TypeOK
    <3>2. /\ store'[s].inner = None /\ store'[s].object = store[s].object
          /\ store'[s].master = store[s].master
          /\ store[s].inner = None => store'[s] = store[s]
      BY <2>4, <3>1
    <3>3. QED
      BY <2>1, <2>2, <3>2 DEF StoreSound, NoStore
  <2>5. CASE \E i \in Inner : MakesStore(i, i.key) /\ i.key \in Refs
    <3>1. PICK i \in Inner : MakesStore(i, i.key) /\ i.key \in Refs
      BY <2>5
    <3>2. i.key \in Masters /\ (i.key \in Objects)
      <4>1. i.key \in Masters
        BY DEF Inner
      <4>2. i.key \in named \/ (\E x \in Stores : i.key = store[x].master) \/ \E c \in Underway : i.key \in Used(c)
        BY <3>1 DEF Refs
      <4>3. ASSUME NEW x \in Stores, i.key = store[x].master PROVE i.key \in Objects
        BY <4>1, <4>3 DEF RefInv, StoreSound, NoStore, Objects
      <4>4. QED
        BY <4>1, <4>2, <4>3 DEF RefInv
    <3>3. master[i.key] # NoMaster
      BY <3>2, PlacesAssumption DEF Objects
    <3>4. CASE s = Place(FreeStores)
      <4>1. store'[s] = [object |-> TRUE, inner |-> i, master |-> i.key]
        BY <3>1, <3>4 DEF MakesStore, TypeOK
      <4>2. QED
        BY <2>2, <3>1, <3>2, <3>3, <4>1 DEF StoreSound
    <3>5. CASE s # Place(FreeStores)
      BY <2>3, <3>1, <3>5 DEF MakesStore, TypeOK
    <3>6. QED
      BY <3>4, <3>5
  <2>6. CASE Free
    <3>1. store'[s] = store[s] \/ store'[s] = NoStore
      BY <2>6 DEF Free, TypeOK
    <3>2. CASE store'[s] = NoStore
      BY <3>2 DEF StoreSound, NoStore
    <3>3. QED
      BY <2>3, <3>1, <3>2
  <2>7. CASE (\E t \in Threads : Attach(t)) \/ DropInner \/ UNCHANGED vars
    <3>1. UNCHANGED store \/ \E x : store' = [store EXCEPT ![x].inner = None]
      BY <2>7 DEF Attach, DropInner, vars
    <3>2. QED
      BY <2>3, <2>4, <3>1 DEF TypeOK
  <2>8. CASE \E t \in Threads : PythonStep(t) \/ RustStep(t)
    <3>1. \/ UNCHANGED store
          \/ \E i \in Inner : MakesStore(i, i.key) /\ i.key \in Refs
          \/ \E x : store' = [store EXCEPT ![x].inner = None]
      BY <2>8, ThreadData
    <3>2. QED
      BY <2>3, <2>4, <2>5, <3>1 DEF TypeOK
  <2>9. QED
    BY <2>6, <2>7, <2>8 DEF Next
<1>6. QED
  BY <1>3, <1>4, <1>5 DEF RefInv, Used

-----------------------------------------------------------------------------
\* Where the krypto stores are.

\* A krypto store's key is a MasterKey object that stays as it is.
LEMMA HeldKey ==
  ASSUME TypeOK, StackInv, CallInv, RefInv, NEW h \in Full
  PROVE  In(h) \in Inner /\ In(h).path \in Paths /\ In(h).key \in Refs /\ master[In(h).key] # NoMaster
<1> USE NoneAssumption
<1>1. CASE \E s \in Stores : h = <<"object", s>>
  <2>1. PICK s \in Stores : h = <<"object", s>>
    BY <1>1
  <2>2. In(h) = store[s].inner /\ store[s].inner # None /\ store[s].inner \in Inner
    BY <2>1 DEF Full, In, TypeOK
  <2>3. store[s].object /\ store[s].inner.key = store[s].master /\ master[store[s].master] # NoMaster
    BY <2>2 DEF RefInv, StoreSound, NoStore
  <2>4. QED
    BY <2>2, <2>3 DEF Refs, Inner
<1>2. CASE \E t \in Threads : h = <<"call", t>>
  <2>1. PICK t \in Threads : h = <<"call", t>>
    BY <1>2
  <2> DEFINE c == Current(t)
  <2>2. In(h) = c.taken /\ c.taken # None
    BY <2>1 DEF Full, In
  <2>3. stack[t] # <<>>
    BY <2>2 DEF Current, Idle, NoCall
  <2>4. Shape(c) /\ c.taken \in Inner
    BY <2>2, <2>3, CurrentShape DEF Shape, Calls
  <2>5. c.store \in Stores /\ store[c.store] = [object |-> TRUE, inner |-> None, master |-> c.taken.key]
    <3>1. Has(t, c)
      BY DEF CallInv
    <3>2. QED
      BY <2>2, <2>4, <3>1 DEF Shape, OnStore, Has
  <2>6. StoreSound(c.store)
    BY <2>5 DEF RefInv
  <2> HIDE DEF c
  <2>7. store[c.store].object /\ store[c.store].master = c.taken.key
    BY <2>5
  <2>8. c.taken.key \in Refs /\ master[c.taken.key] # NoMaster
    BY <2>5, <2>6, <2>7 DEF Refs, StoreSound
  <2>9. QED
    BY <2>2, <2>4, <2>8 DEF Inner
<1>3. QED
  BY <1>1, <1>2 DEF Full, Hands

\* The other hands, when one object and one call change what they have.
LEMMA Others ==
  ASSUME NEW s0, NEW t0,
         \A s \in Stores : s # s0 => store'[s].inner = store[s].inner,
         \A t \in Threads : t # t0 => Current(t)'.taken = Current(t).taken
  PROVE  \A h \in Hands : h # <<"object", s0>> /\ h # <<"call", t0>> => In(h)' = In(h)
<1>1. ASSUME NEW h \in Hands, h # <<"object", s0>>, h # <<"call", t0>>
      PROVE  In(h)' = In(h)
  <2>1. CASE \E s \in Stores : h = <<"object", s>>
    BY <1>1, <2>1 DEF In
  <2>2. CASE \E t \in Threads : h = <<"call", t>>
    <3>1. PICK t \in Threads : h = <<"call", t>>
      BY <2>2
    <3>2. In(h) = Current(t).taken /\ In(h)' = Current(t)'.taken
      BY <3>1 DEF In
    <3>3. QED
      BY <1>1, <3>1, <3>2
  <2>3. QED
    BY <2>1, <2>2 DEF Hands
<1>2. QED
  BY <1>1

\* Every krypto store stays in its hands, and no locked file gets another header.
LEMMA HandsKeep ==
  ASSUME TypeOK, StackInv, CallInv, RefInv, HandInv,
         \A h \in Hands : In(h)' = In(h), UNCHANGED flock,
         \A p \in flock : generation'[p] = generation[p]
  PROVE  HandInv'
<1>1. \A h \in Full : In(h).path \in flock
  BY HeldKey DEF HandInv
<1>2. Full' = Full
  BY DEF Full, Hands
<1>3. \A h \in Full : In(h)' = In(h)
  BY DEF Full
<1>4. QED
  BY <1>1, <1>2, <1>3 DEF HandInv

\* An object gets a krypto store for a file that no other has.
LEMMA HandGets ==
  ASSUME TypeOK, StackInv, CallInv, RefInv, HandInv,
         NEW h \in Hands, NEW i \in Inner, In(h) = None, In(h)' = i,
         \A g \in Hands \ {h} : In(g)' = In(g),
         i.path \notin flock, flock' = flock \cup {i.path},
         \A p \in flock : generation'[p] = generation[p], i.gen = generation'[i.path]
  PROVE  HandInv'
<1>1. \A g \in Full : In(g).path \in flock
  BY HeldKey DEF HandInv
<1>2. i # None /\ i.path \in Paths
  BY NoneAssumption DEF Inner
<1>3. Full' = Full \cup {h} /\ h \notin Full
  BY <1>2 DEF Full, Hands
<1>4. \A g \in Full : In(g)' = In(g)
  BY DEF Full
<1>5. \A g \in Full : In(g).path # i.path
  BY <1>2 DEF HandInv
<1>6. QED
  BY <1>1, <1>2, <1>3, <1>4, <1>5 DEF HandInv

\* A krypto store is dropped, and its file's lock with it.
LEMMA HandDrops ==
  ASSUME TypeOK, StackInv, CallInv, RefInv, HandInv,
         NEW h \in Full, In(h)' = None, \A g \in Hands \ {h} : In(g)' = In(g),
         flock' = flock \ {In(h).path},
         \A p \in Paths : p # In(h).path => generation'[p] = generation[p]
  PROVE  HandInv'
<1>1. \A g \in Full : In(g).path \in Paths
  BY HeldKey
<1>2. Full' = Full \ {h}
  BY DEF Full, Hands
<1>3. \A g \in Full' : In(g)' = In(g)
  BY <1>2 DEF Full
<1>4. \A g \in Full' : In(g).path # In(h).path
  BY <1>2 DEF HandInv
<1>5. QED
  BY <1>1, <1>2, <1>3, <1>4 DEF HandInv

\* A krypto store passes from one hand to another, perhaps with a new header.
LEMMA HandPasses ==
  ASSUME TypeOK, StackInv, CallInv, RefInv, HandInv,
         NEW g \in Full, NEW h \in Hands, NEW i \in Inner, In(h) = None,
         In(g)' = None, In(h)' = i, i.path = In(g).path,
         \A x \in Hands \ {g, h} : In(x)' = In(x), UNCHANGED flock,
         \A p \in Paths : p # i.path => generation'[p] = generation[p],
         i.gen = generation'[i.path]
  PROVE  HandInv'
<1>1. \A x \in Full : In(x).path \in Paths
  BY HeldKey
<1>2. i # None /\ g # h
  BY NoneAssumption DEF Inner, Full
<1>3. Full' = (Full \ {g}) \cup {h} /\ h \notin Full
  BY <1>2 DEF Full, Hands
<1>4. \A x \in Full \ {g} : In(x)' = In(x) /\ In(x).path # i.path
  <2>1. \A x \in Full \ {g} : x \in Hands \ {g, h}
    BY <1>3 DEF Full
  <2>2. QED
    BY <2>1 DEF HandInv
<1>5. QED
  BY <1>1, <1>2, <1>3, <1>4 DEF HandInv

\* Only rotate moves a krypto store into a call or out of one.
LEMMA TakenStays ==
  ASSUME TypeOK, StackInv, RefInv, [Next]_vars, NEW u \in Threads,
         ~(Take(u) /\ Current(u).op = "rotate"), ~RotateOk(u), ~RotateFails(u)
  PROVE  Current(u)'.taken = Current(u).taken
<1> DEFINE c == Current(u)
<1>1. ASSUME NEW t \in Threads, NEW d, Moved(t, d), t = u => d.taken = c.taken
      PROVE  c'.taken = c.taken
  BY <1>1 DEF Moved
<1>2. ASSUME NEW t \in Threads, RustStep(t)
      PROVE  c'.taken = c.taken
  <2> DEFINE e == Current(t)
  <2>1. CASE Take(t)
    <3>1. e.op = "rotate" => t # u
      BY <2>1
    <3>2. CASE e.op = "rotate"
      BY <2>1, <3>1, <3>2, Takes DEF Moved
    <3>3. CASE e.op = "from_bytes"
      <4>1. Moved(t, [e EXCEPT !.at = "work"]) /\ Shape(e)
        BY <2>1, <3>3, Takes
      <4>2. [e EXCEPT !.at = "work"].taken = e.taken
        BY <4>1 DEF Shape, Calls
      <4>3. QED
        BY <4>1, <4>2 DEF Moved
    <3>4. QED
      BY <2>1, <3>2, <3>3, Takes
  <2>2. CASE \/ Lock(t) \/ CopyOut(t) \/ DetachToHash(t) \/ Hashed(t)
             \/ (LockSecret(t) /\ buf[e.buf] = "secret")
    <3>1. stack[t] # <<>>
      BY <2>2 DEF Lock, CopyOut, DetachToHash, Hashed, LockSecret, Rust, At
    <3>2. PICK p : Moved(t, [e EXCEPT !.at = p])
      BY <2>2, Turns DEF MovedTo
    <3>3. [e EXCEPT !.at = p].taken = e.taken
      BY <3>1, CurrentShape DEF Shape, Calls
    <3>4. QED
      BY <3>2, <3>3 DEF Moved
  <2>3. CASE \/ FindsNothing(t) \/ (LockSecret(t) /\ buf[e.buf] # "secret")
             \/ Read(t) \/ Put(t) \/ Get(t) \/ FromBytes(t) \/ PasswordReturns(t)
    <3>1. PICK d : Moved(t, d) /\ d.taken = None
      BY <2>3, Backs DEF Back
    <3>2. e.taken = None
      <4>1. stack[t] # <<>> /\ (e.at \in {"lock", "secret", "attach"} \/ e.op # "rotate")
        BY <2>3, AtIs DEF FindsNothing, LockSecret, Read, Put, Get, FromBytes, PasswordReturns, Rust
      <4>2. QED
        BY <4>1, CurrentShape DEF Shape
    <3>3. QED
      BY <1>1, <3>1, <3>2
  <2>4. CASE RotateOk(t) \/ RotateFails(t)
    <3>1. t # u
      BY <2>4
    <3>2. PICK d : Moved(t, d)
      BY <2>4, Backs DEF Back
    <3>3. QED
      BY <1>1, <3>1, <3>2
  <2>5. QED
    BY <1>2, <2>1, <2>2, <2>3, <2>4 DEF RustStep
<1>3. ASSUME NEW t \in Threads, Enters(t) \/ CallbackReturns(t)
      PROVE  c'.taken = c.taken
  <2>1. Current(t).taken = None
    <3>1. InPython(t)
      BY <1>3, Entered DEF CallbackReturns, Python, Enter
    <3>2. QED
      BY <3>1, InPythonHas
  <2>2. \E d : Moved(t, d) /\ d.taken = None
    BY <1>3, Entered, Backs DEF Back
  <2>3. QED
    BY <1>1, <2>1, <2>2
<1>4. CASE UNCHANGED stack
  BY <1>4, Stays
<1>5. ASSUME NEW t \in Threads, PythonStep(t), ~(Enters(t) \/ CallbackReturns(t))
      PROVE  UNCHANGED stack
  BY <1>5 DEF PythonStep, Enters, Detach, Del, NewSecret, FromSecretFile, OpenStore,
         OpenFails
<1>6. CASE (\E t \in Threads : Attach(t)) \/ DropInner \/ Free \/ UNCHANGED vars
  BY <1>4, <1>6 DEF Attach, DropInner, Free, vars
<1>7. QED
  BY <1>2, <1>3, <1>4, <1>5, <1>6 DEF Next

\* The steps at which a krypto store changes hands, or a file may be written.
HandsMove(t) == \/ OpenStore(t) \/ OpenFails(t) \/ Take(t) \/ RotateOk(t) \/ RotateFails(t)
                \/ Put(t) \/ Get(t)

LEMMA QuietHands ==
  ASSUME TypeOK, StackInv, RefInv, [Next]_vars, \A t \in Threads : ~HandsMove(t), ~DropInner
  PROVE  (\A h \in Hands : In(h)' = In(h)) /\ UNCHANGED <<flock, generation>>
<1>1. \A u \in Threads : Current(u)'.taken = Current(u).taken
  BY TakenStays DEF HandsMove
<1>2. UNCHANGED <<flock, generation>> /\ \A s \in Stores : store'[s].inner = store[s].inner
  <2>1. CASE Free
    <3>1. UNCHANGED <<flock, generation>>
      BY <2>1 DEF Free
    <3>2. ASSUME NEW s \in Stores PROVE store'[s].inner = store[s].inner
      <4>1. store'[s] = store[s] \/ (store[s].inner = None /\ store'[s] = NoStore)
        BY <2>1 DEF Free, TypeOK
      <4>2. QED
        BY <4>1 DEF NoStore
    <3>3. QED
      BY <3>1, <3>2
  <2>2. CASE (\E t \in Threads : Attach(t)) \/ UNCHANGED vars
    BY <2>2 DEF Attach, vars
  <2>3. CASE \E t \in Threads : PythonStep(t)
    BY <2>3 DEF HandsMove, PythonStep, Detach, Del, NewSecret, FromSecretFile, CallBuf, CallPut, CallGet,
                CallRotate, CallPassword, Enter, CallbackReturns
  <2>4. CASE \E t \in Threads : RustStep(t)
    BY <2>4 DEF HandsMove, RustStep, Lock, FindsNothing, LockSecret, Read, CopyOut, FromBytes,
                DetachToHash, Hashed, PasswordReturns
  <2>5. QED
    BY <2>1, <2>2, <2>3, <2>4 DEF Next
<1>3. ASSUME NEW h \in Hands PROVE In(h)' = In(h)
  <2>1. CASE \E s \in Stores : h = <<"object", s>>
    BY <1>2, <2>1 DEF In
  <2>2. CASE \E t \in Threads : h = <<"call", t>>
    <3>1. PICK t \in Threads : h = <<"call", t>>
      BY <2>2
    <3>2. In(h) = Current(t).taken /\ In(h)' = Current(t)'.taken
      BY <3>1 DEF In
    <3>3. QED
      BY <1>1, <3>2
  <2>3. QED
    BY <2>1, <2>2 DEF Hands
<1>4. QED
  BY <1>2, <1>3

LEMMA InIs ==
  /\ \A s : In(<<"object", s>>) = store[s].inner /\ In(<<"object", s>>)' = store'[s].inner
  /\ \A t : In(<<"call", t>>) = Current(t).taken /\ In(<<"call", t>>)' = Current(t)'.taken
BY DEF In

\* open: the new object's store has a file that no other store has.
LEMMA OpenHands ==
  ASSUME TypeOK, StackInv, CallInv, RefInv, HandInv, NEW t \in Threads, OpenStore(t)
  PROVE  HandInv'
<1>1. PICK p \in Paths, m \in named \cap Masters :
        /\ p \notin flock /\ MakesStore([path |-> p, key |-> m, gen |-> Opened(p)], m)
        /\ flock' = flock \cup {p} /\ generation' = [generation EXCEPT ![p] = Opened(p)]
  BY DEF OpenStore
<1>2. PICK i, s, h : /\ i = [path |-> p, key |-> m, gen |-> Opened(p)]
                     /\ s = Place(FreeStores) /\ h = <<"object", s>>
  OBVIOUS
<1>3. /\ s \in Stores /\ ~store[s].object
      /\ store' = [store EXCEPT ![s] = [object |-> TRUE, inner |-> i, master |-> m]]
  BY <1>1, <1>2 DEF MakesStore, FreeStores, Place
<1>4. store[s].inner = None /\ store'[s].inner = i
      /\ \A x \in Stores : x # s => store'[x].inner = store[x].inner
  BY <1>3 DEF RefInv, StoreSound, NoStore, TypeOK
<1>5. UNCHANGED stack
  BY DEF OpenStore
<1>6. \A u : Current(u)' = Current(u)
  BY <1>5, Stays
<1>7. h \in Hands /\ In(h) = None /\ In(h)' = i
  BY <1>2, <1>3, <1>4, InIs DEF Hands
<1>8. \A g \in Hands \ {h} : In(g)' = In(g)
  <2>1. \A g \in Hands : g # <<"object", s>> /\ g # <<"call", t>> => In(g)' = In(g)
    BY <1>4, <1>6, Others
  <2>2. In(<<"call", t>>)' = In(<<"call", t>>)
    BY <1>6, InIs
  <2>3. QED
    BY <1>2, <2>1, <2>2
<1>9. i \in Inner /\ i.path = p /\ i.gen = Opened(p)
  BY <1>2, OpenedType DEF Inner
<1>10. (\A q \in flock : generation'[q] = generation[q]) /\ generation'[p] = Opened(p)
  BY <1>1 DEF TypeOK
<1>11. QED
  BY <1>1, <1>7, <1>8, <1>9, <1>10, HandGets

\* An open that fails has made a file, which no store has.
LEMMA OpenFailsHands ==
  ASSUME TypeOK, StackInv, CallInv, RefInv, HandInv, NEW t \in Threads, OpenFails(t)
  PROVE  HandInv'
<1>1. UNCHANGED <<stack, store, flock>>
  BY DEF OpenFails
<1>2. \A g \in Hands : In(g)' = In(g)
  BY <1>1, Stays DEF In, Hands
<1>3. \A p \in flock : generation'[p] = generation[p]
  BY DEF OpenFails, TypeOK
<1>4. QED
  BY <1>1, <1>2, <1>3, HandsKeep

\* A store that is written gives its file the header that it has already.
LEMMA WriteHands ==
  ASSUME TypeOK, StackInv, CallInv, RefInv, HandInv, NEW t \in Threads, Put(t) \/ Get(t)
  PROVE  HandInv'
<1>1. PICK c : c = Current(t)
  OBVIOUS
<1>2. c = Top(t) /\ Shape(c) /\ c.op \in {"put", "get"} /\ c.at = "work"
  BY <1>1, AtIs DEF Put, Get, Rust
<1>3. c.store \in Stores /\ c.taken = None /\ store[c.store].inner # None
  <2>1. Has(t, c)
    BY <1>1 DEF CallInv
  <2>2. QED
    BY <1>2, <2>1 DEF Shape, OnStore, Has
<1>4. PICK h : h = <<"object", c.store>>
  OBVIOUS
<1>5. h \in Full /\ In(h) = store[c.store].inner
  BY <1>3, <1>4, InIs DEF Full, Hands
<1>6. \A p \in flock : generation'[p] = generation[p]
  <2>1. UNCHANGED generation \/ MayWrite(In(h))
    BY <1>1, <1>2, <1>5 DEF Put, Get
  <2>2. In(h).gen = generation[In(h).path]
    BY <1>5 DEF HandInv
  <2>3. QED
    BY <2>1, <2>2 DEF MayWrite, TypeOK
<1>7. UNCHANGED <<store, flock>>
  BY DEF Put, Get
<1>8. \A u \in Threads : Current(u)'.taken = Current(u).taken
  <2>1. PICK d : Moved(t, d) /\ d.taken = None
    BY Backs DEF Back
  <2>2. QED
    BY <1>1, <1>3, <2>1 DEF Moved
<1>9. \A g \in Hands : In(g)' = In(g)
  BY <1>7, <1>8 DEF In, Hands
<1>10. QED
  BY <1>5, <1>6, <1>7, <1>9, HandsKeep

\* A SecretStore that goes drops its krypto store.
LEMMA DropHands ==
  ASSUME TypeOK, StackInv, CallInv, RefInv, HandInv, DropInner
  PROVE  HandInv'
<1>1. PICK s \in Stores : /\ store[s].inner # None /\ flock' = flock \ {store[s].inner.path}
                          /\ store' = [store EXCEPT ![s].inner = None]
  BY DEF DropInner
<1>2. UNCHANGED <<stack, generation>>
  BY DEF DropInner
<1>3. \A u : Current(u)' = Current(u)
  BY <1>2, Stays
<1>4. store'[s].inner = None /\ \A x \in Stores : x # s => store'[x].inner = store[x].inner
  BY <1>1 DEF TypeOK
<1>5. PICK h : h = <<"object", s>>
  OBVIOUS
<1>6. h \in Full /\ In(h) = store[s].inner /\ In(h)' = None
  BY <1>1, <1>4, <1>5, InIs DEF Full, Hands
<1>7. \A g \in Hands \ {h} : In(g)' = In(g)
  <2>1. ASSUME NEW y \in Threads PROVE In(<<"call", y>>)' = In(<<"call", y>>)
    BY <1>3, InIs
  <2>2. ASSUME NEW x \in Stores, x # s PROVE In(<<"object", x>>)' = In(<<"object", x>>)
    BY <1>4, <2>2, InIs
  <2>3. QED
    BY <1>5, <2>1, <2>2 DEF Hands
<1>8. QED
  BY <1>1, <1>2, <1>6, <1>7, HandDrops

\* rotate takes the store out of its object.
LEMMA TakeHands ==
  ASSUME TypeOK, StackInv, CallInv, RefInv, HandInv, NEW t \in Threads, Take(t)
  PROVE  HandInv'
<1>1. PICK c : c = Current(t)
  OBVIOUS
<1>2. /\ c.at = "lock" /\ Shape(c) /\ c.op \in {"from_bytes", "rotate"}
      /\ c.op = "from_bytes" => Moved(t, [c EXCEPT !.at = "work"])
      /\ c.op = "rotate" => /\ store[c.store].inner # None
                            /\ Moved(t, [c EXCEPT !.at = "work", !.taken = store[c.store].inner])
  BY <1>1, Takes
<1>3. c = Top(t) /\ c.taken = None /\ UNCHANGED <<flock, generation>>
  BY <1>1, <1>2, AtIs DEF Take, Rust, Shape
<1>4. CASE c.op = "from_bytes"
  <2>1. UNCHANGED store
    BY <1>3, <1>4 DEF Take
  <2>2. PICK d : d = [c EXCEPT !.at = "work"]
    OBVIOUS
  <2>3. Moved(t, d) /\ d.taken = None
    BY <1>2, <1>3, <1>4, <2>2 DEF Shape, Calls
  <2>4. \A u \in Threads : Current(u)'.taken = Current(u).taken
    BY <1>1, <1>3, <2>3 DEF Moved
  <2>5. \A g \in Hands : In(g)' = In(g)
    BY <2>1, <2>4 DEF In, Hands
  <2>6. QED
    BY <1>3, <2>5, HandsKeep
<1>5. CASE c.op = "rotate"
  <2>1. PICK s, i : s = c.store /\ i = store[s].inner
    OBVIOUS
  <2>2. s \in Stores /\ i # None /\ i \in Inner /\ i.path \in Paths
    BY <1>2, <1>5, <2>1 DEF Shape, OnStore, TypeOK, Inner
  <2>3. store' = [store EXCEPT ![s].inner = None]
    BY <1>3, <1>5, <2>1 DEF Take
  <2>4. store'[s].inner = None /\ \A x \in Stores : x # s => store'[x].inner = store[x].inner
    BY <2>2, <2>3 DEF TypeOK
  <2>5. PICK d : d = [c EXCEPT !.at = "work", !.taken = i]
    OBVIOUS
  <2>6. Moved(t, d) /\ d.taken = i
    BY <1>2, <1>5, <2>1, <2>5 DEF Shape, Calls
  <2>7. Current(t)'.taken = i /\ \A u \in Threads : u # t => Current(u)'.taken = Current(u).taken
    BY <2>6 DEF Moved
  <2>8. PICK g, h : g = <<"object", s>> /\ h = <<"call", t>>
    OBVIOUS
  <2>9. g \in Full /\ In(g) = i /\ In(g)' = None
    BY <2>1, <2>2, <2>4, <2>8, InIs DEF Full, Hands
  <2>10. h \in Hands /\ In(h) = None /\ In(h)' = i
    BY <1>1, <1>3, <2>7, <2>8, InIs DEF Hands
  <2>11. \A x \in Hands \ {g, h} : In(x)' = In(x)
    <3>1. \A x \in Hands : x # <<"object", s>> /\ x # <<"call", t>> => In(x)' = In(x)
      BY <2>4, <2>7, Others
    <3>2. QED
      BY <2>8, <3>1
  <2>12. i.gen = generation'[i.path]
    BY <1>3, <2>9 DEF HandInv
  <2>13. QED
    BY <1>3, <2>2, <2>9, <2>10, <2>11, <2>12, HandPasses
<1>6. QED
  BY <1>2, <1>4, <1>5

\* The store that a rotate at work has taken.
LEMMA RotateHas ==
  ASSUME TypeOK, StackInv, NEW t \in Threads, Rust(t, "work"), Top(t).op = "rotate"
  PROVE  /\ Current(t) = Top(t) /\ Top(t).taken \in Inner /\ Top(t).master \in Masters
         /\ <<"call", t>> \in Full /\ In(<<"call", t>>) = Top(t).taken
<1>1. Current(t) = Top(t) /\ Shape(Top(t)) /\ Top(t).at = "work"
  BY AtIs DEF Rust
<1>2. Top(t).taken \in Inner /\ Top(t).taken # None /\ Top(t).master \in Masters
  BY <1>1 DEF Shape, Calls
<1>3. QED
  BY <1>1, <1>2, InIs DEF Full, Hands

\* A rotate that works: the new object has the store, with the new key.
LEMMA RotateOkHands ==
  ASSUME TypeOK, StackInv, CallInv, RefInv, HandInv, NEW t \in Threads, RotateOk(t)
  PROVE  HandInv'
<1>1. PICK c, old, i, s, g, h :
        /\ c = Current(t) /\ old = Top(t).taken
        /\ i = [path |-> Top(t).taken.path, key |-> Top(t).master,
                gen |-> generation[Top(t).taken.path] + 1]
        /\ s = Place(FreeStores) /\ g = <<"call", t>> /\ h = <<"object", s>>
  OBVIOUS
<1>2. c = Top(t) /\ old \in Inner /\ c.master \in Masters /\ g \in Full /\ In(g) = old
  BY <1>1, RotateHas DEF RotateOk
<1>3. /\ Renews(old) /\ MakesStore(i, c.master) /\ UNCHANGED flock
      /\ i.path = old.path /\ i.gen = generation[i.path] + 1 /\ i.path \in Paths
  BY <1>1, <1>2 DEF RotateOk, Inner
<1>4. i \in Inner
  <2>1. generation[i.path] + 1 \in 1..MaxGen
    BY <1>3, BoundsAssumption DEF Renews, TypeOK
  <2>2. QED
    BY <1>1, <1>2, <1>3, <2>1 DEF Inner
<1>5. /\ s \in Stores /\ ~store[s].object
      /\ store' = [store EXCEPT ![s] = [object |-> TRUE, inner |-> i, master |-> c.master]]
  BY <1>1, <1>3 DEF MakesStore, FreeStores, Place
<1>6. store[s].inner = None /\ store'[s].inner = i
      /\ \A x \in Stores : x # s => store'[x].inner = store[x].inner
  BY <1>5 DEF RefInv, StoreSound, NoStore, TypeOK
<1>7. Current(t)'.taken = None /\ \A u \in Threads : u # t => Current(u)'.taken = Current(u).taken
  <2>1. PICK d : Moved(t, d) /\ d.taken = None
    BY Backs DEF Back
  <2>2. QED
    BY <2>1 DEF Moved
<1>8. h \in Hands /\ In(h) = None /\ In(h)' = i /\ In(g)' = None
  BY <1>1, <1>5, <1>6, <1>7, InIs DEF Hands
<1>9. \A x \in Hands \ {g, h} : In(x)' = In(x)
  <2>1. \A x \in Hands : x # <<"object", s>> /\ x # <<"call", t>> => In(x)' = In(x)
    BY <1>6, <1>7, Others
  <2>2. QED
    BY <1>1, <2>1
<1>10. /\ \A p \in Paths : p # i.path => generation'[p] = generation[p]
       /\ i.gen = generation'[i.path]
  BY <1>3 DEF Renews, TypeOK
<1>11. QED
  BY <1>2, <1>3, <1>4, <1>8, <1>9, <1>10, HandPasses

\* A rotate that fails drops the store it has taken.
LEMMA RotateFailsHands ==
  ASSUME TypeOK, StackInv, CallInv, RefInv, HandInv, NEW t \in Threads, RotateFails(t)
  PROVE  HandInv'
<1>1. PICK old, h : old = Top(t).taken /\ h = <<"call", t>>
  OBVIOUS
<1>2. old \in Inner /\ h \in Full /\ In(h) = old
  BY <1>1, RotateHas DEF RotateFails
<1>3. /\ flock' = flock \ {In(h).path} /\ UNCHANGED store
      /\ \A p \in Paths : p # In(h).path => generation'[p] = generation[p]
  BY <1>1, <1>2 DEF RotateFails, Renews, TypeOK
<1>4. Current(t)'.taken = None /\ \A u \in Threads : u # t => Current(u)'.taken = Current(u).taken
  <2>1. PICK d : Moved(t, d) /\ d.taken = None
    BY Backs DEF Back
  <2>2. QED
    BY <2>1 DEF Moved
<1>5. In(h)' = None
  BY <1>1, <1>4, InIs
<1>6. \A g \in Hands \ {h} : In(g)' = In(g)
  BY <1>1, <1>3, <1>4 DEF In, Hands
<1>7. QED
  BY <1>2, <1>3, <1>5, <1>6, HandDrops

LEMMA HandStep ==
  ASSUME TypeOK, StackInv, CallInv, RefInv, HandInv, [Next]_vars
  PROVE  HandInv'
<1>1. CASE \E t \in Threads : HandsMove(t)
  BY <1>1, OpenHands, OpenFailsHands, WriteHands, TakeHands, RotateOkHands, RotateFailsHands DEF HandsMove
<1>2. CASE DropInner
  BY <1>2, DropHands
<1>3. CASE (\A t \in Threads : ~HandsMove(t)) /\ ~DropInner
  BY <1>3, QuietHands, HandsKeep
<1>4. QED
  BY <1>1, <1>2, <1>3

-----------------------------------------------------------------------------
\* The invariant.

\* What TypeOK says of the calls.
LEMMA CallTypes ==
  ASSUME StackInv', CallInv'
  PROVE  /\ \A t \in Threads : \A i \in DOMAIN stack'[t] : stack'[t][i] \in Calls
         /\ \A t \in Threads : (\E p \in {"lock", "secret", "work", "detach"} : At(t, p)') => t \in attached'
         /\ \A t \in Threads : At(t, "hash")' => t \notin attached'
<1>1. ASSUME NEW t \in Threads PROVE \A i \in DOMAIN stack'[t] : stack'[t][i] \in Calls
  <2>1. stack'[t] \in Seq(Calls)
    BY DEF StackInv
  <2>2. QED
    BY <2>1
<1>2. \A t \in Threads : Has(t, Current(t))'
  BY DEF CallInv
<1>3. ASSUME NEW t \in Threads, NEW p, At(t, p)' PROVE Current(t)'.at = p
  BY <1>3 DEF At, Current, Top
<1>4. QED
  BY <1>1, <1>2, <1>3 DEF Has

LEMMA AttachedStep ==
  ASSUME TypeOK, IsFiniteSet(attached), [Next]_vars
  PROVE  /\ together' = together /\ attached' \subseteq Threads
         /\ IsFiniteSet(attached') /\ Cardinality(attached') <= together
<1>1. together \in Nat /\ Cardinality(attached) \in Nat
  BY FS_CardinalityType, BuildsAssumption DEF TypeOK
<1>2. CASE \E t \in Threads : Attach(t)
  <2>1. PICK t \in Threads : Attach(t)
    BY <1>2
  <2>2. attached' = attached \cup {t} /\ t \notin attached /\ Cardinality(attached) < together
        /\ together' = together
    BY <2>1 DEF Attach
  <2>3. IsFiniteSet(attached') /\ Cardinality(attached') = Cardinality(attached) + 1
    BY <2>2, FS_AddElement
  <2>4. QED
    BY <1>1, <2>2, <2>3 DEF TypeOK
<1>3. ASSUME NEW t \in Threads, attached' = attached \ {t}, together' = together
      PROVE  /\ together' = together /\ attached' \subseteq Threads
             /\ IsFiniteSet(attached') /\ Cardinality(attached') <= together
  <2>1. IsFiniteSet(attached') /\ Cardinality(attached') <= Cardinality(attached)
        /\ Cardinality(attached') \in Nat
    BY <1>3, FS_Subset, FS_CardinalityType
  <2>2. QED
    BY <1>1, <1>3, <2>1 DEF TypeOK
<1>4. CASE \E t \in Threads : Detach(t) \/ DetachToHash(t)
  BY <1>3, <1>4 DEF Detach, DetachToHash
<1>5. CASE UNCHANGED <<together, attached>>
  BY <1>5 DEF TypeOK
<1>6. ASSUME NEW t \in Threads, PythonStep(t), ~Detach(t)
      PROVE  UNCHANGED <<together, attached>>
  BY <1>6 DEF PythonStep, Del, NewSecret, FromSecretFile, OpenStore, OpenFails, CallBuf, CallPut, CallGet, CallRotate,
              CallPassword, Enter, CallbackReturns
<1>7. ASSUME NEW t \in Threads, RustStep(t), ~DetachToHash(t)
      PROVE  UNCHANGED <<together, attached>>
  BY <1>7 DEF RustStep, Lock, FindsNothing, Take, LockSecret, Read, CopyOut, Put, Get, RotateOk, RotateFails,
              FromBytes, Hashed, PasswordReturns
<1>8. CASE DropInner \/ Free \/ UNCHANGED vars
  BY <1>5, <1>8 DEF DropInner, Free, vars
<1>9. QED
  BY <1>2, <1>4, <1>5, <1>6, <1>7, <1>8 DEF Next

LEMMA MutexType ==
  ASSUME TypeOK, [Next]_vars
  PROVE  mutex' \in [Bufs \cup Stores -> Threads \cup {None}]
<1>1. ASSUME NEW t \in Threads, Unlocks(t) PROVE mutex' \in [Bufs \cup Stores -> Threads \cup {None}]
  BY <1>1 DEF Unlocks, TypeOK
<1>2. ASSUME NEW t \in Threads, NEW o, mutex' = [mutex EXCEPT ![o] = t]
      PROVE  mutex' \in [Bufs \cup Stores -> Threads \cup {None}]
  BY <1>2 DEF TypeOK
<1>3. ASSUME UNCHANGED mutex PROVE mutex' \in [Bufs \cup Stores -> Threads \cup {None}]
  BY <1>3 DEF TypeOK
<1>4. ASSUME NEW t \in Threads, RustStep(t)
      PROVE  Unlocks(t) \/ (\E o : mutex' = [mutex EXCEPT ![o] = t]) \/ UNCHANGED mutex
  BY <1>4 DEF RustStep, Lock, FindsNothing, Take, LockSecret, Read, CopyOut, Put, Get, RotateOk, RotateFails,
              FromBytes, DetachToHash, Hashed, PasswordReturns
<1>5. ASSUME NEW t \in Threads, PythonStep(t) \/ Attach(t) PROVE UNCHANGED mutex
  BY <1>5 DEF PythonStep, Detach, Del, NewSecret, FromSecretFile, OpenStore, OpenFails, CallBuf, CallPut, CallGet,
              CallRotate, CallPassword, Enter, CallbackReturns, Attach
<1>6. ASSUME DropInner \/ Free \/ UNCHANGED vars PROVE UNCHANGED mutex
  BY <1>6 DEF DropInner, Free, vars
<1>7. QED
  BY <1>1, <1>2, <1>3, <1>4, <1>5, <1>6 DEF Next

\* The objects.
LEMMA ObjectTypes ==
  ASSUME TypeOK, StackInv, [Next]_vars
  PROVE  /\ buf' \in [Bufs -> {NoBuf, "secret", "consumed"}]
         /\ master' \in [Masters -> {NoMaster, "key"}]
         /\ store' \in [Stores -> [object : BOOLEAN, inner : Inner \cup {None}, master : Masters \cup {None}]]
         /\ named' \subseteq Bufs \cup Masters \cup Stores
<1> USE DEF TypeOK
<1>1. /\ FreeBufs # {} => Place(FreeBufs) \in Bufs
      /\ FreeMasters # {} => Place(FreeMasters) \in Masters
      /\ FreeStores # {} => Place(FreeStores) \in Stores
  BY DEF Place, FreeBufs, FreeMasters, FreeStores
<1>2. MakesBuf => /\ buf' \in [Bufs -> {NoBuf, "secret", "consumed"}]
                  /\ named' \subseteq Bufs \cup Masters \cup Stores
  BY <1>1 DEF MakesBuf
<1>3. MakesMaster => /\ master' \in [Masters -> {NoMaster, "key"}]
                                          /\ named' \subseteq Bufs \cup Masters \cup Stores
  BY <1>1 DEF MakesMaster
<1>4. ASSUME NEW i \in Inner, MakesStore(i, i.key)
      PROVE  /\ store' \in [Stores -> [object : BOOLEAN, inner : Inner \cup {None}, master : Masters \cup {None}]]
             /\ named' \subseteq Bufs \cup Masters \cup Stores
  BY <1>1, <1>4 DEF MakesStore, Inner
<1>5. ASSUME NEW s, store' = [store EXCEPT ![s].inner = None]
      PROVE  store' \in [Stores -> [object : BOOLEAN, inner : Inner \cup {None}, master : Masters \cup {None}]]
  <2>1. s \in Stores => [store[s] EXCEPT !.inner = None]
                          \in [object : BOOLEAN, inner : Inner \cup {None}, master : Masters \cup {None}]
    OBVIOUS
  <2>2. QED
    BY <1>5, <2>1
<1>6. CASE \E t \in Threads : PythonStep(t) \/ RustStep(t)
  <2>1. PICK t \in Threads : PythonStep(t) \/ RustStep(t)
    BY <1>6
  <2>2. buf' \in [Bufs -> {NoBuf, "secret", "consumed"}]
    BY <1>2, <2>1, ThreadData
  <2>3. master' \in [Masters -> {NoMaster, "key"}]
    BY <1>3, <2>1, ThreadData
  <2>4. store' \in [Stores -> [object : BOOLEAN, inner : Inner \cup {None}, master : Masters \cup {None}]]
    BY <1>4, <1>5, <2>1, ThreadData
  <2>5. named' \subseteq Bufs \cup Masters \cup Stores
    BY <1>2, <1>3, <1>4, <2>1, ThreadData
  <2>6. QED
    BY <2>2, <2>3, <2>4, <2>5
<1>7. CASE (\E t \in Threads : Attach(t)) \/ UNCHANGED vars
  BY <1>7 DEF Attach, vars
<1>8. CASE DropInner
  BY <1>5, <1>8 DEF DropInner
<1>9. CASE Free
  <2>1. NoStore \in [object : BOOLEAN, inner : Inner \cup {None}, master : Masters \cup {None}]
    BY DEF NoStore
  <2>2. QED
    BY <1>9, <2>1 DEF Free
<1>10. QED
  BY <1>6, <1>7, <1>8, <1>9 DEF Next

\* The files.
LEMMA FileTypes ==
  ASSUME TypeOK, StackInv, CallInv, RefInv, [Next]_vars
  PROVE  flock' \subseteq Paths /\ generation' \in [Paths -> 0..MaxGen]
<1>1. ASSUME NEW i \in Inner, MayWrite(i) \/ Renews(i) \/ UNCHANGED generation
      PROVE  generation' \in [Paths -> 0..MaxGen]
  <2>1. i.path \in Paths /\ i.gen \in 0..MaxGen
    BY BoundsAssumption DEF Inner
  <2>2. generation[i.path] < MaxGen => generation[i.path] + 1 \in 0..MaxGen
    BY <2>1, BoundsAssumption DEF TypeOK
  <2>3. QED
    BY <1>1, <2>1, <2>2 DEF MayWrite, Renews, TypeOK
<1>2. ASSUME NEW t \in Threads, RotateOk(t) \/ RotateFails(t)
      PROVE  flock' \subseteq Paths /\ generation' \in [Paths -> 0..MaxGen]
  <2>1. Top(t).taken \in Inner /\ flock' \subseteq flock
    BY <1>2, RotateHas DEF RotateOk, RotateFails
  <2>2. UNCHANGED generation \/ Renews(Top(t).taken)
    BY <1>2 DEF RotateOk, RotateFails
  <2>3. QED
    BY <1>1, <2>1, <2>2 DEF TypeOK
<1>3. ASSUME NEW t \in Threads, Put(t) \/ Get(t)
      PROVE  flock' \subseteq Paths /\ generation' \in [Paths -> 0..MaxGen]
  <2>1. Current(t) = Top(t) /\ Shape(Top(t)) /\ Top(t).at = "work" /\ Top(t).op \in {"put", "get"}
    BY <1>3, AtIs DEF Put, Get, Rust
  <2>2. store[Top(t).store].inner # None /\ Top(t).store \in Stores
    <3>1. Has(t, Top(t))
      BY <2>1 DEF CallInv
    <3>2. QED
      BY <2>1, <3>1 DEF Has, Shape, OnStore
  <2>3. store[Top(t).store].inner \in Inner
    BY <2>2 DEF TypeOK
  <2>4. UNCHANGED flock /\ (UNCHANGED generation \/ MayWrite(store[Top(t).store].inner))
    BY <1>3 DEF Put, Get
  <2>5. QED
    BY <1>1, <2>3, <2>4 DEF TypeOK
<1>4. CASE DropInner \/ \E t \in Threads : OpenStore(t) \/ OpenFails(t)
  <2>1. \A p \in Paths : Opened(p) \in 0..MaxGen /\ 1 \in 0..MaxGen
    BY OpenedType, BoundsAssumption
  <2>2. QED
    BY <1>4, <2>1 DEF DropInner, OpenStore, OpenFails, TypeOK
<1>5. CASE (\A t \in Threads : ~HandsMove(t)) /\ ~DropInner
  BY <1>5, QuietHands DEF TypeOK
<1>6. CASE \E t \in Threads : Take(t)
  BY <1>6 DEF Take, TypeOK
<1>7. QED
  BY <1>2, <1>3, <1>4, <1>5, <1>6 DEF HandsMove

LEMMA TypeStep ==
  ASSUME TypeOK, IsFiniteSet(attached), StackInv, CallInv, MutexInv, RefInv, [Next]_vars
  PROVE  TypeOK' /\ IsFiniteSet(attached')
<1>1. StackInv' /\ CallInv'
  BY StackStep, CallStep
<1>2. QED
  BY <1>1, CallTypes, AttachedStep, MutexType, ObjectTypes, FileTypes DEF TypeOK

LEMMA Start ==
  ASSUME Init
  PROVE  IInv
<1> USE DEF Init
<1>1. \A t \in Threads : stack[t] = <<>> /\ Current(t) = Idle
  BY DEF Current
<1>2. Underway = {}
  BY <1>1 DEF Underway, Range
<1>3. TypeOK /\ IsFiniteSet(attached)
  <2>1. Cardinality(attached) = 0 /\ IsFiniteSet(attached) /\ together \in Nat /\ together \in Builds
    BY FS_EmptySet, BuildsAssumption
  <2>2. \A t \in Threads : \A i \in DOMAIN stack[t] : stack[t][i] \in Calls
    BY <1>1
  <2>3. \A t \in Threads : \A p : ~At(t, p)
    BY <1>1 DEF At
  <2>4. NoStore \in [object : BOOLEAN, inner : Inner \cup {None}, master : Masters \cup {None}]
    BY DEF NoStore
  <2>5. 0 \in 0..MaxGen
    BY BoundsAssumption
  <2>6. QED
    BY <2>1, <2>2, <2>3, <2>4, <2>5 DEF TypeOK
<1>4. StackInv
  <2>1. <<>> \in Seq(Calls) /\ Nested(<<>>)
    BY EmptySeq DEF Nested
  <2>2. QED
    BY <2>1 DEF StackInv
<1>5. CallInv /\ MutexInv
  BY <1>1 DEF CallInv, MutexInv, Has, Idle, NoCall
<1>6. RefInv
  BY <1>2 DEF RefInv, StoreSound, NoStore
<1>7. HandInv
  <2>1. Full = {}
    BY <1>1 DEF Full, Hands, In, Idle, NoCall, NoStore
  <2>2. QED
    BY <2>1 DEF HandInv
<1>8. QED
  BY <1>3, <1>4, <1>5, <1>6, <1>7 DEF IInv

LEMMA Invariance == Spec => []IInv
<1>1. IInv /\ [Next]_vars => IInv'
  BY StackStep, CallStep, RefStep, HandStep, TypeStep DEF IInv
<1>2. QED
  BY <1>1, Start, PTL DEF Spec

-----------------------------------------------------------------------------
\* The theorems.

\* Types; the interpreter attaches no more threads than it may, and who works
\* in Rust is attached, but for Argon2, which works detached.
THEOREM TypeTheorem == Spec => []TypeOK
<1>1. IInv => TypeOK
  BY DEF IInv
<1>2. QED
  BY <1>1, Invariance, PTL

\* What is live is in somebody's hands.
LEMMA LiveIsHeld ==
  ASSUME StackInv, NEW v \in Live
  PROVE  \E h \in Full : In(h) = v
<1>1. CASE \E s \in Stores : v = store[s].inner
  <2>1. PICK s \in Stores : v = store[s].inner
    BY <1>1
  <2>2. In(<<"object", s>>) = v /\ <<"object", s>> \in Hands
    BY <2>1, InIs DEF Hands
  <2>3. QED
    BY <2>2 DEF Full, Live
<1>2. CASE \E c \in Underway : v = c.taken
  <2>1. PICK t \in Threads : \E c \in Range(stack[t]) : v = c.taken
    BY <1>2 DEF Underway
  <2>2. v # None
    BY DEF Live
  <2>3. v = Current(t).taken
    BY <2>1, <2>2, OnlyTopTakes
  <2>4. In(<<"call", t>>) = v /\ <<"call", t>> \in Hands
    BY <2>3, InIs DEF Hands
  <2>5. QED
    BY <2>2, <2>4 DEF Full
<1>3. QED
  BY <1>1, <1>2 DEF Live

\* A krypto store never refers to a MasterKey object that is gone, whatever is
\* deallocated, rotated or opened meanwhile (lib.rs:364-366, 419).
THEOREM MasterTheorem == Spec => []MasterOutlivesStore
<1>1. IInv => MasterOutlivesStore
  BY LiveIsHeld, HeldKey DEF IInv, MasterOutlivesStore
<1>2. QED
  BY <1>1, Invariance, PTL

\* A store that can still be used has the header, salt and key id, that is in
\* its file, also after a rotate that failed behind the rename (lib.rs:419).
\* Whether it was opened with the master the file was written under is not said.
THEOREM StaleTheorem == Spec => []NeverStale
<1>1. IInv => NeverStale
  BY LiveIsHeld DEF IInv, NeverStale, HandInv
<1>2. QED
  BY <1>1, Invariance, PTL

\* Holders are hands, but for what they are hands of.
LEMMA HolderHasHand ==
  ASSUME StackInv, NEW p, NEW x \in Holders(p)
  PROVE  \E h \in Full : In(h).path = p /\ h \in {<<"object", x>>, <<"call", x>>}
<1>1. CASE x \in Stores /\ store[x].inner # None /\ store[x].inner.path = p
  BY <1>1, InIs DEF Full, Hands
<1>2. CASE x \in Threads /\ \E c \in Range(stack[x]) : c.taken # None /\ c.taken.path = p
  BY <1>2, OnlyTopTakes, InIs DEF Full, Hands
<1>3. QED
  BY <1>1, <1>2 DEF Holders

\* A file is locked exactly while one krypto store for it exists: there are not
\* two, and the lock goes with the last, by whatever path it goes.
THEOREM LockTheorem == Spec => []LockFollowsStore
<1>1. ASSUME IInv, NEW p \in Paths
      PROVE  Cardinality(Holders(p)) <= 1 /\ (p \in flock <=> Holders(p) # {})
  <2>1. StackInv /\ HandInv
    BY <1>1 DEF IInv
  <2>2. ASSUME NEW x \in Holders(p), NEW y \in Holders(p) PROVE x = y
    <3>1. PICK g, h \in Full : /\ In(g).path = p /\ g \in {<<"object", x>>, <<"call", x>>}
                               /\ In(h).path = p /\ h \in {<<"object", y>>, <<"call", y>>}
      BY <2>1, HolderHasHand
    <3>2. g = h
      BY <2>1, <3>1 DEF HandInv
    <3>3. QED
      BY <3>1, <3>2
  <2>3. Cardinality(Holders(p)) <= 1
    <3>1. CASE Holders(p) = {}
      BY <3>1, FS_EmptySet
    <3>2. CASE Holders(p) # {}
      <4>1. PICK x : Holders(p) = {x}
        BY <2>2, <3>2
      <4>2. Cardinality({x}) = 1
        BY FS_Singleton
      <4>3. QED
        BY <4>1, <4>2
    <3>3. QED
      BY <3>1, <3>2
  <2>4. Holders(p) # {} => \E h \in Full : In(h).path = p
    BY <2>1, HolderHasHand
  <2>5. ASSUME NEW h \in Full, In(h).path = p PROVE Holders(p) # {}
    <3>1. CASE \E s \in Stores : h = <<"object", s>>
      BY <2>5, <3>1, InIs DEF Full, Holders
    <3>2. CASE \E t \in Threads : h = <<"call", t>>
      <4>1. PICK t \in Threads : h = <<"call", t>>
        BY <3>2
      <4>2. Current(t).taken # None /\ Current(t).taken.path = p
        BY <2>5, <4>1, InIs DEF Full
      <4>3. stack[t] # <<>>
        BY <4>2 DEF Current, Idle, NoCall
      <4>4. Current(t) \in Range(stack[t])
        BY <2>1, <4>3, CurrentShape
      <4>5. QED
        BY <4>2, <4>4 DEF Holders
    <3>3. QED
      BY <3>1, <3>2 DEF Full, Hands
  <2>6. p \in flock <=> \E h \in Full : In(h).path = p
    BY <2>1 DEF HandInv
  <2>7. QED
    BY <2>3, <2>4, <2>5, <2>6
<1>2. IInv => LockFollowsStore
  BY <1>1 DEF LockFollowsStore
<1>3. QED
  BY <1>2, Invariance, PTL

\* Nobody waits in a circle: who has a mutex is at work in Rust, attached, or a
\* put that waits for a SecretBuf whose holder is at work (lib.rs:165, 397, 514).
THEOREM MutexTheorem == Spec => []MutexHolderRuns
<1>1. ASSUME IInv, NEW o \in DOMAIN mutex, mutex[o] # None
      PROVE  LET t == mutex[o] IN
             /\ t \in attached /\ (At(t, "secret") \/ At(t, "work"))
             /\ At(t, "secret") => /\ o \in Stores
                                   /\ mutex[Top(t).buf] # None => At(mutex[Top(t).buf], "work")
  <2> USE DEF IInv
  <2>1. \A q \in DOMAIN mutex : mutex[q] # None =>
          /\ mutex[q] \in Threads /\ MutexOf(q, Current(mutex[q])) /\ stack[mutex[q]] # <<>>
          /\ Shape(Current(mutex[q])) /\ Current(mutex[q]) = Top(mutex[q])
    <3>1. ASSUME NEW q \in DOMAIN mutex, mutex[q] # None
          PROVE  /\ mutex[q] \in Threads /\ MutexOf(q, Current(mutex[q])) /\ stack[mutex[q]] # <<>>
                 /\ Shape(Current(mutex[q])) /\ Current(mutex[q]) = Top(mutex[q])
      <4>1. mutex[q] \in Threads /\ MutexOf(q, Current(mutex[q]))
        BY <1>1, <3>1 DEF TypeOK, MutexInv
      <4>2. stack[mutex[q]] # <<>>
        BY <4>1 DEF MutexOf, Current, Idle, NoCall
      <4>3. QED
        BY <1>1, <4>1, <4>2, CurrentShape
    <3>2. QED
      BY <3>1
  <2>2. PICK t, c : t \in Threads /\ t = mutex[o] /\ c = Top(t)
    BY <1>1, <2>1
  <2>3. MutexOf(o, c) /\ stack[t] # <<>> /\ Shape(c) /\ c = Current(t)
    BY <1>1, <2>1, <2>2
  <2>4. c.at \in {"secret", "work"} /\ (At(t, "secret") \/ At(t, "work"))
    BY <2>2, <2>3 DEF MutexOf, At
  <2>5. t \in attached
    <3>1. Has(t, c)
      BY <1>1, <2>2, <2>3 DEF CallInv
    <3>2. QED
      BY <2>4, <3>1 DEF Has
  <2>6. ASSUME At(t, "secret")
        PROVE  o \in Stores /\ (mutex[c.buf] # None => At(mutex[c.buf], "work"))
    <3>1. c.at = "secret" /\ c.op = "put" /\ c.store \in Stores /\ c.buf \in Bufs
      BY <2>2, <2>3, <2>6 DEF At, Shape, OnStore
    <3>2. o \in Stores
      BY <2>3, <3>1 DEF MutexOf, First, OnStore
    <3>3. ASSUME mutex[c.buf] # None PROVE At(mutex[c.buf], "work")
      <4>1. PICK u, d : u \in Threads /\ u = mutex[c.buf] /\ d = Top(u)
        BY <1>1, <2>1, <3>1, <3>3 DEF TypeOK
      <4>2. MutexOf(c.buf, d) /\ stack[u] # <<>> /\ Shape(d)
        BY <1>1, <2>1, <3>1, <3>3, <4>1 DEF TypeOK
      <4>3. d.at # "secret"
        <5>1. c.buf \notin Stores
          BY <3>1, PlacesAssumption
        <5>2. QED
          BY <4>2, <5>1 DEF MutexOf, First, OnStore, Shape
      <4>4. QED
        BY <4>1, <4>2, <4>3 DEF MutexOf, At
    <3>4. QED
      BY <3>2, <3>3
  <2>7. QED
    BY <2>2, <2>4, <2>5, <2>6
<1>2. IInv => MutexHolderRuns
  BY <1>1 DEF MutexHolderRuns
<1>3. QED
  BY <1>2, Invariance, PTL
================================================================================
