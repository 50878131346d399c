-------------------------- MODULE SecretMemoryProofs --------------------------
(***************************************************************************)
(* The pages of a secret: locked, kept out of dumps, guarded, given back    *)
(* and wiped, for any number of threads, any page size, address space, lock *)
(* limit and lengths, whichever call fails.  The properties speak of all     *)
(* pages at once; the invariant says of each buffer what its mapping has     *)
(* been through, and that no mapping meets another.                         *)
(***************************************************************************)
EXTENDS SecretMemory, FiniteSetTheorems, TLAPS

\* From here to its wipe a buffer may hold a secret.
Filled == {"fill", "wipe_source", "live", "zeroize"}

\* Who has a mapping, and when.
OwnInv ==
  \A b \in Bufs :
    /\ Owns(b) => len[b] # 0 /\ pc[b] \notin {"none", "mmap"}
    /\ pc[b] \in Setup \cup {"munmap"} => Owns(b)
    /\ pc[b] = "mmap" => len[b] # 0
    /\ pc[b] \in {"fill", "live", "zeroize"} => Built(b)

\* What the calls made so far have done to a mapping's pages.
GuardInv ==
  \A b \in Bufs : Owns(b) =>
    /\ Data(b) \cap noAccess = {}
    /\ pc[b] \in {"guard_back", "mlock", "madvise"} \cup Filled => base[b] \in noAccess
    /\ pc[b] \in {"mlock", "madvise"} \cup Filled => BackGuard(b) \in noAccess
    /\ pc[b] \in {"madvise"} \cup Filled => Data(b) \subseteq locked
    /\ pc[b] \in Filled => Data(b) \subseteq noDump

\* Where the secret's bytes are, in the mapping and in the Vec it came in.
SecretInv ==
  \A b \in Bufs :
    /\ Owns(b) => dirty \cap Mapping(b) \subseteq Touched(b)
    /\ pc[b] \in Setup \cup {"munmap"} => dirty \cap Mapping(b) = {}
    /\ pc[b] \in {"wipe_source", "live"} /\ Built(b) => Touched(b) \subseteq dirty
    /\ source[b] = "secret" => pc[b] \in {"mmap", "fill", "wipe_source", "munmap"} \cup Setup

IInv == TypeOK /\ OwnInv /\ NoStrandedPages /\ GuardInv /\ SecretInv /\ SecretsLocked

-----------------------------------------------------------------------------
\* The geometry of a mapping.

LEMMA DivLemma ==
  ASSUME NEW a \in Nat, NEW q \in Nat \ {0}
  PROVE  a \div q \in Nat /\ q * (a \div q) <= a /\ a < q * (a \div q) + q
BY Z3

LEMMA TimesCancels ==
  ASSUME NEW x \in Nat, NEW y \in Nat, NEW q \in Nat \ {0}, x * q < y * q
  PROVE  x < y
BY Z3

\* Enough pages for n bytes, and none for none.
LEMMA DataPagesHold ==
  ASSUME NEW n \in Nat
  PROVE  DataPages(n) \in Nat /\ n <= PageSize * DataPages(n) /\ DataPages(0) = 0
<1> DEFINE a == n + PageSize - 1
           d == a \div PageSize
<1>1. a \in Nat /\ PageSize \in Nat \ {0}
  BY SizeAssumption
<1>2. d \in Nat /\ PageSize * d <= a /\ a < PageSize * d + PageSize
  BY <1>1, DivLemma
<1>3. n <= PageSize * d
  <2>1. PageSize * d \in Nat
    BY <1>1, <1>2
  <2> HIDE DEF d
  <2>2. QED
    BY <1>1, <1>2, <2>1
<1>4. DataPages(0) = 0
  <2>1. PageSize - 1 \in Nat /\ 0 + PageSize - 1 = PageSize - 1
    BY <1>1
  <2> DEFINE z == (PageSize - 1) \div PageSize
  <2>2. z \in Nat /\ PageSize * z <= PageSize - 1
    BY <1>1, <2>1, DivLemma
  <2>3. z = 0
    <3>1. CASE z >= 1
      <4>1. PageSize * z >= PageSize
        BY <1>1, <2>2, <3>1
      <4>2. QED
        BY <1>1, <2>2, <4>1
    <3>2. QED
      BY <2>2, <3>1
  <2>4. QED
    BY <2>1, <2>3 DEF DataPages
<1>5. QED
  BY <1>2, <1>3, <1>4 DEF DataPages

\* The data pages of a buffer lie between its two guards, and hold its bytes.
LEMMA Geometry ==
  ASSUME TypeOK, NEW b \in Bufs
  PROVE  /\ Mapping(b) = {base[b], BackGuard(b)} \cup Data(b)
         /\ {base[b], BackGuard(b)} \cap Data(b) = {}
         /\ Touched(b) \subseteq Data(b)
         /\ len[b] = 0 => Touched(b) = {}
         /\ DataStart(b) + len[b] = BackGuard(b) * PageSize
<1> DEFINE p == base[b]
           n == len[b]
           d == DataPages(n)
<1>1. p \in Nat /\ n \in Nat /\ PageSize \in Nat \ {0}
  <2>1. base[b] \in 0..NumPages /\ len[b] \in Lens
    BY DEF TypeOK
  <2>2. base[b] \in Nat
    BY <2>1, SizeAssumption
  <2>3. len[b] \in 0..MaxUsize
    BY <2>1, SizeAssumption
  <2>4. QED
    BY <2>2, <2>3, SizeAssumption
<1>2. d \in Nat /\ n <= PageSize * d /\ (n = 0 => d = 0)
  BY <1>1, DataPagesHold
<1>3. /\ Mapping(b) = p..(p + d + 1) /\ Data(b) = (p + 1)..(p + d)
      /\ BackGuard(b) = p + d + 1 /\ DataStart(b) = (p + 1 + d) * PageSize - n
  BY DEF Mapping, PagesFrom, Data, BackGuard, DataStart
<1> HIDE DEF p, n, d
<1>4. /\ Mapping(b) = {p, BackGuard(b)} \cup Data(b)
      /\ {p, BackGuard(b)} \cap Data(b) = {}
  BY <1>1, <1>2, <1>3
<1>5. DataStart(b) + n = BackGuard(b) * PageSize
  BY <1>1, <1>2, <1>3
<1>6. /\ (p + 1) * PageSize <= DataStart(b) /\ DataStart(b) \in Nat
      /\ DataStart(b) + n = (p + 1 + d) * PageSize
  <2>1. (p + 1 + d) * PageSize = (p + 1) * PageSize + PageSize * d
    BY <1>1, <1>2
  <2>2. (p + 1) * PageSize \in Nat /\ PageSize * d \in Nat
    BY <1>1, <1>2
  <2>3. QED
    BY <1>1, <1>2, <1>3, <2>1, <2>2
<1>7. Touched(b) \subseteq Data(b)
  <2> SUFFICES ASSUME NEW a \in DataStart(b)..(DataStart(b) + n - 1)
               PROVE  a \div PageSize \in (p + 1)..(p + d)
    BY <1>3 DEF Touched, Bytes, n
  <2> DEFINE q == a \div PageSize
  <2>1. /\ a \in Nat /\ (p + 1) * PageSize <= a /\ a < (p + 1 + d) * PageSize
    <3>1. (p + 1) * PageSize \in Nat /\ (p + 1 + d) * PageSize \in Nat
      BY <1>1, <1>2
    <3>2. QED
      BY <1>1, <1>6, <3>1
  <2>2. q \in Nat /\ PageSize * q <= a /\ a < PageSize * q + PageSize
    BY <1>1, <2>1, DivLemma
  <2> HIDE DEF q
  <2>3. (p + 1) * PageSize < (q + 1) * PageSize
    <3>1. /\ (q + 1) * PageSize = PageSize * q + PageSize
          /\ PageSize * q \in Nat /\ (p + 1) * PageSize \in Nat
      BY <1>1, <2>2
    <3>2. QED
      BY <1>1, <2>1, <2>2, <3>1
  <2>4. q * PageSize < (p + 1 + d) * PageSize
    <3>1. /\ q * PageSize = PageSize * q
          /\ PageSize * q \in Nat /\ (p + 1 + d) * PageSize \in Nat
      BY <1>1, <1>2, <2>2
    <3>2. QED
      BY <2>1, <2>2, <3>1
  <2>5. p + 1 < q + 1
    BY <1>1, <2>2, <2>3, TimesCancels
  <2>6. q < p + 1 + d
    BY <1>1, <1>2, <2>2, <2>4, TimesCancels
  <2>7. QED
    BY <1>1, <1>2, <2>2, <2>5, <2>6 DEF q
<1>8. n = 0 => Touched(b) = {}
  <2>1. CASE n = 0
    <3>1. Data(b) = (p + 1)..(p + 0)
      BY <1>2, <1>3, <2>1
    <3>2. Data(b) = {}
      BY <1>1, <3>1
    <3>3. QED
      BY <1>7, <3>2
  <2>2. QED
    BY <2>1
<1>9. QED
  BY <1>4, <1>5, <1>7, <1>8 DEF p, n

-----------------------------------------------------------------------------
\* Type correctness: every call of a buffer stays within its own mapping.

LEMMA OwnedPages ==
  ASSUME NoStrandedPages, NEW b \in Bufs, Owns(b)
  PROVE  Mapping(b) \subseteq mapped \ leaked
BY DEF NoStrandedPages

LEMMA FewerLocked ==
  ASSUME TypeOK, NEW S, S \subseteq locked
  PROVE  Cardinality(S) <= LockLimit
<1>1. IsFiniteSet(AllPages)
  BY SizeAssumption, FS_Interval DEF AllPages
<1>2. IsFiniteSet(locked)
  BY <1>1, FS_Subset DEF TypeOK
<1>3. Cardinality(S) <= Cardinality(locked) /\ IsFiniteSet(S)
  BY <1>2, FS_Subset
<1>4. Cardinality(S) \in Nat /\ Cardinality(locked) \in Nat
  BY <1>2, <1>3, FS_CardinalityType
<1>5. QED
  BY <1>3, <1>4, SizeAssumption DEF TypeOK

LEMMA TypeStep ==
  ASSUME TypeOK, OwnInv, NoStrandedPages, [Next]_vars
  PROVE  TypeOK'
<1> USE DEF TypeOK, GoTo
<1>1. ASSUME NEW b \in Bufs, Begin(b) \/ MmapFails(b)
      PROVE  TypeOK'
  BY <1>1 DEF Begin, MmapFails, NoPages, Stages, pages
<1>2. ASSUME NEW b \in Bufs, Mmap(b)
      PROVE  TypeOK'
  <2>1. PICK p \in AllPages :
          /\ base' = [base EXCEPT ![b] = p]
          /\ PagesFrom(p, len[b]) \subseteq AllPages \ mapped
          /\ mapped' = mapped \cup PagesFrom(p, len[b])
    BY <1>2 DEF Mmap
  <2>2. p \in 0..NumPages
    BY SizeAssumption DEF AllPages
  <2>3. base' \in [Bufs -> 0..NumPages] /\ mapped \subseteq mapped' /\ mapped' \subseteq AllPages
    BY <2>1, <2>2
  <2>4. QED
    BY <1>2, <2>3 DEF Mmap, Stages, Setup
<1>3. ASSUME NEW b \in Bufs, GuardFront(b) \/ GuardBack(b) \/ Mlock(b) \/ Madvise(b) \/ SetupFails(b)
      PROVE  TypeOK'
  <2>1. {base[b], BackGuard(b)} \cup Data(b) \subseteq mapped
    <3>1. Owns(b)
      BY <1>3 DEF OwnInv, Setup, GuardFront, GuardBack, Mlock, Madvise, SetupFails
    <3>2. QED
      BY <3>1, OwnedPages, Geometry
  <2>2. pc' \in [Bufs -> Stages] /\ UNCHANGED <<len, base, source, mapped, dirty, leaked>>
    BY <1>3 DEF GuardFront, GuardBack, Mlock, Madvise, SetupFails, Stages, Setup, pages
  <2>3. noAccess' \subseteq mapped
    BY <1>3, <2>1 DEF GuardFront, GuardBack, Mlock, Madvise, SetupFails, pages
  <2>4. locked' \subseteq mapped /\ Cardinality(locked') <= LockLimit
    BY <1>3, <2>1 DEF GuardFront, GuardBack, Mlock, Madvise, SetupFails, pages
  <2>5. noDump' \subseteq mapped
    BY <1>3, <2>1 DEF GuardFront, GuardBack, Mlock, Madvise, SetupFails, pages
  <2>6. QED
    BY <2>2, <2>3, <2>4, <2>5
<1>4. ASSUME NEW b \in Bufs, Fill(b) \/ FillFails(b) \/ WipeSource(b) \/ DropBuf(b) \/ Zeroize(b)
      PROVE  TypeOK'
  <2>1. pc[b] = "fill" => Touched(b) \subseteq mapped
    <3>1. pc[b] = "fill" => len[b] = 0 \/ Owns(b)
      BY DEF OwnInv, Built
    <3>2. QED
      BY <3>1, OwnedPages, Geometry
  <2>2. /\ pc' \in [Bufs -> Stages] /\ source' \in [Bufs -> {"absent", "secret", "wiped"}]
        /\ UNCHANGED <<len, base, mapped, noAccess, locked, noDump, leaked>>
    BY <1>4 DEF Fill, FillFails, WipeSource, DropBuf, Zeroize, Stages, pages
  <2>3. dirty' \subseteq mapped
    BY <1>4, <2>1 DEF Fill, FillFails, WipeSource, DropBuf, Zeroize, pages
  <2>4. QED
    BY <2>2, <2>3
<1>5. ASSUME NEW b \in Bufs, Munmap(b) \/ MunmapFails(b)
      PROVE  TypeOK'
  <2>1. Mapping(b) \subseteq mapped \ leaked
    <3>1. Owns(b)
      BY <1>5 DEF OwnInv, Munmap, MunmapFails
    <3>2. QED
      BY <3>1, OwnedPages
  <2>2. NumPages \in 0..NumPages
    BY SizeAssumption
  <2>3. pc' \in [Bufs -> Stages] /\ base' \in [Bufs -> 0..NumPages] /\ UNCHANGED <<len, source>>
    BY <1>5, <2>2 DEF Munmap, MunmapFails, NoPages, Stages
  <2>4. /\ mapped' \subseteq mapped /\ leaked' \subseteq mapped'
        /\ noAccess' \subseteq mapped' /\ locked' \subseteq mapped' /\ locked' \subseteq locked
        /\ noDump' \subseteq mapped' /\ dirty' \subseteq mapped'
    <3>1. CASE Munmap(b)
      BY <2>1, <3>1 DEF Munmap
    <3>2. CASE MunmapFails(b)
      BY <2>1, <3>2 DEF MunmapFails, pages
    <3>3. QED
      BY <1>5, <3>1, <3>2
  <2>5. Cardinality(locked') <= LockLimit
    BY <2>4, FewerLocked
  <2>6. QED
    BY <2>3, <2>4, <2>5
<1>6. CASE UNCHANGED vars
  BY <1>6 DEF vars, pages
<1>7. QED
  BY <1>1, <1>2, <1>3, <1>4, <1>5, <1>6 DEF Next, BufStep

-----------------------------------------------------------------------------
\* Who owns what.

LEMMA OwnStep ==
  ASSUME TypeOK, OwnInv, [Next]_vars
  PROVE  OwnInv'
<1> USE DEF TypeOK, OwnInv, Owns, Built, GoTo, NoPages, Setup
<1>1. ASSUME NEW b \in Bufs, Begin(b)
      PROVE  OwnInv'
  BY <1>1, SizeAssumption DEF Begin
<1>2. ASSUME NEW b \in Bufs, Mmap(b)
      PROVE  OwnInv'
  <2>1. NumPages \notin AllPages
    BY SizeAssumption DEF AllPages
  <2>2. QED
    BY <1>2, <2>1 DEF Mmap
<1>3. ASSUME NEW b \in Bufs,
             MmapFails(b) \/ GuardFront(b) \/ GuardBack(b) \/ Mlock(b) \/ Madvise(b) \/ SetupFails(b)
      PROVE  OwnInv'
  BY <1>3 DEF MmapFails, GuardFront, GuardBack, Mlock, Madvise, SetupFails
<1>4. ASSUME NEW b \in Bufs, Fill(b) \/ FillFails(b) \/ WipeSource(b) \/ DropBuf(b) \/ Zeroize(b)
      PROVE  OwnInv'
  BY <1>4 DEF Fill, FillFails, WipeSource, DropBuf, Zeroize
<1>5. ASSUME NEW b \in Bufs, Munmap(b) \/ MunmapFails(b)
      PROVE  OwnInv'
  BY <1>5 DEF Munmap, MunmapFails
<1>6. CASE UNCHANGED vars
  BY <1>6 DEF vars
<1>7. QED
  BY <1>1, <1>2, <1>3, <1>4, <1>5, <1>6 DEF Next, BufStep

-----------------------------------------------------------------------------
\* No page without an owner, none with two.

\* A buffer whose place and length stay keeps its mapping.
LEMMA SamePlace ==
  ASSUME NEW b \in Bufs, base'[b] = base[b], len'[b] = len[b]
  PROVE  /\ Mapping(b)' = Mapping(b) /\ Data(b)' = Data(b) /\ BackGuard(b)' = BackGuard(b)
         /\ DataStart(b)' = DataStart(b) /\ Touched(b)' = Touched(b)
         /\ Owns(b)' = Owns(b) /\ Built(b)' = Built(b)
BY DEF Mapping, Data, BackGuard, DataStart, Touched, Bytes, Owns, Built, DataPages, PagesFrom

LEMMA StrandedStep ==
  ASSUME TypeOK, OwnInv, NoStrandedPages, [Next]_vars
  PROVE  NoStrandedPages'
<1> DEFINE O == {c \in Bufs : Owns(c)}
<1>1. ASSUME UNCHANGED <<mapped, leaked>>, O' = O, \A c \in O : Mapping(c)' = Mapping(c)
      PROVE  NoStrandedPages'
  <2>1. \A c \in Bufs : Owns(c)' <=> Owns(c)
    BY <1>1
  <2>2. \A p : (\E c \in O' : p \in Mapping(c)') <=> (\E c \in O : p \in Mapping(c))
    BY <1>1
  <2>3. UNION {Mapping(c)' : c \in O'} = UNION {Mapping(c) : c \in O}
    BY <2>2
  <2>4. \A c, d \in Bufs : c # d /\ Owns(c)' /\ Owns(d)' => Mapping(c)' \cap Mapping(d)' = {}
    BY <1>1, <2>1 DEF NoStrandedPages
  <2>5. QED
    BY <1>1, <2>3, <2>4 DEF NoStrandedPages
<1>2. ASSUME NEW b \in Bufs, Begin(b)
      PROVE  NoStrandedPages'
  <2>1. ~Owns(b) /\ UNCHANGED <<base, mapped, leaked>>
        /\ \A c \in Bufs \ {b} : len'[c] = len[c]
    BY <1>2 DEF Begin, OwnInv, TypeOK, pages
  <2>2. \A c \in Bufs : Owns(c)' = Owns(c)
    BY <2>1 DEF Owns
  <2>3. \A c \in O : Mapping(c)' = Mapping(c)
    BY <2>1, SamePlace
  <2>4. QED
    BY <1>1, <2>1, <2>2, <2>3
<1>3. ASSUME UNCHANGED <<base, len, mapped, leaked>>
      PROVE  NoStrandedPages'
  BY <1>1, <1>3, SamePlace
<1>4. ASSUME NEW b \in Bufs,
             \/ MmapFails(b) \/ GuardFront(b) \/ GuardBack(b) \/ Mlock(b) \/ Madvise(b)
             \/ SetupFails(b) \/ Fill(b) \/ FillFails(b) \/ WipeSource(b) \/ DropBuf(b)
             \/ Zeroize(b)
      PROVE  NoStrandedPages'
  <2>1. UNCHANGED <<base, len, mapped, leaked>>
    BY <1>4 DEF MmapFails, GuardFront, GuardBack, Mlock, Madvise, SetupFails, Fill,
                FillFails, WipeSource, DropBuf, Zeroize, pages
  <2>2. QED
    BY <1>3, <2>1
<1>5. ASSUME NEW b \in Bufs, Mmap(b)
      PROVE  NoStrandedPages'
  <2>1. PICK p \in AllPages :
          /\ base' = [base EXCEPT ![b] = p]
          /\ PagesFrom(p, len[b]) \subseteq AllPages \ mapped
          /\ mapped' = mapped \cup PagesFrom(p, len[b])
    BY <1>5 DEF Mmap
  <2>2. UNCHANGED <<len, leaked>>
    BY <1>5 DEF Mmap
  <2>3. ~Owns(b) /\ Owns(b)' /\ Mapping(b)' = PagesFrom(p, len[b])
    <3>1. p # NumPages /\ base'[b] = p
      BY <2>1, SizeAssumption DEF AllPages, TypeOK
    <3>2. pc[b] = "mmap"
      BY <1>5 DEF Mmap
    <3>3. QED
      BY <2>2, <3>1, <3>2 DEF OwnInv, Owns, Mapping, PagesFrom, DataPages
  <2>4. \A c \in Bufs \ {b} : Owns(c)' = Owns(c) /\ Mapping(c)' = Mapping(c)
    BY <2>1, <2>2, SamePlace DEF TypeOK
  <2> DEFINE New == PagesFrom(p, len[b])
  <2> HIDE DEF New
  <2>5. \A q : (\E c \in O' : q \in Mapping(c)') <=> (\E c \in O : q \in Mapping(c)) \/ q \in New
    BY <2>3, <2>4 DEF New
  <2>6. UNION {Mapping(c)' : c \in O'} = (UNION {Mapping(c) : c \in O}) \cup New
    BY <2>5
  <2>7. mapped' \ leaked' = (mapped \ leaked) \cup New
    BY <2>1, <2>2 DEF TypeOK, New
  <2>8. \A c \in O : Mapping(c) \cap New = {}
    BY <2>1, OwnedPages DEF New
  <2>9. \A c, d \in Bufs : c # d /\ Owns(c)' /\ Owns(d)' => Mapping(c)' \cap Mapping(d)' = {}
    BY <2>3, <2>4, <2>8 DEF NoStrandedPages, New
  <2>10. QED
    BY <2>6, <2>7, <2>9 DEF NoStrandedPages
<1>6. ASSUME NEW b \in Bufs, Munmap(b) \/ MunmapFails(b)
      PROVE  NoStrandedPages'
  <2>1. /\ base' = [base EXCEPT ![b] = NumPages] /\ len' = len /\ Owns(b)
        /\ mapped' \ leaked' = (mapped \ leaked) \ Mapping(b)
    BY <1>6 DEF Munmap, MunmapFails, OwnInv, pages, TypeOK
  <2>2. ~Owns(b)'
    BY <2>1 DEF Owns, TypeOK
  <2>3. \A c \in Bufs \ {b} : Owns(c)' = Owns(c) /\ Mapping(c)' = Mapping(c)
    BY <2>1, SamePlace DEF TypeOK
  <2>4. \A c \in O \ {b} : Mapping(c) \cap Mapping(b) = {}
    BY <2>1 DEF NoStrandedPages
  <2>5. \A q : (\E c \in O' : q \in Mapping(c)')
                 <=> (\E c \in O : q \in Mapping(c)) /\ q \notin Mapping(b)
    BY <2>1, <2>2, <2>3, <2>4
  <2>6. UNION {Mapping(c)' : c \in O'} = (UNION {Mapping(c) : c \in O}) \ Mapping(b)
    BY <2>5
  <2>7. \A c, d \in Bufs : c # d /\ Owns(c)' /\ Owns(d)' => Mapping(c)' \cap Mapping(d)' = {}
    BY <2>2, <2>3 DEF NoStrandedPages
  <2>8. QED
    BY <2>1, <2>6, <2>7 DEF NoStrandedPages
<1>7. CASE UNCHANGED vars
  BY <1>3, <1>7 DEF vars, pages
<1>8. QED
  BY <1>2, <1>4, <1>5, <1>6, <1>7 DEF Next, BufStep

-----------------------------------------------------------------------------
\* What each mapping has been through.  A call on one mapping reaches no other.

LEMMA Apart ==
  ASSUME TypeOK, NoStrandedPages, NEW b \in Bufs, NEW c \in Bufs \ {b}, Owns(b), Owns(c)
  PROVE  /\ Mapping(b) \cap Mapping(c) = {}
         /\ Data(c) \subseteq Mapping(c) /\ base[c] \in Mapping(c) /\ BackGuard(c) \in Mapping(c)
<1>1. Mapping(b) \cap Mapping(c) = {}
  BY DEF NoStrandedPages
<1>2. QED
  BY <1>1, Geometry

LEMMA GuardStep ==
  ASSUME TypeOK, OwnInv, NoStrandedPages, GuardInv, [Next]_vars
  PROVE  GuardInv'
<1> USE DEF Setup, Filled
<1>1. ASSUME NEW b \in Bufs, Begin(b) \/ MmapFails(b)
      PROVE  GuardInv'
  <2>1. /\ ~Owns(b) /\ UNCHANGED <<base, noAccess, locked, noDump>>
        /\ \A c \in Bufs \ {b} : len'[c] = len[c] /\ pc'[c] = pc[c]
    BY <1>1 DEF Begin, MmapFails, NoPages, GoTo, OwnInv, TypeOK, pages
  <2>2. ~Owns(b)'
    BY <2>1 DEF Owns
  <2>3. QED
    BY <2>1, <2>2, SamePlace DEF GuardInv
<1>2. ASSUME NEW b \in Bufs, Mmap(b)
      PROVE  GuardInv'
  <2>1. PICK p \in AllPages :
          /\ base' = [base EXCEPT ![b] = p]
          /\ PagesFrom(p, len[b]) \subseteq AllPages \ mapped
    BY <1>2 DEF Mmap
  <2>2. UNCHANGED <<len, noAccess, locked, noDump>> /\ pc' = [pc EXCEPT ![b] = "guard_front"]
    BY <1>2 DEF Mmap, GoTo
  <2>3. \A c \in Bufs \ {b} : base'[c] = base[c] /\ len'[c] = len[c] /\ pc'[c] = pc[c]
    BY <2>1, <2>2 DEF TypeOK
  <2>4. Data(b)' \cap noAccess' = {} /\ pc'[b] = "guard_front"
    <3>1. base'[b] = p /\ len'[b] = len[b] /\ p \in Nat /\ DataPages(len[b]) \in Nat
      <4>1. len[b] \in 0..MaxUsize
        BY SizeAssumption DEF TypeOK
      <4>2. len[b] \in Nat
        BY <4>1, SizeAssumption
      <4>3. QED
        BY <2>1, <2>2, <4>2, DataPagesHold, SizeAssumption DEF TypeOK, AllPages
    <3>2. Data(b)' = (p + 1)..(p + DataPages(len[b]))
      BY <3>1 DEF Data, DataPages
    <3>3. Data(b)' \subseteq PagesFrom(p, len[b])
      BY <3>1, <3>2 DEF PagesFrom
    <3>4. QED
      BY <2>1, <2>2, <3>3 DEF TypeOK
  <2>5. QED
    BY <2>2, <2>3, <2>4, SamePlace DEF GuardInv
<1>3. ASSUME NEW b \in Bufs, GuardFront(b) \/ GuardBack(b) \/ Mlock(b) \/ Madvise(b) \/ SetupFails(b)
      PROVE  GuardInv'
  <2>1. Owns(b) /\ UNCHANGED <<base, len>> /\ \A c \in Bufs \ {b} : pc'[c] = pc[c]
    BY <1>3 DEF OwnInv, GuardFront, GuardBack, Mlock, Madvise, SetupFails, GoTo, TypeOK
  <2>2. /\ noAccess \subseteq noAccess' /\ noAccess' \subseteq noAccess \cup {base[b], BackGuard(b)}
        /\ locked \subseteq locked' /\ noDump \subseteq noDump'
    BY <1>3 DEF GuardFront, GuardBack, Mlock, Madvise, SetupFails, pages
  <2>3. ASSUME NEW c \in Bufs \ {b}, Owns(c)
        PROVE  Data(c) \cap noAccess' = {}
    <3>1. base[b] \notin Data(c) /\ BackGuard(b) \notin Data(c)
      BY <2>1, <2>3, Apart, Geometry
    <3>2. QED
      BY <2>2, <2>3, <3>1 DEF GuardInv
  <2>4. Data(b) \cap noAccess' = {}
    BY <2>1, <2>2, Geometry DEF GuardInv
  <2>5. /\ pc'[b] \in {"guard_back", "mlock", "madvise"} \cup Filled => base[b] \in noAccess'
        /\ pc'[b] \in {"mlock", "madvise"} \cup Filled => BackGuard(b) \in noAccess'
        /\ pc'[b] \in {"madvise"} \cup Filled => Data(b) \subseteq locked'
        /\ pc'[b] \in Filled => Data(b) \subseteq noDump'
    BY <1>3, <2>1 DEF GuardFront, GuardBack, Mlock, Madvise, SetupFails, GoTo, GuardInv, TypeOK, pages
  <2>6. QED
    BY <2>1, <2>2, <2>3, <2>4, <2>5, SamePlace DEF GuardInv
<1>4. ASSUME NEW b \in Bufs, Fill(b) \/ FillFails(b) \/ WipeSource(b) \/ DropBuf(b) \/ Zeroize(b)
      PROVE  GuardInv'
  <2>1. /\ UNCHANGED <<base, len, noAccess, locked, noDump>>
        /\ \A c \in Bufs \ {b} : pc'[c] = pc[c]
        /\ pc'[b] \in Filled \cup {"none", "munmap"} /\ pc[b] \in Filled
    BY <1>4 DEF Fill, FillFails, WipeSource, DropBuf, Zeroize, GoTo, TypeOK, pages
  <2>2. QED
    BY <2>1, SamePlace DEF GuardInv
<1>5. ASSUME NEW b \in Bufs, Munmap(b) \/ MunmapFails(b)
      PROVE  GuardInv'
  <2>1. /\ Owns(b) /\ base' = [base EXCEPT ![b] = NumPages] /\ len' = len
        /\ \A c \in Bufs \ {b} : pc'[c] = pc[c]
        /\ noAccess' \subseteq noAccess /\ noAccess \ Mapping(b) \subseteq noAccess'
        /\ locked \ Mapping(b) \subseteq locked' /\ noDump \ Mapping(b) \subseteq noDump'
    BY <1>5 DEF Munmap, MunmapFails, OwnInv, pages, TypeOK, NoPages, GoTo
  <2>2. ~Owns(b)' /\ \A c \in Bufs \ {b} : base'[c] = base[c] /\ len'[c] = len[c]
    BY <2>1 DEF Owns, TypeOK
  <2>3. ASSUME NEW c \in Bufs \ {b}, Owns(c)
        PROVE  /\ Data(c) \cap noAccess' = {}
               /\ base[c] \in noAccess => base[c] \in noAccess'
               /\ BackGuard(c) \in noAccess => BackGuard(c) \in noAccess'
               /\ Data(c) \subseteq locked => Data(c) \subseteq locked'
               /\ Data(c) \subseteq noDump => Data(c) \subseteq noDump'
    <3>1. /\ Mapping(b) \cap Data(c) = {}
          /\ base[c] \notin Mapping(b) /\ BackGuard(c) \notin Mapping(b)
      BY <2>1, <2>3, Apart
    <3>2. Data(c) \cap noAccess = {}
      BY <2>3 DEF GuardInv
    <3>3. QED
      BY <2>1, <3>1, <3>2
  <2>4. QED
    BY <2>1, <2>2, <2>3, SamePlace DEF GuardInv
<1>6. CASE UNCHANGED vars
  BY <1>6, SamePlace DEF vars, pages, GuardInv
<1>7. QED
  BY <1>1, <1>2, <1>3, <1>4, <1>5, <1>6 DEF Next, BufStep

-----------------------------------------------------------------------------
\* Where the bytes of a secret are.

\* A step of b that keeps every place, and writes or wipes nothing outside b.
LEMMA SecretElsewhere ==
  ASSUME TypeOK, OwnInv, NoStrandedPages, SecretInv, NEW b \in Bufs,
         NEW c \in Bufs \ {b}, base'[c] = base[c], len'[c] = len[c], pc'[c] = pc[c],
         source'[c] = source[c],
         NEW S, dirty \ S \subseteq dirty', dirty' \subseteq dirty \cup S,
         Owns(b) => S \subseteq Mapping(b), ~Owns(b) => S = {}
  PROVE  /\ Owns(c)' => dirty' \cap Mapping(c)' \subseteq Touched(c)'
         /\ pc'[c] \in Setup \cup {"munmap"} => dirty' \cap Mapping(c)' = {}
         /\ pc'[c] \in {"wipe_source", "live"} /\ Built(c)' => Touched(c)' \subseteq dirty'
         /\ source'[c] = "secret" => pc'[c] \in {"mmap", "fill", "wipe_source", "munmap"} \cup Setup
<1>1. /\ Mapping(c)' = Mapping(c) /\ Touched(c)' = Touched(c)
      /\ Owns(c)' = Owns(c) /\ Built(c)' = Built(c)
  BY SamePlace
<1>2. ASSUME Owns(c)
      PROVE  S \cap Mapping(c) = {} /\ Touched(c) \subseteq Mapping(c)
  BY <1>2, Apart, Geometry
<1>3. ASSUME Built(c), ~Owns(c)
      PROVE  Touched(c) = {}
  BY <1>3, Geometry DEF Built
<1>4. Owns(c) => dirty' \cap Mapping(c) \subseteq Touched(c)
  BY <1>2 DEF SecretInv
<1>5. pc[c] \in Setup \cup {"munmap"} => dirty' \cap Mapping(c) = {}
  <2>1. pc[c] \in Setup \cup {"munmap"} => Owns(c)
    BY DEF OwnInv
  <2>2. QED
    BY <1>2, <2>1 DEF SecretInv
<1>6. pc[c] \in {"wipe_source", "live"} /\ Built(c) => Touched(c) \subseteq dirty'
  BY <1>2, <1>3 DEF SecretInv
<1>7. QED
  BY <1>1, <1>4, <1>5, <1>6 DEF SecretInv

LEMMA SecretStep ==
  ASSUME TypeOK, OwnInv, NoStrandedPages, SecretInv, [Next]_vars
  PROVE  SecretInv'
<1> DEFINE Of(c) ==
             /\ Owns(c) => dirty \cap Mapping(c) \subseteq Touched(c)
             /\ pc[c] \in Setup \cup {"munmap"} => dirty \cap Mapping(c) = {}
             /\ pc[c] \in {"wipe_source", "live"} /\ Built(c) => Touched(c) \subseteq dirty
             /\ source[c] = "secret" => pc[c] \in {"mmap", "fill", "wipe_source", "munmap"} \cup Setup
<1>1. ASSUME NEW b \in Bufs, Begin(b) \/ MmapFails(b)
      PROVE  SecretInv'
  <2>1. /\ ~Owns(b) /\ UNCHANGED <<base, dirty>>
        /\ \A c \in Bufs \ {b} : len'[c] = len[c] /\ pc'[c] = pc[c] /\ source'[c] = source[c]
    BY <1>1 DEF Begin, MmapFails, NoPages, GoTo, OwnInv, TypeOK, pages, Owns
  <2>2. \A c \in Bufs \ {b} : Of(c)'
    BY <2>1, SecretElsewhere
  <2>3. ~Owns(b)'
    BY <2>1 DEF Owns
  <2>4. pc'[b] \notin Setup \cup {"munmap", "live"} /\ (pc'[b] = "wipe_source" => len'[b] # 0)
    <3>1. ~TooLarge(0)
      BY SizeAssumption, DataPagesHold DEF TooLarge
    <3>2. CASE Begin(b)
      BY <3>1, <3>2 DEF Begin, NoPages, GoTo, Setup, TypeOK
    <3>3. CASE MmapFails(b)
      BY <3>3 DEF MmapFails, NoPages, GoTo, Setup, TypeOK, OwnInv
    <3>4. QED
      BY <1>1, <3>2, <3>3
  <2>5. source'[b] = "secret" => pc'[b] \in {"mmap", "fill", "wipe_source"}
    BY <1>1 DEF Begin, MmapFails, NoPages, GoTo, TypeOK
  <2>6. Of(b)'
    BY <2>3, <2>4, <2>5 DEF Built
  <2>7. QED
    BY <2>2, <2>6 DEF SecretInv
<1>2. ASSUME NEW b \in Bufs, Mmap(b)
      PROVE  SecretInv'
  <2>1. PICK p \in AllPages :
          /\ base' = [base EXCEPT ![b] = p]
          /\ PagesFrom(p, len[b]) \subseteq AllPages \ mapped
    BY <1>2 DEF Mmap
  <2>2. UNCHANGED <<len, source, dirty>> /\ pc' = [pc EXCEPT ![b] = "guard_front"] /\ ~Owns(b)
    BY <1>2 DEF Mmap, GoTo, OwnInv
  <2>3. \A c \in Bufs \ {b} : base'[c] = base[c] /\ len'[c] = len[c] /\ pc'[c] = pc[c]
    BY <2>1, <2>2 DEF TypeOK
  <2>4. \A c \in Bufs \ {b} : Of(c)'
    BY <2>2, <2>3, SecretElsewhere
  <2>5. pc'[b] = "guard_front" /\ dirty' \cap Mapping(b)' = {}
    <3>1. Mapping(b)' = PagesFrom(p, len[b])
      BY <2>1, <2>2 DEF Mapping, PagesFrom, DataPages, TypeOK
    <3>2. QED
      BY <2>1, <2>2, <3>1 DEF TypeOK
  <2>6. Of(b)'
    BY <2>5 DEF Setup
  <2>7. QED
    BY <2>4, <2>6 DEF SecretInv
<1>3. ASSUME NEW b \in Bufs, GuardFront(b) \/ GuardBack(b) \/ Mlock(b) \/ Madvise(b) \/ SetupFails(b)
      PROVE  SecretInv'
  <2>1. /\ UNCHANGED <<base, len, source, dirty>> /\ pc[b] \in Setup
        /\ pc'[b] \in Setup \cup {"fill", "munmap"}
        /\ \A c \in Bufs \ {b} : pc'[c] = pc[c]
    BY <1>3 DEF GuardFront, GuardBack, Mlock, Madvise, SetupFails, GoTo, TypeOK, Setup, pages
  <2>2. \A c \in Bufs \ {b} : Of(c)'
    BY <2>1, SecretElsewhere
  <2>3. Of(b)'
    BY <2>1, SamePlace DEF SecretInv, Setup
  <2>4. QED
    BY <2>2, <2>3 DEF SecretInv
<1>4. ASSUME NEW b \in Bufs, Fill(b) \/ FillFails(b) \/ WipeSource(b) \/ DropBuf(b) \/ Zeroize(b)
      PROVE  SecretInv'
  <2>1. /\ UNCHANGED <<base, len>>
        /\ \A c \in Bufs \ {b} : pc'[c] = pc[c] /\ source'[c] = source[c]
        /\ dirty \ Touched(b) \subseteq dirty' /\ dirty' \subseteq dirty \cup Touched(b)
        /\ pc[b] \in {"wipe_source", "live"} => dirty' = dirty
    BY <1>4 DEF Fill, FillFails, WipeSource, DropBuf, Zeroize, GoTo, TypeOK, pages
  <2>2. pc[b] # "wipe_source" => Built(b)
    BY <1>4 DEF OwnInv, Fill, FillFails, WipeSource, DropBuf, Zeroize
  <2>3. (Owns(b) => Touched(b) \subseteq Mapping(b)) /\ (Built(b) /\ ~Owns(b) => Touched(b) = {})
    BY Geometry DEF Built
  <2>4. \A c \in Bufs \ {b} : Of(c)'
    <3> DEFINE S == IF Built(b) THEN Touched(b) ELSE {}
    <3>1. dirty \ S \subseteq dirty' /\ dirty' \subseteq dirty \cup S
      BY <2>1, <2>2
    <3>2. (Owns(b) => S \subseteq Mapping(b)) /\ (~Owns(b) => S = {})
      BY <2>3
    <3> HIDE DEF S
    <3>3. QED
      BY <2>1, <3>1, <3>2, SecretElsewhere
  <2>5. /\ Mapping(b)' = Mapping(b) /\ Touched(b)' = Touched(b)
        /\ Owns(b)' = Owns(b) /\ Built(b)' = Built(b)
    BY <2>1, SamePlace
  <2>6. Owns(b) => dirty' \cap Mapping(b) \subseteq Touched(b)
    BY <2>1 DEF SecretInv
  <2>7. pc'[b] \in {"wipe_source", "live"} /\ Built(b) => Touched(b) \subseteq dirty'
    BY <1>4 DEF Fill, FillFails, WipeSource, DropBuf, Zeroize, GoTo, TypeOK, pages, SecretInv
  <2>8. pc'[b] \notin Setup /\ (pc'[b] = "munmap" => dirty' \cap Mapping(b) = {})
    <3>1. CASE Zeroize(b)
      <4>1. dirty' = dirty \ Touched(b) /\ pc'[b] \in {"none", "munmap"}
        BY <3>1 DEF Zeroize, GoTo, TypeOK
      <4>2. pc'[b] = "munmap" => Owns(b)
        BY <2>2, <3>1 DEF Zeroize, GoTo, TypeOK, Built
      <4>3. QED
        BY <2>6, <4>1, <4>2 DEF Setup
    <3>2. CASE Fill(b) \/ FillFails(b) \/ WipeSource(b) \/ DropBuf(b)
      BY <3>2 DEF Fill, FillFails, WipeSource, DropBuf, GoTo, TypeOK, Setup
    <3>3. QED
      BY <1>4, <3>1, <3>2
  <2>9. source'[b] = "secret" => pc'[b] \in {"fill", "wipe_source", "munmap"}
    BY <1>4 DEF Fill, FillFails, WipeSource, DropBuf, Zeroize, GoTo, TypeOK, SecretInv, Setup
  <2>10. Of(b)'
    BY <2>5, <2>6, <2>7, <2>8, <2>9
  <2>11. QED
    BY <2>4, <2>10 DEF SecretInv
<1>5. ASSUME NEW b \in Bufs, Munmap(b) \/ MunmapFails(b)
      PROVE  SecretInv'
  <2>1. /\ Owns(b) /\ base' = [base EXCEPT ![b] = NumPages] /\ UNCHANGED <<len, source>>
        /\ \A c \in Bufs \ {b} : pc'[c] = pc[c] /\ base'[c] = base[c]
        /\ dirty \ Mapping(b) \subseteq dirty' /\ dirty' \subseteq dirty
        /\ pc'[b] = IF source[b] = "secret" THEN "wipe_source" ELSE "none"
    BY <1>5 DEF Munmap, MunmapFails, OwnInv, pages, TypeOK, NoPages, GoTo
  <2>2. \A c \in Bufs \ {b} : Of(c)'
    BY <2>1, SecretElsewhere
  <2>3. ~Built(b)' /\ ~Owns(b)'
    BY <2>1 DEF Owns, Built, OwnInv, TypeOK
  <2>4. Of(b)'
    BY <2>1, <2>3 DEF Setup
  <2>5. QED
    BY <2>2, <2>4 DEF SecretInv
<1>6. CASE UNCHANGED vars
  BY <1>6, SamePlace DEF vars, pages, SecretInv
<1>7. QED
  BY <1>1, <1>2, <1>3, <1>4, <1>5, <1>6 DEF Next, BufStep

-----------------------------------------------------------------------------
\* Secrets are written to locked pages only, and a page is unlocked only clean.

LEMMA LockedStep ==
  ASSUME IInv, [Next]_vars
  PROVE  SecretsLocked'
<1> USE DEF IInv, SecretsLocked
<1>1. ASSUME NEW b \in Bufs, GuardFront(b) \/ GuardBack(b)
      PROVE  SecretsLocked'
  <2>1. /\ UNCHANGED <<dirty, locked, noDump>>
        /\ noAccess' \subseteq noAccess \cup {base[b], BackGuard(b)}
    BY <1>1 DEF GuardFront, GuardBack
  <2>2. {base[b], BackGuard(b)} \subseteq Mapping(b) /\ dirty \cap Mapping(b) = {}
    BY <1>1, Geometry DEF GuardFront, GuardBack, SecretInv, Setup
  <2>3. QED
    BY <2>1, <2>2
<1>2. ASSUME NEW b \in Bufs, Fill(b) \/ FillFails(b)
      PROVE  SecretsLocked'
  <2>1. UNCHANGED <<locked, noDump, noAccess>> /\ dirty' \subseteq dirty \cup Touched(b)
    BY <1>2 DEF Fill, FillFails
  <2>2. pc[b] = "fill" /\ Built(b)
    BY <1>2 DEF Fill, FillFails, OwnInv
  <2>3. Touched(b) \subseteq (locked \cap noDump) \ noAccess
    <3>1. CASE len[b] = 0
      BY <3>1, Geometry
    <3>2. CASE Owns(b)
      BY <2>2, <3>2, Geometry DEF GuardInv, Filled
    <3>3. QED
      BY <2>2, <3>1, <3>2 DEF Built
  <2>4. QED
    BY <2>1, <2>3
<1>3. ASSUME NEW b \in Bufs, Munmap(b)
      PROVE  SecretsLocked'
  BY <1>3 DEF Munmap
<1>4. ASSUME NEW b \in Bufs,
             \/ Begin(b) \/ Mmap(b) \/ MmapFails(b) \/ Mlock(b) \/ Madvise(b) \/ SetupFails(b)
             \/ WipeSource(b) \/ DropBuf(b) \/ Zeroize(b) \/ MunmapFails(b)
      PROVE  SecretsLocked'
  BY <1>4 DEF Begin, Mmap, MmapFails, Mlock, Madvise, SetupFails, WipeSource, DropBuf,
              Zeroize, MunmapFails, pages
<1>5. CASE UNCHANGED vars
  BY <1>5 DEF vars, pages
<1>6. QED
  BY <1>1, <1>2, <1>3, <1>4, <1>5 DEF Next, BufStep

LEMMA InitIInv == Init => IInv
<1> SUFFICES ASSUME Init PROVE IInv
  OBVIOUS
<1> USE DEF Init
<1>1. TypeOK
  <2>1. Cardinality({}) = 0
    BY FS_EmptySet
  <2>2. NumPages \in 0..NumPages /\ 0 <= LockLimit
    BY SizeAssumption
  <2>3. QED
    BY <2>1, <2>2, SizeAssumption DEF TypeOK, Stages
<1>2. \A b \in Bufs : ~Owns(b)
  BY DEF Owns
<1>3. OwnInv /\ NoStrandedPages /\ GuardInv /\ SecretInv /\ SecretsLocked
  BY <1>2 DEF OwnInv, NoStrandedPages, GuardInv, SecretInv, SecretsLocked, Setup
<1>4. QED
  BY <1>1, <1>3 DEF IInv

LEMMA Invariance == Spec => []IInv
<1>1. IInv /\ [Next]_vars => IInv'
  BY TypeStep, OwnStep, StrandedStep, GuardStep, SecretStep, LockedStep DEF IInv
<1>2. QED
  BY <1>1, InitIInv, PTL DEF Spec

\* The pages of every set stay mapped ones, and the locked ones within RLIMIT_MEMLOCK.
THEOREM TypeTheorem == Spec => []TypeOK
<1>1. IInv => TypeOK
  BY DEF IInv
<1>2. QED
  BY <1>1, Invariance, PTL

\* No byte of a secret is ever on a page of krypto's that could be swapped out or dumped.
THEOREM LockedTheorem == Spec => []SecretsLocked
<1>1. IInv => SecretsLocked
  BY DEF IInv
<1>2. QED
  BY <1>1, Invariance, PTL

\* A live buffer holds what was filled in, between two guards of its own.
THEOREM IntactTheorem == Spec => []LiveIntact
<1>1. IInv => LiveIntact
  <2> SUFFICES ASSUME IInv, NEW b \in Bufs
               PROVE  /\ pc[b] = "live" => Touched(b) \subseteq dirty
                      /\ pc[b] \in {"fill", "wipe_source", "live", "zeroize"} /\ Owns(b) =>
                           /\ Touched(b) \subseteq Data(b)
                           /\ DataStart(b) + len[b] = BackGuard(b) * PageSize
                           /\ {base[b], BackGuard(b)} \subseteq noAccess
    BY DEF LiveIntact
  <2>1. pc[b] = "live" => Touched(b) \subseteq dirty
    BY DEF IInv, OwnInv, SecretInv
  <2>2. Touched(b) \subseteq Data(b) /\ DataStart(b) + len[b] = BackGuard(b) * PageSize
    BY Geometry DEF IInv
  <2>3. pc[b] \in Filled /\ Owns(b) => {base[b], BackGuard(b)} \subseteq noAccess
    BY DEF IInv, GuardInv
  <2>4. QED
    BY <2>1, <2>2, <2>3 DEF Filled
<1>2. QED
  BY <1>1, Invariance, PTL

\* Except for what munmap refused, every mapped page has exactly one owner.
THEOREM StrandedTheorem == Spec => []NoStrandedPages
<1>1. IInv => NoStrandedPages
  BY DEF IInv
<1>2. QED
  BY <1>1, Invariance, PTL

\* No copy of a secret is left in the Vec it came in, or in a page given back.
THEOREM NoCopyTheorem == Spec => LeavesNoCopy
<1>1. ASSUME IInv, SecretInv', [Next]_vars
      PROVE  /\ \A b \in Bufs : pc'[b] \in {"none", "live", "zeroize"} => source'[b] # "secret"
             /\ dirty \cap ((mapped \ mapped') \cup (leaked' \ leaked)) = {}
  <2>1. \A b \in Bufs : pc'[b] \in {"none", "live", "zeroize"} => source'[b] # "secret"
    BY <1>1 DEF SecretInv, Setup
  <2>2. ASSUME NEW b \in Bufs, Munmap(b) \/ MunmapFails(b)
        PROVE  dirty \cap ((mapped \ mapped') \cup (leaked' \ leaked)) = {}
    <3>1. dirty \cap Mapping(b) = {}
      BY <1>1, <2>2 DEF IInv, SecretInv, Munmap, MunmapFails
    <3>2. mapped \ mapped' \subseteq Mapping(b) /\ leaked' \ leaked \subseteq Mapping(b)
      BY <2>2 DEF Munmap, MunmapFails, pages
    <3>3. QED
      BY <3>1, <3>2
  <2>3. ASSUME NEW b \in Bufs,
               \/ Begin(b) \/ Mmap(b) \/ MmapFails(b) \/ GuardFront(b) \/ GuardBack(b)
               \/ Mlock(b) \/ Madvise(b) \/ SetupFails(b) \/ Fill(b) \/ FillFails(b)
               \/ WipeSource(b) \/ DropBuf(b) \/ Zeroize(b)
        PROVE  mapped \subseteq mapped' /\ leaked' = leaked
    BY <2>3 DEF Begin, Mmap, MmapFails, GuardFront, GuardBack, Mlock, Madvise, SetupFails,
                Fill, FillFails, WipeSource, DropBuf, Zeroize, pages
  <2>4. CASE UNCHANGED vars
    BY <2>1, <2>4 DEF vars, pages
  <2>5. QED
    BY <1>1, <2>1, <2>2, <2>3, <2>4 DEF Next, BufStep
<1>2. IInv /\ IInv' /\ [Next]_vars =>
        [/\ \A b \in Bufs : pc'[b] \in {"none", "live", "zeroize"} => source'[b] # "secret"
         /\ dirty \cap ((mapped \ mapped') \cup (leaked' \ leaked)) = {}]_vars
  BY <1>1 DEF IInv
<1>3. QED
  BY <1>2, Invariance, PTL DEF Spec, LeavesNoCopy
===============================================================================
