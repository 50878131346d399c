----------------------------- MODULE SecretMemory -----------------------------
(***************************************************************************)
(* LockedPages of src/src/ffi.rs and its owner SecretBuf of                 *)
(* src/src/secret.rs: the pages of a secret, from mmap through guard pages, *)
(* mlock and madvise to the fill, the wipe and munmap.  Several threads     *)
(* build and drop buffers at once in one address space; each system call is *)
(* one step, and any of them may fail.  The memory is a set of page         *)
(* numbers for each thing the kernel or the secret does to a page.          *)
(***************************************************************************)
EXTENDS Naturals, FiniteSets

CONSTANTS
  Bufs,        \* SecretBufs that may exist at once
  PageSize,    \* bytes of a page
  NumPages,    \* pages of the address space
  MaxUsize,    \* the largest usize
  LockLimit,   \* RLIMIT_MEMLOCK, in pages
  Lens         \* lengths asked for

ASSUME SizeAssumption ==
  /\ PageSize \in Nat \ {0} /\ NumPages \in Nat /\ MaxUsize \in Nat /\ LockLimit \in Nat
  /\ 0 \in Lens /\ Lens \subseteq 0..MaxUsize /\ 2 * PageSize <= MaxUsize

VARIABLES
  pc,       \* where each buffer is in its life
  len,      \* its length
  base,     \* its mapping's first page, the front guard
  source,   \* the Vec from_vec was given: "absent", "secret" or "wiped"
  mapped,   \* pages that are mapped
  noAccess, \* ... PROT_NONE
  locked,   \* ... mlocked
  noDump,   \* ... MADV_DONTDUMP
  dirty,    \* ... holding bytes of a secret
  leaked    \* history: pages munmap failed to unmap

pages == <<mapped, noAccess, locked, noDump, dirty>>
vars  == <<pc, len, base, source, pages, leaked>>

AllPages == 0..(NumPages - 1)
Setup    == {"guard_front", "guard_back", "mlock", "madvise"}
Stages   == {"none", "mmap"} \cup Setup \cup {"fill", "wipe_source", "live", "zeroize", "munmap"}

-----------------------------------------------------------------------------
\* checked_next_multiple_of and checked_add, in pages.
DataPages(n) == (n + PageSize - 1) \div PageSize
TooLarge(n)  == (DataPages(n) + 2) * PageSize > MaxUsize

\* Mutant: room for one guard page only.
OneGuardOnly(p, n) == p..(p + DataPages(n))

\* The mapping of n bytes at page p: front guard, data pages, back guard.
PagesFrom(p, n) == p..(p + DataPages(n) + 1)

Mapping(b)   == PagesFrom(base[b], len[b])
Data(b)      == (base[b] + 1)..(base[b] + DataPages(len[b]))
BackGuard(b) == base[b] + DataPages(len[b]) + 1

\* The secret's first byte: the secret ends with its data pages.
DataStart(b) == (base[b] + 1 + DataPages(len[b])) * PageSize - len[b]
Bytes(b)     == DataStart(b)..(DataStart(b) + len[b] - 1)
Touched(b)   == {a \div PageSize : a \in Bytes(b)}

\* b has a mapping, and will unmap it; b has the memory it was to be given.
Owns(b)  == base[b] # NumPages
Built(b) == len[b] = 0 \/ Owns(b)

TypeOK ==
  /\ pc \in [Bufs -> Stages]
  /\ len \in [Bufs -> Lens] /\ base \in [Bufs -> 0..NumPages]
  /\ source \in [Bufs -> {"absent", "secret", "wiped"}]
  /\ mapped \subseteq AllPages /\ leaked \subseteq mapped
  /\ noAccess \subseteq mapped /\ locked \subseteq mapped
  /\ noDump \subseteq mapped /\ dirty \subseteq mapped
  /\ Cardinality(locked) <= LockLimit

\* base = NumPages: no mapping.
Init ==
  /\ pc = [b \in Bufs |-> "none"]
  /\ len = [b \in Bufs |-> 0]
  /\ base = [b \in Bufs |-> NumPages]
  /\ source = [b \in Bufs |-> "absent"]
  /\ mapped = {} /\ noAccess = {} /\ locked = {} /\ noDump = {} /\ dirty = {}
  /\ leaked = {}

-----------------------------------------------------------------------------
GoTo(b, label) == pc' = [pc EXCEPT ![b] = label]

\* What is left to do once b's mapping is gone, or was never made.
NoPages(b, given) == GoTo(b, IF given = "secret" THEN "wipe_source" ELSE "none")

\* from_vec is given a secret in an ordinary Vec; fill_with and random are not.
\* An empty secret needs no mapping, and one too large gets none.
Begin(b) ==
  /\ pc[b] = "none"
  /\ \E n \in Lens, given \in {"secret", "absent"} :
       /\ len' = [len EXCEPT ![b] = n]
       /\ source' = [source EXCEPT ![b] = given]
       /\ \/ n = 0 /\ GoTo(b, "fill")
          \/ TooLarge(n) /\ NoPages(b, given)
          \/ n > 0 /\ ~TooLarge(n) /\ GoTo(b, "mmap")
  /\ UNCHANGED <<base, pages, leaked>>

\* The kernel picks free pages, and hands them out zeroed.
Mmap(b) ==
  /\ pc[b] = "mmap"
  /\ \E p \in AllPages :
       /\ base' = [base EXCEPT ![b] = p]
       /\ PagesFrom(p, len[b]) \subseteq AllPages \ mapped
       /\ mapped' = mapped \cup PagesFrom(p, len[b])
  /\ GoTo(b, "guard_front")
  /\ UNCHANGED <<len, source, noAccess, locked, noDump, dirty, leaked>>

MmapFails(b) ==
  /\ pc[b] = "mmap"
  /\ NoPages(b, source[b])
  /\ UNCHANGED <<len, base, source, pages, leaked>>

GuardFront(b) ==
  /\ pc[b] = "guard_front"
  /\ noAccess' = noAccess \cup {base[b]}
  /\ GoTo(b, "guard_back")
  /\ UNCHANGED <<len, base, source, mapped, locked, noDump, dirty, leaked>>

GuardBack(b) ==
  /\ pc[b] = "guard_back"
  /\ noAccess' = noAccess \cup {BackGuard(b)}
  /\ GoTo(b, "mlock")
  /\ UNCHANGED <<len, base, source, mapped, locked, noDump, dirty, leaked>>

\* Mutant: the lock covers whole pages of len only.
MlockRoundedDown(b) ==
  /\ pc[b] = "mlock"
  /\ locked' = locked \cup {p \in Data(b) : p - base[b] <= len[b] \div PageSize}
  /\ Cardinality(locked') <= LockLimit
  /\ GoTo(b, "madvise")
  /\ UNCHANGED <<len, base, source, mapped, noAccess, noDump, dirty, leaked>>

Mlock(b) ==
  /\ pc[b] = "mlock"
  /\ locked' = locked \cup Data(b)
  /\ Cardinality(locked') <= LockLimit
  /\ GoTo(b, "madvise")
  /\ UNCHANGED <<len, base, source, mapped, noAccess, noDump, dirty, leaked>>

Madvise(b) ==
  /\ pc[b] = "madvise"
  /\ noDump' = noDump \cup Data(b)
  /\ GoTo(b, "fill")
  /\ UNCHANGED <<len, base, source, mapped, noAccess, locked, dirty, leaked>>

\* Mutant: the mapping has no owner until every call has succeeded.
SetupFailsUnowned(b) ==
  /\ pc[b] \in Setup
  /\ base' = [base EXCEPT ![b] = NumPages]
  /\ NoPages(b, source[b])
  /\ UNCHANGED <<len, source, pages, leaked>>

\* mprotect, mlock (over the limit, too) or madvise fails: `pages` is dropped.
SetupFails(b) ==
  /\ pc[b] \in Setup
  /\ GoTo(b, "munmap")
  /\ UNCHANGED <<len, base, source, pages, leaked>>

\* The secret is written; fill_with and random have nothing more to do.
Fill(b) ==
  /\ pc[b] = "fill"
  /\ dirty' = dirty \cup Touched(b)
  /\ GoTo(b, IF source[b] = "secret" THEN "wipe_source" ELSE "live")
  /\ UNCHANGED <<len, base, source, mapped, noAccess, locked, noDump, leaked>>

\* The fill fails or panics half way: the SecretBuf is dropped.
FillFails(b) ==
  /\ pc[b] = "fill" /\ source[b] # "secret"
  /\ \E some \in SUBSET Touched(b) : dirty' = dirty \cup some
  /\ GoTo(b, "zeroize")
  /\ UNCHANGED <<len, base, source, mapped, noAccess, locked, noDump, leaked>>

\* Mutant: `?` on the new pages returns before the wipe.
WipeSourceOnOk(b) ==
  /\ pc[b] = "wipe_source"
  /\ source' = [source EXCEPT ![b] = IF Built(b) THEN "wiped" ELSE @]
  /\ GoTo(b, IF Built(b) THEN "live" ELSE "none")
  /\ UNCHANGED <<len, base, pages, leaked>>

\* from_vec wipes what it was given, and returns: the buffer, or Err.
WipeSource(b) ==
  /\ pc[b] = "wipe_source"
  /\ source' = [source EXCEPT ![b] = "wiped"]
  /\ GoTo(b, IF Built(b) THEN "live" ELSE "none")
  /\ UNCHANGED <<len, base, pages, leaked>>

\* The buffer goes out of scope.
DropBuf(b) ==
  /\ pc[b] = "live"
  /\ GoTo(b, "zeroize")
  /\ UNCHANGED <<len, base, source, pages, leaked>>

\* SecretBuf's Drop: the wipe; LockedPages' Drop follows.
Zeroize(b) ==
  /\ pc[b] = "zeroize"
  /\ dirty' = dirty \ Touched(b)
  /\ GoTo(b, IF len[b] = 0 THEN "none" ELSE "munmap")
  /\ UNCHANGED <<len, base, source, mapped, noAccess, locked, noDump, leaked>>

\* Mutant: map_len is a page too long.
MunmapTooMuch(b) ==
  /\ pc[b] = "munmap"
  /\ LET gone == base[b]..(BackGuard(b) + 1) IN
       /\ mapped' = mapped \ gone /\ noAccess' = noAccess \ gone
       /\ locked' = locked \ gone /\ noDump' = noDump \ gone /\ dirty' = dirty \ gone
  /\ base' = [base EXCEPT ![b] = NumPages]
  /\ NoPages(b, source[b])
  /\ UNCHANGED <<len, source, leaked>>

Munmap(b) ==
  /\ pc[b] = "munmap"
  /\ mapped' = mapped \ Mapping(b) /\ noAccess' = noAccess \ Mapping(b)
  /\ locked' = locked \ Mapping(b) /\ noDump' = noDump \ Mapping(b)
  /\ dirty' = dirty \ Mapping(b)
  /\ base' = [base EXCEPT ![b] = NumPages]
  /\ NoPages(b, source[b])
  /\ UNCHANGED <<len, source, leaked>>

\* An error of munmap is ignored.
MunmapFails(b) ==
  /\ pc[b] = "munmap"
  /\ leaked' = leaked \cup Mapping(b)
  /\ base' = [base EXCEPT ![b] = NumPages]
  /\ NoPages(b, source[b])
  /\ UNCHANGED <<len, source, pages>>

BufStep(b) ==
  \/ Begin(b) \/ Mmap(b) \/ MmapFails(b) \/ GuardFront(b) \/ GuardBack(b) \/ Mlock(b)
  \/ Madvise(b) \/ SetupFails(b) \/ Fill(b) \/ FillFails(b) \/ WipeSource(b)
  \/ DropBuf(b) \/ Zeroize(b) \/ Munmap(b) \/ MunmapFails(b)

Next == \E b \in Bufs : BufStep(b)
Spec == Init /\ [][Next]_vars

-----------------------------------------------------------------------------
\* Every byte of a secret that is in krypto's pages is on a page that is locked
\* in RAM and kept out of dumps, at every step of every thread: no failure
\* between the calls and no other buffer's end changes that.
SecretsLocked == dirty \subseteq (locked \cap noDump) \ noAccess

\* Whoever is built or dropped, a live buffer's bytes are what was filled in; and
\* from then on they end where a page of its own that faults begins, with another
\* such page before its data pages.
LiveIntact ==
  /\ \A b \in Bufs : pc[b] = "live" => Touched(b) \subseteq dirty
  /\ \A b \in Bufs : pc[b] \in {"fill", "wipe_source", "live", "zeroize"} /\ Owns(b) =>
       /\ Touched(b) \subseteq Data(b)
       /\ DataStart(b) + len[b] = BackGuard(b) * PageSize
       /\ {base[b], BackGuard(b)} \subseteq noAccess

\* No copy of a secret is left: not in the Vec that from_vec was given, on Ok and
\* on every Err, and not in a page that goes back to the kernel or is lost.
LeavesNoCopy ==
  [][/\ \A b \in Bufs : pc'[b] \in {"none", "live", "zeroize"} => source'[b] # "secret"
     /\ dirty \cap ((mapped \ mapped') \cup (leaked' \ leaked)) = {}]_vars

\* Apart from what munmap refused, every page has one owner that will unmap it:
\* a refused secret does not hold part of the limit for good.
NoStrandedPages ==
  /\ mapped \ leaked = UNION {Mapping(b) : b \in {c \in Bufs : Owns(c)}}
  /\ \A b, c \in Bufs : b # c /\ Owns(b) /\ Owns(c) => Mapping(b) \cap Mapping(c) = {}
===============================================================================
