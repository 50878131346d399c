----------------------------- MODULE StoreFormat -----------------------------
(* The bytes of a store file: what persist writes, what load and read_capped *)
(* accept (src/src/store.rs), and what inspect's store() shows of it         *)
(* (src/src/bin/krypto-cli/inspect/mod.rs).  Content is a record of the      *)
(* salt, the key id and the entries, a function from names to blobs; names   *)
(* and blobs are sequences of bytes.  Results are sets: {v} for Ok(v), {}    *)
(* for Err, which is always Error::Format here.                              *)
EXTENDS Integers, Sequences
LOCAL INSTANCE SequencesExt
LOCAL INSTANCE FiniteSetsExt
LOCAL INSTANCE Functions

CONSTANTS SaltLen, KeyIdLen, MaxNameLen, MaxStoreBytes

ASSUME StoreFormatAssumption ==
  /\ SaltLen \in Nat \ {0} /\ KeyIdLen \in Nat \ {0}
  /\ MaxNameLen \in 1..65535                        \* a name's length is a u16
  /\ MaxStoreBytes \in Nat

STORE_MAGIC == <<70, 83, 84, 49>>                          \* "FST1"
STORE_VER == 1
HEADER_LEN == 4 + 1 + SaltLen + KeyIdLen

\* The number in little-endian octets.  One that exceeds any file's size, as a
\* u32 may, is as good as any other such number.
LittleEndian(s) ==
  FoldRight(LAMBDA b, acc : IF acc > MaxStoreBytes THEN acc ELSE b + 256 * acc, s, 0)

Octets(n, width) == [i \in 1..width |-> (n \div 256^(i - 1)) % 256]

Slice(data, off, len) == SubSeq(data, off + 1, off + len)

ValidateName(name) ==
  /\ name # <<>> /\ Len(name) <= MaxNameLen
  /\ \A i \in DOMAIN name : name[i] \in 32..126

\* ---- load -------------------------------------------------------------------

\* insert, which must not find the name.
InsertedOver(entries, name, blob) ==
  {[n \in DOMAIN entries \cup {name} |-> IF n = name THEN blob ELSE entries[n]]}
Inserted(entries, name, blob) ==
  IF name \in DOMAIN entries THEN {}
  ELSE {[n \in DOMAIN entries \cup {name} |-> IF n = name THEN blob ELSE entries[n]]}

\* One turn of the loop: the entry at offset off, added to those before it.  Its
\* name is held to the rule put has.
LoadEntry(data, off, entries) ==
  LET nlen == LittleEndian(Slice(data, off, 2))
      name == Slice(data, off + 2, nlen)
      lenAt == off + 2 + nlen
      blen == LittleEndian(Slice(data, lenAt, 4))
      end == lenAt + 4 + blen
  IN IF /\ off + 2 <= Len(data) /\ lenAt <= Len(data) /\ ValidateName(name)
        /\ lenAt + 4 <= Len(data) /\ end <= Len(data)
     THEN {[off |-> end, entries |-> e] : e \in Inserted(entries, name, Slice(data, lenAt + 4, blen))}
     ELSE {}

RECURSIVE LoadFrom(_, _, _)
LoadFrom(data, off, entries) ==
  IF off = Len(data) THEN {entries}
  ELSE UNION {LoadFrom(data, r.off, r.entries) : r \in LoadEntry(data, off, entries)}

Load(data) ==
  IF \/ Len(data) < HEADER_LEN
     \/ Slice(data, 0, 4) # STORE_MAGIC
     \/ data[5] # STORE_VER
  THEN {}
  ELSE {[salt |-> Slice(data, 5, SaltLen), key_id |-> Slice(data, 5 + SaltLen, KeyIdLen),
         entries |-> e] : e \in LoadFrom(data, HEADER_LEN, <<>>)}

\* What open reads before it loads: a file past the bound is refused.
ReadCapped(data) == IF Len(data) > MaxStoreBytes THEN {} ELSE {data}

OpenBytes(data) == UNION {Load(d) : d \in ReadCapped(data)}

\* ---- persist ----------------------------------------------------------------

\* The order of Rust's strings: by bytes, a prefix first.
Before(a, b) ==
  LET differs == {i \in 1..Min({Len(a), Len(b)}) : a[i] # b[i]}
  IN IF differs = {} THEN Len(a) < Len(b) ELSE a[Min(differs)] < b[Min(differs)]

EntryBytes(name, blob) == Octets(Len(name), 2) \o name \o Octets(Len(blob), 4) \o blob

Image(c) ==
  LET names == SetToSortSeq(DOMAIN c.entries, Before)
      Put(buf, name) == buf \o EntryBytes(name, c.entries[name])
  IN FoldLeft(Put, STORE_MAGIC \o <<STORE_VER>> \o c.salt \o c.key_id, names)

Persist(c) == IF Len(Image(c)) > MaxStoreBytes THEN {} ELSE {Image(c)}

\* ---- inspect ----------------------------------------------------------------

\* input.get(at..at + len)
Got(data, at, len) == IF at + len > Len(data) THEN {} ELSE {Slice(data, at, len)}

Entry(data, at) ==
  UNION {UNION {UNION {
    {[name |-> name, blob |-> blob, next |-> at + 6 + Len(name) + Len(blob)] :
       blob \in Got(data, at + 6 + Len(name), LittleEndian(blobLen))} :
    blobLen \in Got(data, at + 2 + Len(name), 4)} :
    name \in Got(data, at + 2, LittleEndian(nameLen))} :
    nameLen \in Got(data, at, 2)}

\* The walk over the entries: the names in the order they stand in the file, the
\* algorithms of the blobs, and where the damage is, if any.
Walk(data) ==
  LET Alg(blob) == IF Len(blob) > 5 /\ IsPrefix(<<70, 65, 70, 78>>, blob) THEN blob[6] ELSE 0
      From[at \in HEADER_LEN..Len(data)] ==
        IF at = Len(data) THEN [names |-> <<>>, algs |-> {}, damaged |-> {}]
        ELSE IF Entry(data, at) = {} THEN [names |-> <<>>, algs |-> {}, damaged |-> {at}]
        ELSE LET e == CHOOSE x \in Entry(data, at) : TRUE
                 rest == From[e.next]
             IN [names |-> <<e.name>> \o rest.names, algs |-> {Alg(e.blob)} \cup rest.algs,
                 damaged |-> rest.damaged]
  IN From[HEADER_LEN]

\* ---- properties -------------------------------------------------------------

\* What persist writes, open reads back the same; and whatever open accepts, it
\* has read to the last byte: writing it again takes as many bytes, and gives
\* the same content (store.rs:329-351 against store.rs:278-317).
LoadsWhatItWrote(c) == \A d \in Persist(c) : OpenBytes(d) = {c}

NothingUnread(data) ==
  \A c \in OpenBytes(data) :
    Persist(c) # {} /\ \A d \in Persist(c) : Len(d) = Len(data) /\ Load(d) = {c}

\* inspect calls a store sound exactly when nothing but a bad name, a name told
\* twice, or the version it prints keeps load from accepting it.
ShownAs(data) ==
  Len(data) >= HEADER_LEN /\ Slice(data, 0, 4) = STORE_MAGIC =>
    LET w == Walk(data)
    IN /\ Load(data) # {} <=>
            /\ w.damaged = {} /\ data[5] = STORE_VER /\ IsInjective(w.names)
            /\ \A i \in DOMAIN w.names : ValidateName(w.names[i])
       /\ \A c \in Load(data) : {w.names[i] : i \in DOMAIN w.names} = DOMAIN c.entries
=============================================================================
