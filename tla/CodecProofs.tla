------------------------------ MODULE CodecProofs ------------------------------
(***************************************************************************)
(* Hex as hex.rs writes and reads it, for bytes and texts of any length:    *)
(* what is written is read back, and no other text is read as the same      *)
(* bytes.  The decoder of base64 is a fold over the text and stays with TLC. *)
(***************************************************************************)
EXTENDS Codec, TLAPS

\* The sixteen characters and their values.
LEMMA HexCharIsHex ==
  ASSUME NEW v \in 0..15
  PROVE  HexChar[v] \in DOMAIN Nibble /\ Nibble[HexChar[v]] = v
<1>1. HexChar[v] = IF v < 10 THEN 48 + v ELSE 87 + v
  BY DEF HexChar
<1>2. HexChar[v] \in Digits \cup HexLetters /\ (HexChar[v] \in Digits <=> v < 10)
  BY <1>1 DEF Digits, HexLetters
<1>3. QED
  BY <1>1, <1>2 DEF Nibble

LEMMA NibbleIsHex ==
  ASSUME NEW c \in DOMAIN Nibble
  PROVE  Nibble[c] \in 0..15 /\ HexChar[Nibble[c]] = c
<1>1. c \in Digits \cup HexLetters
  BY DEF Nibble
<1>2. Nibble[c] = IF c \in Digits THEN c - 48 ELSE c - 97 + 10
  BY <1>1 DEF Nibble
<1>3. Nibble[c] \in 0..15 /\ (Nibble[c] < 10 <=> c \in Digits)
  BY <1>1, <1>2 DEF Digits, HexLetters
<1>4. QED
  BY <1>1, <1>2, <1>3 DEF HexChar, Digits, HexLetters

\* A byte is its two halves, and the two halves are the byte.
LEMMA Halves ==
  ASSUME NEW b \in 0..255
  PROVE  b \div 16 \in 0..15 /\ b % 16 \in 0..15 /\ b = 16 * (b \div 16) + (b % 16)
<1> DEFINE q == b \div 16
           r == b % 16
<1>1. q \in Int /\ r \in 0..15 /\ b = 16 * q + r
  OBVIOUS
<1>2. b \div 16 \in 0..15
  <2> HIDE DEF q, r
  <2>1. q \in 0..15
    BY <1>1
  <2>2. QED
    BY <2>1 DEF q
<1>4. QED
  BY <1>1, <1>2

LEMMA Joined ==
  ASSUME NEW h \in 0..15, NEW l \in 0..15
  PROVE  16 * h + l \in 0..255 /\ (16 * h + l) \div 16 = h /\ (16 * h + l) % 16 = l
<1> DEFINE b == 16 * h + l
           q == b \div 16
           r == b % 16
<1>1. b \in 0..255
  OBVIOUS
<1>2. q \in Int /\ r \in 0..15 /\ b = 16 * q + r
  BY <1>1
<1>3. q = h
  <2> HIDE DEF q, r
  <2>1. 16 * q + r = 16 * h + l
    BY <1>2
  <2>2. QED
    BY <1>2, <2>1
<1>4. QED
  BY <1>1, <1>2, <1>3

\* The places of a byte's two characters, and of a character's byte.
LEMMA Places ==
  ASSUME NEW k \in Nat
  PROVE  /\ (2 * k) \div 2 = k /\ (2 * k) % 2 = 0
         /\ (2 * k + 1) \div 2 = k /\ (2 * k + 1) % 2 = 1
<1>1. (2 * k) \div 2 = k
  OBVIOUS
<1>2. (2 * k) % 2 = 0
  OBVIOUS
<1>3. (2 * k + 1) \div 2 = k
  OBVIOUS
<1>4. (2 * k + 1) % 2 = 1
  OBVIOUS
<1>5. QED
  BY <1>1, <1>2, <1>3, <1>4

\* Whatever encode writes, decode reads back (hex.rs:15-42).
THEOREM HexReadsBack ==
  ASSUME NEW bytes \in Seq(Byte)
  PROVE  HexDecode(HexEncode(bytes)) = {bytes}
<1> DEFINE s == HexEncode(bytes)
           n == Len(bytes)
<1>1. n \in Nat /\ \A k \in 1..n : bytes[k] \in 0..255
  <2>1. n \in Nat /\ \A k \in 1..n : bytes[k] \in Byte
    OBVIOUS
  <2>2. QED
    BY <2>1 DEF Byte
<1>2. ASSUME NEW k \in 1..n
      PROVE  /\ 2 * k - 1 \in 1..2*n /\ 2 * k \in 1..2*n
             /\ s[2 * k - 1] = HexChar[bytes[k] \div 16] /\ s[2 * k] = HexChar[bytes[k] % 16]
  <2>1. /\ 2 * k - 1 \in 1..2*n /\ 2 * k \in 1..2*n
        /\ (2 * k - 1 + 1) \div 2 = k /\ (2 * k + 1) \div 2 = k
        /\ (2 * k - 1) % 2 = 1 /\ (2 * k) % 2 # 1
    <3>1. k \in Nat /\ k - 1 \in Nat /\ 2 * k - 1 = 2 * (k - 1) + 1 /\ 2 * k - 1 + 1 = 2 * k
      BY <1>1
    <3>2. (2 * k) \div 2 = k /\ (2 * k) % 2 = 0 /\ (2 * k + 1) \div 2 = k
      BY <3>1, Places
    <3>3. (2 * k - 1) % 2 = 1
      BY <3>1, Places
    <3>4. 2 * k - 1 \in 1..2*n /\ 2 * k \in 1..2*n
      BY <1>1
    <3>5. QED
      BY <3>1, <3>2, <3>3, <3>4
  <2>2. QED
    BY <2>1 DEF HexEncode
<1>3. ASSUME NEW i \in 1..2*n
      PROVE  \E k \in 1..n : i = 2 * k - 1 \/ i = 2 * k
  <2>1. (i + 1) \div 2 \in 1..n /\ (i = 2 * ((i + 1) \div 2) - 1 \/ i = 2 * ((i + 1) \div 2))
    BY <1>1
  <2>2. QED
    BY <2>1
<1>4. ASSUME NEW k \in 1..n
      PROVE  /\ s[2 * k - 1] \in DOMAIN Nibble /\ s[2 * k] \in DOMAIN Nibble
             /\ 16 * Nibble[s[2 * k - 1]] + Nibble[s[2 * k]] = bytes[k]
  <2> DEFINE h == bytes[k] \div 16
             l == bytes[k] % 16
  <2>1. h \in 0..15 /\ l \in 0..15 /\ bytes[k] = 16 * h + l
    BY <1>1, Halves
  <2>2. s[2 * k - 1] = HexChar[h] /\ s[2 * k] = HexChar[l]
    BY <1>2
  <2> HIDE DEF s, h, l
  <2>3. /\ HexChar[h] \in DOMAIN Nibble /\ Nibble[HexChar[h]] = h
        /\ HexChar[l] \in DOMAIN Nibble /\ Nibble[HexChar[l]] = l
    BY <2>1, HexCharIsHex
  <2>4. QED
    BY <2>1, <2>2, <2>3
<1>5. Len(s) = 2 * n /\ DOMAIN s = 1..2*n
  BY <1>1 DEF HexEncode
<1>6. Len(s) % 2 = 0 /\ Len(s) \div 2 = n
  BY <1>1, <1>5
<1>7. \A i \in DOMAIN s : s[i] \in DOMAIN Nibble
  BY <1>3, <1>4, <1>5
<1>8. \A k \in 1..n : 16 * Nibble[s[2 * k - 1]] + Nibble[s[2 * k]] = bytes[k]
  BY <1>4
<1> HIDE DEF s
<1>9. [k \in 1..Len(s) \div 2 |-> 16 * Nibble[s[2 * k - 1]] + Nibble[s[2 * k]]] = [k \in 1..n |-> bytes[k]]
  BY <1>6, <1>8
<1>10. bytes = [k \in 1..n |-> bytes[k]]
  OBVIOUS
<1>11. HexDecode(s) = {[k \in 1..Len(s) \div 2 |-> 16 * Nibble[s[2 * k - 1]] + Nibble[s[2 * k]]]}
  BY <1>6, <1>7 DEF HexDecode
<1>12. QED
  BY <1>9, <1>10, <1>11 DEF s

\* A text that decode accepts is what encode writes for the bytes it gives: upper
\* case and half bytes are refused (hex.rs:4-8, 26-42).
THEOREM HexOneSpelling ==
  ASSUME NEW s \in Seq(Nat), NEW bytes, bytes \in HexDecode(s)
  PROVE  bytes \in Seq(Byte) /\ HexEncode(bytes) = s
<1> DEFINE n == Len(s) \div 2
<1>1. /\ Len(s) \in Nat /\ Len(s) % 2 = 0 /\ \A i \in DOMAIN s : s[i] \in DOMAIN Nibble
      /\ bytes = [k \in 1..n |-> 16 * Nibble[s[2 * k - 1]] + Nibble[s[2 * k]]]
  BY DEF HexDecode
<1>2. n \in Nat /\ Len(s) = 2 * n
  BY <1>1
<1> HIDE DEF n
<1>3. ASSUME NEW k \in 1..n
      PROVE  /\ 2 * k - 1 \in DOMAIN s /\ 2 * k \in DOMAIN s
             /\ bytes[k] \in 0..255
             /\ HexChar[bytes[k] \div 16] = s[2 * k - 1] /\ HexChar[bytes[k] % 16] = s[2 * k]
  <2>1. 2 * k - 1 \in DOMAIN s /\ 2 * k \in DOMAIN s
    BY <1>2
  <2>2. /\ Nibble[s[2 * k - 1]] \in 0..15 /\ HexChar[Nibble[s[2 * k - 1]]] = s[2 * k - 1]
        /\ Nibble[s[2 * k]] \in 0..15 /\ HexChar[Nibble[s[2 * k]]] = s[2 * k]
    BY <1>1, <2>1, NibbleIsHex
  <2>3. bytes[k] = 16 * Nibble[s[2 * k - 1]] + Nibble[s[2 * k]]
    BY <1>1
  <2>4. /\ bytes[k] \in 0..255
        /\ bytes[k] \div 16 = Nibble[s[2 * k - 1]] /\ bytes[k] % 16 = Nibble[s[2 * k]]
    <3> DEFINE h == Nibble[s[2 * k - 1]]
               l == Nibble[s[2 * k]]
    <3>1. h \in 0..15 /\ l \in 0..15 /\ bytes[k] = 16 * h + l
      BY <2>2, <2>3
    <3> HIDE DEF h, l
    <3>2. bytes[k] \in 0..255 /\ bytes[k] \div 16 = h /\ bytes[k] % 16 = l
      BY <3>1, Joined
    <3>3. QED
      BY <3>2 DEF h, l
  <2>5. QED
    BY <2>1, <2>2, <2>4
<1>4. bytes \in Seq(Byte) /\ Len(bytes) = n
  <2>1. DOMAIN bytes = 1..n /\ bytes = [k \in 1..n |-> bytes[k]]
    BY <1>1
  <2>2. bytes \in [1..n -> Byte]
    BY <1>3, <2>1 DEF Byte
  <2>3. QED
    BY <1>2, <2>2
<1>5. ASSUME NEW i \in 1..2 * n
      PROVE  s[i] = LET b == bytes[(i + 1) \div 2]
                    IN HexChar[IF i % 2 = 1 THEN b \div 16 ELSE b % 16]
  <2>1. PICK k \in 1..n : i = 2 * k - 1 \/ i = 2 * k
    <3>1. (i + 1) \div 2 \in 1..n /\ (i = 2 * ((i + 1) \div 2) - 1 \/ i = 2 * ((i + 1) \div 2))
      BY <1>2
    <3>2. QED
      BY <3>1
  <2>2. k \in Nat /\ k - 1 \in Nat
    BY <1>2
  <2>3. CASE i = 2 * k - 1
    <3>1. i = 2 * (k - 1) + 1 /\ i + 1 = 2 * k
      BY <2>2, <2>3
    <3>2. i % 2 = 1 /\ (i + 1) \div 2 = k
      BY <2>2, <3>1, Places
    <3>3. QED
      BY <1>3, <2>3, <3>2
  <2>4. CASE i = 2 * k
    <3>1. i % 2 = 0 /\ (i + 1) \div 2 = k
      BY <2>2, <2>4, Places
    <3>2. HexChar[bytes[k] % 16] = s[i] /\ ~ (i % 2 = 1)
      BY <1>3, <2>4, <3>1
    <3>3. QED
      BY <3>1, <3>2
  <2>5. QED
    BY <2>1, <2>3, <2>4
<1>6. s = [i \in 1..2 * n |-> s[i]]
  BY <1>2
<1>7. HexEncode(bytes) = s
  BY <1>4, <1>5, <1>6 DEF HexEncode
<1>8. QED
  BY <1>4, <1>7
================================================================================
