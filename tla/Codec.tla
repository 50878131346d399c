-------------------------------- MODULE Codec --------------------------------
(* Hex and base64 as src/src/hex.rs and src/src/base64.rs write and read     *)
(* them.  A text is the sequence of its ASCII codes, bytes are a sequence of *)
(* 0..255.  Rust's Result is a set here, as in every module about a format:  *)
(* {v} for Ok(v) and {} for Err.                                             *)
EXTENDS Integers, Sequences
LOCAL INSTANCE SequencesExt
LOCAL INSTANCE FiniteSetsExt

Byte == 0..255
Pad == 61                                                   \* '='

TrimStart(s, chars) ==
  LET kept == {i \in DOMAIN s : s[i] \notin chars}
  IN IF kept = {} THEN <<>> ELSE SubSeq(s, Min(kept), Len(s))

TrimEnd(s, chars) == Reverse(TrimStart(Reverse(s), chars))

Digits == 48..57
Upper == 65..90
Lower == 97..122
HexLetters == 97..102

HexChar == [v \in 0..15 |-> IF v < 10 THEN 48 + v ELSE 87 + v]

HexEncode(bytes) ==
  [i \in 1..2 * Len(bytes) |->
     LET b == bytes[(i + 1) \div 2]
     IN HexChar[IF i % 2 = 1 THEN b \div 16 ELSE b % 16]]

Nibble == [c \in Digits \cup HexLetters |-> IF c \in Digits THEN c - 48 ELSE c - 97 + 10]

HexDecode(s) ==
  IF Len(s) % 2 = 0 /\ \A i \in DOMAIN s : s[i] \in DOMAIN Nibble
  THEN {[k \in 1..Len(s) \div 2 |-> 16 * Nibble[s[2 * k - 1]] + Nibble[s[2 * k]]]}
  ELSE {}

\* ---- base64 ----------------------------------------------------------------

Sextet ==
  [c \in Upper \cup Lower \cup Digits \cup {43, 47} |->
     CASE c \in Upper -> c - 65
       [] c \in Lower -> c - 97 + 26
       [] c \in Digits -> c - 48 + 52
       [] c = 43 -> 62
       [] c = 47 -> 63]

Base64Char == [v \in 0..63 |-> CHOOSE c \in DOMAIN Sextet : Sextet[c] = v]

ByteOr0(bytes, i) == IF i \in DOMAIN bytes THEN bytes[i] ELSE 0

\* Character j of chunk k, both from 0: padding once its bits lie past the end.
Base64At(bytes, k, j) ==
  LET n == 65536 * ByteOr0(bytes, 3 * k + 1) + 256 * ByteOr0(bytes, 3 * k + 2)
             + ByteOr0(bytes, 3 * k + 3)
  IN IF 3 * k + j > Len(bytes) THEN Pad ELSE Base64Char[(n \div 64^(3 - j)) % 64]

Base64Encode(bytes) ==
  [i \in 1..4 * ((Len(bytes) + 2) \div 3) |-> Base64At(bytes, (i - 1) \div 4, (i - 1) % 4)]

\* What is left of a text when the padding at its end is taken off.
Stripped(s) == TrimEnd(s, {Pad})

EncodeNopad(bytes) == Stripped(Base64Encode(bytes))

\* Up to seven bits wait in acc until they make a byte.
Shift(f, c) ==
  LET acc == f.acc * 64 + Sextet[c]
      nbits == f.nbits + 6
  IN IF nbits < 8 THEN [f EXCEPT !.acc = acc, !.nbits = nbits]
     ELSE [acc |-> acc % 2^(nbits - 8), nbits |-> nbits - 8,
           out |-> Append(f.out, acc \div 2^(nbits - 8))]

Canonical(f) == ~ (f.nbits > 0 /\ f.acc # 0)

DecodeBody(s) ==
  LET Decoded == FoldLeft(Shift, [acc |-> 0, nbits |-> 0, out |-> <<>>], s)
  IN IF (\A i \in DOMAIN s : s[i] \in DOMAIN Sextet) /\ Canonical(Decoded)
     THEN {Decoded.out} ELSE {}

Base64Decode(s) ==
  IF Len(s) % 4 = 0 /\ Len(s) - Len(Stripped(s)) <= 2 THEN DecodeBody(Stripped(s)) ELSE {}

DecodeNopad(s) ==
  IF (\A i \in DOMAIN s : s[i] # Pad) /\ Len(s) % 4 # 1 THEN DecodeBody(s) ELSE {}

\* ---- properties -------------------------------------------------------------

\* No two texts stand for the same bytes: what a decoder accepts is what the
\* encoder writes for the bytes it gives (hex.rs:4-8, base64.rs:11-13).
OneSpellingOf(s) ==
  /\ \A b \in HexDecode(s) : HexEncode(b) = s
  /\ \A b \in Base64Decode(s) : Base64Encode(b) = s
  /\ \A b \in DecodeNopad(s) : EncodeNopad(b) = s

\* What an encoder writes is read back as the same bytes.
ReadsItself(bytes) ==
  /\ HexDecode(HexEncode(bytes)) = {bytes}
  /\ Base64Decode(Base64Encode(bytes)) = {bytes}
  /\ DecodeNopad(EncodeNopad(bytes)) = {bytes}
=============================================================================
