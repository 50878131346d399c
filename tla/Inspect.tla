------------------------------- MODULE Inspect -------------------------------
(* krypto-cli inspect (src/src/bin/krypto-cli/inspect/mod.rs): the order in  *)
(* which the recognizers are asked, and what the decoders find.  They are    *)
(* what InspectCalls leaves open.                                            *)
(*                                                                           *)
(* An input is a term: bytes as they are, or a text that stands for another  *)
(* term, so that layers can be nested without spelling their characters:     *)
(*   [as |-> "bytes", bytes]        [as |-> "hex", of]   [as |-> "base64", of] *)
(*   [as |-> "pem", label, of, sound]     [as |-> "armor", of, sound]         *)
(*   [as |-> "phc", version, params]      a PHC string of Argon2id            *)
(*   [as |-> "told", what, size]    what files.rs, ssh.rs or text.rs tell      *)
(* sound is FALSE for a PEM block whose body is not base64.  The characters  *)
(* of a base64 term are not all hex digits.  Bytes may be hex or base64, but *)
(* no other text.                                                            *)
EXTENDS Codec, StoreFormat, Pgp
LOCAL INSTANCE SequencesExt
LOCAL INSTANCE FiniteSetsExt

BytesOf(t) == IF t.as = "bytes" THEN {t.bytes} ELSE {}

\* The length of a term as it stands in its layer; a PEM block is longer than
\* anything told by its length.
PemSize == 1000
RECURSIVE Size(_)
Size(t) == CASE t.as = "bytes" -> Len(t.bytes)
             [] t.as = "told" -> t.size
             [] t.as = "hex" -> 2 * Size(t.of)
             [] t.as = "base64" -> 4 * ((Size(t.of) + 2) \div 3)
             [] OTHER -> PemSize

\* ---- told from bytes -----------------------------------------------------------

MAGIC == <<70, 65, 70, 78>>                                 \* "FAFN"
BLOB_HEADER_LEN == 54

Blob(b) ==
  LET what == "krypto blob"
      known == b[5] = 1 /\ b[6] \in 1..3
  IN IF ~ IsPrefix(MAGIC, b) THEN {}
     ELSE IF Len(b) < BLOB_HEADER_LEN THEN {Finding(what, {Fact("cut short", <<>>)})}
     ELSE IF known THEN {Finding(what, {Fact("algorithm", <<b[6]>>)})}
     ELSE {[Finding(what, {}) EXCEPT !.changed = TRUE]}

StoreFile(b) ==
  LET w == Walk(b)
      names == {Fact("name", w.names[i]) : i \in DOMAIN w.names}
  IN IF ~ IsPrefix(STORE_MAGIC, b) THEN {}
     ELSE IF Len(b) < HEADER_LEN THEN {Finding("krypto store file", {Fact("cut short", <<>>)})}
     ELSE {Finding("krypto store file",
                   {Fact("entries", <<Len(w.names)>>)} \cup names
                     \cup {Fact("damaged", <<at>>) : at \in w.damaged})}

OID_EC_PUBLIC_KEY == <<6, 7, 42, 134, 72, 206, 61, 2, 1>>
OID_P256 == <<6, 8, 42, 134, 72, 206, 61, 3, 1, 7>>

\* Looks for three marks near the front, not for the structure.
Pkcs8P256(b) ==
  LET head == SubSeq(b, 1, Min({48, Len(b)}))
      Has(mark) == \E i \in 0..Len(head) - Len(mark) : SubSeq(head, i + 1, i + Len(mark)) = mark
  IN IF /\ b # <<>> /\ Len(b) < 512 /\ b[1] = SEQUENCE_
        /\ Has(<<2, 1, 0>>) /\ Has(OID_EC_PUBLIC_KEY) /\ Has(OID_P256)
     THEN {Finding("ECDSA P-256 private key (PKCS#8, DER)", {})}
     ELSE {}

EcdsaSignature(b) ==
  LET r == b[4]
      s == b[6 + r]
  IN IF /\ Len(b) >= 4 /\ b[1] = SEQUENCE_ /\ b[3] = INTEGER
        /\ Len(b) >= 6 + r /\ b[5 + r] = INTEGER
        /\ Len(b) = 2 + b[2] /\ b[2] = 4 + r + s /\ r <= 33 /\ s <= 33
     THEN {Finding("ECDSA signature (DER)", {})}
     ELSE {}

FromBytes(b) ==
  FirstThatTells(<<Blob(b), StoreFile(b), Pkcs8P256(b), EcdsaSignature(b), FromDer(b), FromBinary(b)>>)

\* ---- told from text ------------------------------------------------------------

\* params are the comma-separated parts; a value that is no u32 parses to none,
\* and so does what it replaces.
PhcArgon2id(t) ==
  LET Value(key) ==
        UNION {p.value : p \in First(Reverse(SelectSeq(t.params, LAMBDA q : q.key = key)))}
  IN IF ~ t.version \/ \E i \in DOMAIN t.params : t.params[i].key = "no ="
     THEN {}
     ELSE {Finding("password hash (PHC string, Argon2id)", {Fact("cost", <<m, it, p>>)}) :
             m \in Value("m"), it \in Value("t"), p \in Value("p")}

\* The table of labels gives each its wording; here a label names itself.
ByLabel(label) == Finding(label, {})
Labelled(t) == ByLabel(t.label)

Taken(f, how) == [f EXCEPT !.wraps = <<how>> \o @]

\* What pem tells without asking inspect_at again.
FromPem(t) ==
  IF ~ t.sound THEN {Taken(ByLabel(t.label), "pem")}
  ELSE IF t.label = "RSA PUBLIC KEY"
  THEN {Taken(f, "pem") : f \in OrElse(Pkcs1Public(BytesOf(t.of)), {ByLabel(t.label)})}
  ELSE {}

FromArmor(t) ==
  LET inner == IF t.sound THEN UNION {FromBinary(b) : b \in BytesOf(t.of)} ELSE {}
  IN {Taken(f, "armor") : f \in OrElse(inner, {Finding("OpenPGP", {})})}

\* Everything but unwrapping and guessing.
Recognized(t) ==
  CASE t.as = "bytes" -> FromBytes(t.bytes)
    [] t.as = "told" -> {Finding(t.what, {})}
    [] t.as = "phc" -> PhcArgon2id(t)
    [] t.as = "pem" -> FromPem(t)
    [] t.as = "armor" -> FromArmor(t)
    [] OTHER -> {}

ByLength(t) ==
  IF Size(t) \in {16, 20, 28, 32, 48, 64} THEN {Finding("told by its length", {Fact("bytes", <<Size(t)>>)})}
  ELSE IF \E b \in BytesOf(t) : Len(b) = 65 /\ b[1] = 4
  THEN {Finding("ECDSA P-256 public key (SEC1, uncompressed)", {})}
  ELSE {}

\* ---- unwrapping ----------------------------------------------------------------

ToLower(s) == [i \in DOMAIN s |-> IF s[i] \in Upper THEN s[i] + 32 ELSE s[i]]
White == {9, 10, 11, 12, 13, 32}
Trim(s) == TrimEnd(TrimStart(s, White), White)

AsBytes(b) == [as |-> "bytes", bytes |-> b]

\* What unwrapped takes for hex and what it takes for base64.  Bytes may be such
\* a text, and then even both.
HexOf(s) == IF Len(s) >= 2 THEN HexDecode(ToLower(s)) ELSE {}
Base64Of(s) == IF Len(s) >= 8 THEN Base64Decode(s) ELSE {}

\* What is in a term as each layer.
InPem(t) == IF t.as = "pem" THEN {t.of} ELSE {}

InHex(t) ==
  IF t.as = "hex" /\ Size(t) >= 2 THEN {t.of}
  ELSE {AsBytes(b) : b \in UNION {HexOf(Trim(s)) : s \in BytesOf(t)}}

InBase64(t) ==
  IF t.as = "base64" /\ Size(t) >= 8 THEN {t.of}
  ELSE {AsBytes(b) : b \in UNION {Base64Of(Trim(s)) : s \in BytesOf(t)}}

RECURSIVE Depth(_)
Depth(t) == IF t.as \in {"hex", "base64", "pem", "armor"} THEN 1 + Depth(t.of)
            ELSE IF t.as = "bytes" THEN Len(t.bytes) ELSE 0
=============================================================================
