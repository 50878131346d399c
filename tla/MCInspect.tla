------------------------------ MODULE MCInspect ------------------------------
(* Inputs for Inspect and what each of them is: the structures of every      *)
(* grammar, written here by the formats' rules, in up to three layers;       *)
(* store files, whole and damaged; short texts; and bytes of no kind.        *)
EXTENDS Inspect, InspectCalls, FiniteSets, TLC
LOCAL INSTANCE SequencesExt
LOCAL INSTANCE FiniteSetsExt

CONSTANT SubjectLens       \* how long the subject of a certificate request is

Fill(n, b) == [i \in 1..n |-> b]

\* ---- writing DER and OpenPGP ---------------------------------------------------

\* Every length form of at most four octets, and the shortest.
Octet(n, i) == (n \div 256^i) % 256
LongForm(n, k) == <<128 + k>> \o [i \in 1..k |-> Octet(n, k - i)]
LengthForms(n) ==
  (IF n < 128 THEN {<<n>>} ELSE {})
    \cup {LongForm(n, k) : k \in {m \in 1..4 : m > 2 \/ n < 256^m}}
Shortest(n) == IF n < 128 THEN <<n>> ELSE IF n < 256 THEN LongForm(n, 1) ELSE LongForm(n, 2)

Tlv(tag, body) == <<tag>> \o Shortest(Len(body)) \o body
Cat(parts) == FlattenSeq(parts)
Struct(parts) == Tlv(SEQUENCE_, Cat(parts))
SetOf1(part) == Tlv(SET_, part)
Num(bytes) == Tlv(INTEGER, bytes)
Octs(bytes) == Tlv(OCTET_STRING, bytes)
Bits(bytes) == Tlv(BIT_STRING, <<0>> \o bytes)
Context(n, body) == Tlv(160 + n, body)

Base128(n) == IF n < 128 THEN <<n>>
              ELSE IF n < 128^2 THEN <<128 + (n \div 128), n % 128>>
              ELSE <<128 + (n \div 128^2), 128 + ((n \div 128) % 128), n % 128>>
OidOf(arcs) == Tlv(OID, <<40 * arcs[1] + arcs[2]>>
                          \o Cat([i \in 1..Len(arcs) - 2 |-> Base128(arcs[i + 2])]))
AlgOf(arcs, params) == Struct(<<OidOf(arcs)>> \o params)

\* New and old packet headers for a body of n bytes.
Packed(n, k) == [i \in 1..k |-> Octet(n, k - i)]
PacketForms(tag, n) ==
  (IF n <= 191 THEN {<<192 + tag, n>>} ELSE {})
    \cup (IF n \in 192..8383
          THEN {<<192 + tag, 192 + ((n - 192) \div 256), (n - 192) % 256>>} ELSE {})
    \cup {<<192 + tag, 255>> \o Packed(n, 4)}
    \cup IF tag > 15 THEN {}
         ELSE {<<128 + 4 * tag + f>> \o Packed(n, 2^f) :
                 f \in {g \in 0..2 : n < 256 \/ g > 0}}
PacketOf(tag, body) == <<192 + tag, 255>> \o Packed(Len(body), 4) \o body

\* ---- structures, and what each is ------------------------------------------------

Ed25519 == <<1, 3, 101, 112>>
P256 == <<1, 2, 840, 10045, 3, 1, 7>>
P384 == <<1, 3, 132, 0, 34>>
Sha256Rsa == <<1, 2, 840, 113549, 1, 1, 11>>
Sha256 == <<2, 16, 840, 1, 101, 3, 4, 2, 1>>
Aes256 == <<2, 16, 840, 1, 101, 3, 4, 1, 42>>
HmacSha256 == <<1, 2, 840, 113549, 2, 9>>
Rc2 == <<1, 2, 840, 113549, 1, 12, 1, 6>>
Scrypt == <<1, 3, 6, 1, 4, 1, 11591, 4, 11>>
CertBag == <<1, 2, 840, 113549, 1, 12, 10, 1, 3>>

Null == Tlv(5, <<>>)
Zero == Num(<<0>>)
Name == Struct(<<SetOf1(Struct(<<OidOf(<<2, 5, 4, 3>>), Tlv(12, <<97, 98>>)>>))>>)
NameOfLen(n) == IF n = 0 THEN Struct(<<>>) ELSE Tlv(SEQUENCE_, Tlv(12, Fill(n - 2, 97)))
UtcTime == Tlv(23, <<50, 54, 48, 49, 48, 49, 48, 48, 48, 48, 48, 48, 90>>)
LongTime == Tlv(24, <<50, 48, 50, 54>> \o Fill(4, 49))
Validity == Struct(<<UtcTime, LongTime>>)
RsaKey == Struct(<<Num(<<0, 200>> \o Fill(8, 1)), Num(<<1, 0, 1>>)>>)          \* 72 bits
RsaSpki == Struct(<<AlgOf(RSA, <<Null>>), Bits(RsaKey)>>)
EdSpki == Struct(<<AlgOf(Ed25519, <<>>), Bits(Fill(32, 9))>>)
EcSpki(curve) == Struct(<<AlgOf(EC, <<OidOf(curve)>>), Bits(<<4>> \o Fill(64, 9))>>)
Rsa9 == <<Zero, Num(<<0, 200>> \o Fill(8, 1))>> \o Fill(7, Num(<<3>>))
SignedOf(tbs, alg) == Struct(<<Struct(tbs), AlgOf(alg, <<>>), Bits(Fill(5, 255))>>)
Fields(spki) == <<Num(<<77>>), AlgOf(Sha256Rsa, <<Null>>), Name, Validity, Name, spki>>
Version3 == Context(0, Num(<<2>>))
Csr(subject, spki) == SignedOf(<<Zero, subject, spki, Context(0, <<>>)>>, Ed25519)
Crl(tail) == SignedOf(tail, Sha256Rsa)
Pbkdf2 == AlgOf(PBKDF2, <<Struct(<<Octs(Fill(4, 8)), Num(<<8, 0>>), AlgOf(HmacSha256, <<Null>>)>>)>>)
Pbes2With(kdf) == AlgOf(PBES2, <<Struct(<<kdf, AlgOf(Aes256, <<Octs(Fill(4, 6))>>)>>)>>)
ContentInfo(kind, inner) == Struct(<<OidOf(kind), Context(0, inner)>>)
Eci(scheme) == Struct(<<OidOf(Data), scheme, Tlv(128, Fill(3, 200))>>)
Bag(kind, value) == Struct(<<OidOf(kind), Context(0, value)>>)
AuthSafe == ContentInfo(Data, Octs(Struct(<<
              ContentInfo(EncryptedData, Struct(<<Zero, Eci(Pbes2With(Pbkdf2))>>)),
              ContentInfo(Data, Octs(Struct(<<
                Bag(EncryptedKeyBag, Struct(<<AlgOf(Rc2, <<>>), Octs(Fill(3, 1))>>)),
                Bag(CertBag, Octs(Fill(2, 1)))>>)))>>)))
MacOf == Struct(<<Struct(<<AlgOf(Sha256, <<Null>>), Octs(Fill(3, 1))>>), Octs(Fill(2, 2)), Num(<<8, 0>>)>>)
Recipients == SetOf1(Struct(<<Zero, Name, AlgOf(RSA, <<Null>>), Octs(Fill(3, 4))>>) \o Context(3, Null))
Signers == SetOf1(Struct(<<Num(<<1>>), Name, AlgOf(Sha256, <<>>), AlgOf(Ed25519, <<>>), Octs(<<1>>)>>))

F(name, arcs) == Fact(name, arcs)
Is(kind, bytes, tells) == [kind |-> kind, term |-> AsBytes(bytes), tells |-> tells, changed |-> FALSE]

DerCores ==
  {Is("X.509 certificate", SignedOf(<<Version3>> \o Fields(RsaSpki), Sha256Rsa),
      {F("signature", Sha256Rsa), F("algorithm", RSA), F("bits", <<72>>)}),
   Is("X.509 certificate", SignedOf(Fields(EcSpki(P256)), Sha256Rsa),
      {F("signature", Sha256Rsa), F("algorithm", EC), F("curve", P256)}),
   Is("certificate signing request (PKCS#10)", Csr(Name, EdSpki), {F("algorithm", Ed25519)}),
   Is("certificate revocation list (X.509 CRL)",
      Crl(<<Num(<<1>>), AlgOf(Sha256Rsa, <<>>), Name, UtcTime>>), {F("signature", Sha256Rsa)}),
   Is("certificate revocation list (X.509 CRL)",
      Crl(<<AlgOf(Sha256Rsa, <<>>), Name, LongTime, LongTime>>), {}),
   Is("private key (PKCS#8)", Struct(<<Zero, AlgOf(RSA, <<Null>>), Octs(Struct(Rsa9))>>),
      {F("algorithm", RSA), F("bits", <<72>>)}),
   Is("private key (PKCS#8)", Struct(<<Num(<<1>>), AlgOf(Ed25519, <<>>), Octs(Octs(Fill(3, 5)))>>),
      {F("algorithm", Ed25519)}),
   Is("private key (PKCS#8)", Struct(<<Zero, AlgOf(EC, <<OidOf(P384)>>), Octs(<<1>>)>>),
      {F("curve", P384)}),
   Is("ECDSA P-256 private key (PKCS#8, DER)",
      Struct(<<Zero, AlgOf(EC, <<OidOf(P256)>>), Octs(Struct(<<Num(<<1>>), Octs(Fill(3, 5))>>))>>), {}),
   Is("encrypted private key (PKCS#8)", Struct(<<Pbes2With(Pbkdf2), Octs(Fill(3, 7))>>),
      {F("key from", PBKDF2), F("prf", HmacSha256), F("cipher", Aes256)}),
   Is("encrypted private key (PKCS#8)", Struct(<<Pbes2With(AlgOf(Scrypt, <<>>)), Octs(Fill(3, 7))>>),
      {F("key from", Scrypt)}),
   Is("encrypted private key (PKCS#8)", Struct(<<AlgOf(Rc2, <<Null>>), Octs(Fill(3, 7))>>),
      {F("scheme", Rc2)}),
   Is("public key (SubjectPublicKeyInfo)", RsaSpki, {F("bits", <<72>>)}),
   Is("public key (SubjectPublicKeyInfo)", EcSpki(P256), {F("curve", P256)}),
   Is("EC private key (SEC1)", Struct(<<Num(<<1>>), Octs(Fill(3, 5)), Context(0, OidOf(P384))>>),
      {F("curve", P384)}),
   Is("EC private key (SEC1)", Struct(<<Num(<<1>>), Octs(Fill(3, 5))>>), {}),
   Is("RSA private key (PKCS#1)", Struct(Rsa9), {F("bits", <<72>>)}),
   Is("PKCS#12 bundle (PFX)", Struct(<<Num(<<3>>), AuthSafe, MacOf>>),
      {F("integrity", Sha256), F("cipher", Aes256), F("scheme", Rc2)}),
   Is("PKCS#12 bundle (PFX)", Struct(<<Num(<<3>>), ContentInfo(Data, Octs(<<7>>))>>), {}),
   Is("CMS enveloped data",
      ContentInfo(EnvelopedData, Struct(<<Zero, Recipients, Eci(AlgOf(Aes256, <<>>))>>)),
      {F("cipher", Aes256), F("key transport", RSA), F("recipient", <<163>>)}),
   Is("CMS authenticated enveloped data",
      ContentInfo(AuthEnvelopedData, Struct(<<Zero, Recipients, Eci(AlgOf(Aes256, <<>>)), Octs(<<1>>)>>)),
      {F("cipher", Aes256)}),
   Is("CMS signed data",
      ContentInfo(SignedData,
        Struct(<<Num(<<1>>), SetOf1(AlgOf(Sha256, <<>>)), Struct(<<OidOf(Data)>>), Signers>>)),
      {F("digest", Sha256), F("signature", Ed25519)}),
   Is("CMS encrypted data", ContentInfo(EncryptedData, Struct(<<Zero, Eci(Pbes2With(Pbkdf2))>>)),
      {F("cipher", Aes256)}),
   Is("ECDSA signature (DER)", Struct(<<Num(Fill(32, 1)), Num(<<0>> \o Fill(32, 200))>>), {})}
  \cup {Is("certificate signing request (PKCS#10)", Csr(NameOfLen(n), EcSpki(P256)),
           {F("algorithm", EC), F("curve", P256)}) : n \in SubjectLens}

\* v4 and v6 key packets, session key packets and signatures.
PgpKey4 == <<4, 0, 0, 0, 1, 1, 8, 0>> \o Fill(3, 7)
PgpKey6 == <<6, 0, 0, 0, 1, 27>> \o Fill(8, 7)
PgpEcdh == <<4, 0, 0, 0, 1, 18, 5, 43, 129, 4, 0, 34>>
Pkesk3 == <<3>> \o Fill(8, 170) \o <<18, 1>>
Pkesk6 == <<6, 2, 5, 5, 25, 1>>
Skesk4 == <<4, 9, 3, 8>> \o Fill(8, 2) \o <<96>>
Skesk6 == <<6, 20, 9, 2, 1>>
Seipd2 == <<2, 9, 2, 6>> \o Fill(4, 200)
Sig4 == <<4, 0, 22, 10, 0>>
Sig3 == <<3, 5>> \o Fill(13, 0) \o <<17, 2, 0>>

PgpCores ==
  {Is("OpenPGP encrypted message", PacketOf(1, Pkesk3) \o PacketOf(18, Seipd2),
      {F("recipient", <<18>> \o Fill(8, 170)), F("data", <<18, 9, 2>>)}),
   Is("OpenPGP encrypted message", PacketOf(1, Pkesk6) \o <<192 + 18, 230>> \o Seipd2,
      {F("recipient", <<25>>), F("data", <<18, 9, 2>>)}),
   Is("OpenPGP encrypted message", PacketOf(3, Skesk4) \o PacketOf(9, <<1, 2, 3>>),
      {F("data", <<9>>)}),
   Is("OpenPGP encrypted message", PacketOf(3, Skesk6) \o PacketOf(20, <<1, 9, 2>>),
      {F("passphrase", <<9, 2>>), F("data", <<20, 9, 2>>)}),
   Is("OpenPGP signature", PacketOf(2, Sig4), {F("signature", <<22, 10>>)}),
   Is("OpenPGP signature", PacketOf(4, <<3>>) \o PacketOf(2, Sig3), {F("signature", <<17, 2>>)}),
   Is("OpenPGP private key", PacketOf(5, PgpKey4) \o PacketOf(13, <<97>>) \o PacketOf(7, PgpEcdh),
      {F("primary key", <<1, 2048>>), F("user ids", <<1>>), F("subkey", <<18, 43, 129, 4, 0, 34>>)}),
   Is("OpenPGP public key", PacketOf(6, PgpKey6) \o PacketOf(14, PgpKey6), {F("subkey", <<27>>)}),
   Is("OpenPGP compressed data", PacketOf(8, <<1, 255>>), {})}

\* ---- krypto's own, and what is told without a look inside --------------------------

BlobWith(ver, alg, more) == MAGIC \o <<ver, alg>> \o Fill(48 + more, 200)

Content(entries) == [salt |-> Fill(SaltLen, 1), key_id |-> Fill(KeyIdLen, 2), entries |-> entries]
A == <<97>>
AB == <<97, 98>>
B == <<126>>
Contents == {Content(<<>>), Content(A :> <<>>), Content(AB :> Fill(2, 0)),
             Content(A :> <<7>> @@ B :> <<1, 0>>), Content(AB :> <<>> @@ A :> <<1>>),
             Content(A :> Fill(MaxStoreBytes - HEADER_LEN - 7, 0)),
             Content(A :> Fill(MaxStoreBytes - HEADER_LEN - 6, 0))}
Files == UNION {Persist(c) : c \in Contents}

Params(m, t, p) == <<[key |-> "m", value |-> m], [key |-> "t", value |-> t], [key |-> "p", value |-> p]>>
Phc(version, params) == [as |-> "phc", version |-> version, params |-> params]

OwnCores ==
  {Is("krypto blob", BlobWith(1, 2, 0), {F("algorithm", <<2>>)}),
   Is("krypto blob", SubSeq(BlobWith(1, 2, 0), 1, 53), {F("cut short", <<>>)}),
   [Is("krypto blob", BlobWith(2, 2, 9), {}) EXCEPT !.changed = TRUE],
   [Is("krypto blob", BlobWith(1, 4, 9), {}) EXCEPT !.changed = TRUE],
   Is("krypto store file", Image(Content(A :> <<7>> @@ B :> <<1, 0>>)),
      {F("entries", <<2>>), F("name", A), F("name", B)}),
   Is("krypto store file", SubSeq(Image(Content(<<>>)), 1, 30), {F("cut short", <<>>)}),
   Is("told by its length", Fill(32, 5), {}), Is("told by its length", Fill(20, 200), {}),
   Is("ECDSA P-256 public key (SEC1, uncompressed)", <<4>> \o Fill(64, 200), {}),
   Is(NOT_RECOGNIZED, <<>>, {}), Is(NOT_RECOGNIZED, <<200>>, {}), Is(NOT_RECOGNIZED, Fill(65, 5), {}),
   Is(NOT_RECOGNIZED, <<192 + 18, 230>> \o Seipd2, {}), Is(NOT_RECOGNIZED, PacketOf(60, <<3>>), {}),
   Is(NOT_RECOGNIZED, Cat(<<RsaKey, Null>>), {}), Is(NOT_RECOGNIZED, Struct(<<Num(Fill(34, 1)), Num(<<1>>)>>), {})}
  \cup
  {[kind |-> k[1], term |-> k[2], tells |-> {}, changed |-> FALSE] :
     k \in {<<"OpenSSH public key", [as |-> "told", what |-> "OpenSSH public key", size |-> 80]>>,
            <<"password hash (PHC string, Argon2id)", Phc(TRUE, Params({65536}, {3}, {2}))>>,
            <<NOT_RECOGNIZED, Phc(TRUE, Params({}, {3}, {2}))>>,
            <<NOT_RECOGNIZED, Phc(TRUE, Params({8}, {3}, {2}) \o Params({}, {}, {}))>>,
            <<NOT_RECOGNIZED, Phc(FALSE, Params({8}, {3}, {2}))>>}}

Cores == DerCores \cup PgpCores \cup OwnCores

\* ---- layers --------------------------------------------------------------------

In(layer, t) ==
  IF layer = "pem" THEN [as |-> "pem", label |-> "CERTIFICATE", of |-> t, sound |-> TRUE]
  ELSE [as |-> layer, of |-> t]
Layers == BoundedSeq({"hex", "base64", "pem"}, 3)
Wrap(layers, t) == FoldRight(In, layers, t)

Pem(label, t, sound) == [as |-> "pem", label |-> label, of |-> t, sound |-> sound]
Armor(t, sound) == [as |-> "armor", of |-> t, sound |-> sound]
Blocks == {Pem("RSA PUBLIC KEY", AsBytes(RsaKey), TRUE), Pem("RSA PUBLIC KEY", AsBytes(EdSpki), TRUE),
           Pem("RSA PRIVATE KEY", AsBytes(Fill(40, 200)), FALSE),
           Armor(AsBytes(PacketOf(2, Sig4)), TRUE), Armor(AsBytes(RsaKey), TRUE),
           Armor(AsBytes(<<>>), FALSE)}

\* Short texts, and longer ones that are hex, base64 or both.
Letters == {10, 43, 47, 48, 61, 65, 97, 103}
Texts == BoundedSeq(Letters, 4)
           \cup {Base64Encode(Fill(n, b)) : n \in 4..9, b \in {0, 105, 255}}
           \cup {Base64Encode(<<117, 230, 157, 109, 231, 159>>)}        \* "deadbeef"

\* One octet changed, put in or taken out, or the end cut off.
Values == {0, 1, 2, 6, 7, 97, 126, 127, 255}
Damaged(f) ==
  {f} \cup {SubSeq(f, 1, n) : n \in HEADER_LEN - 1..Len(f)}
      \cup {[f EXCEPT ![i] = v] : i \in {1, 5} \cup HEADER_LEN + 1..Len(f), v \in Values}
      \cup {InsertAt(f, i, v) : i \in HEADER_LEN + 1..Len(f) + 1, v \in Values}
      \cup {RemoveAt(f, i) : i \in HEADER_LEN + 1..Len(f)}
      \cup {f \o SubSeq(f, HEADER_LEN + 1, Len(f))}
SmallFiles == {f \in Files : Len(f) < MaxStoreBytes - 2}

\* An input carries along what it was made from, for the properties to compare.
Lens == {0, 1, 127, 128, 191, 192, 193, 255, 256, 300}
DerElements == {[tag |-> t, body |-> Fill(n, 1)] : t \in {4, 160}, n \in Lens}
DerForms(e) == {<<e.tag>> \o l \o e.body : l \in LengthForms(Len(e.body))}
PgpElements == {[tag |-> t, body |-> Fill(n, 1)] : t \in {1, 14, 18}, n \in Lens \cup {8383, 8384}}
PgpForms(p) == {h \o p.body : h \in PacketForms(p.tag, Len(p.body))}

Spelled(made, e, s) == AsBytes(s) @@ [made |-> made, element |-> e]
Encodings == UNION {{Spelled("der", e, s) : s \in DerForms(e)} : e \in DerElements}
               \cup UNION {{Spelled("pgp", p, s) : s \in PgpForms(p)} : p \in PgpElements}
Wrappings == {Wrap(layers, core.term) @@ [made |-> "core", layers |-> layers, core |-> core] :
                layers \in Layers, core \in Cores}
Plain(t) == t @@ [made |-> "other"]

AllInputs ==
  Wrappings \cup Encodings
    \cup {Plain(t) : t \in {Wrap(layers, b) : layers \in BoundedSeq({"hex", "base64", "pem"}, 2), b \in Blocks}
                             \cup {AsBytes(s) : s \in Texts}
                             \cup {AsBytes(d) : d \in UNION {Damaged(f) : f \in SmallFiles} \cup Files}}

\* All that is in the inputs, layer by layer.
RECURSIVE WithInside(_, _)
WithInside(terms, new) ==
  IF new = {} THEN terms
  ELSE LET all == terms \cup new IN WithInside(all, UNION {Unwrapped(t) : t \in new} \ all)

ASSUME RecognizersAssumption == Recognizers(WithInside({}, Inputs))

\* ---- properties ------------------------------------------------------------------

Fresh == Len(frames) = 1 /\ found = {}

\* Every element and every packet is read back from each way its length may be
\* written, with what follows it, and is none when its last octet is missing
\* (der.rs:13-38, pgp.rs:17-91); and bytes have one spelling in hex and one in
\* base64, with and without padding.
ReadsBack ==
  Fresh =>
    LET s == input.bytes
        next == <<192 + 13, 1, 97>>
    IN /\ input.made = "der" =>
            /\ Children(s \o next) = {<<input.element, [tag |-> next[1], body |-> <<97>>]>>}
            /\ Whole(s) = {input.element} /\ Whole(s \o next) = {} /\ Whole(Front(s)) = {}
       /\ input.made = "pgp" =>
            LET packet == Packet(input.element.tag, {input.element.body}, input.element.body)
            IN /\ Packets(s \o next) = {<<packet, Packet(13, {<<97>>}, <<97>>)>>}
               /\ Packets(Front(s)) = {}
       /\ input.made = "other" => \A t \in BytesOf(input) : OneSpellingOf(t) /\ ReadsItself(t)

\* A store that is written loads as it was; one that loads was read to its end,
\* and inspect shows it as sound, with the names that load finds.
StoreReadsBack ==
  Fresh => /\ \A d \in BytesOf(input) : NothingUnread(d) /\ ShownAs(d)
           /\ \A c \in Contents : input = Plain(AsBytes(Image(c))) => LoadsWhatItWrote(c)

\* The layers that inspect takes off: hex and base64 only as one of the two
\* outermost, and no base64 or PEM around what it does not know.
TakenOff(layers) == \A i \in DOMAIN layers : layers[i] = "pem" \/ i <= MaxUnwraps

ToldAs(f, core, layers) ==
  IF core.kind = NOT_RECOGNIZED
  THEN f.what \in {NOT_RECOGNIZED, "CERTIFICATE", "told by its length"}
  ELSE TakenOff(layers) =>
         /\ f.what = core.kind /\ f.wraps = layers /\ f.changed = core.changed
         /\ core.tells \subseteq f.facts

\* Every structure of every grammar, in every nesting of layers that inspect
\* takes off, is told as what it is, with its algorithms and its layers, and
\* only a krypto blob with a changed header counts as changed.
ToldAsItself ==
  Done /\ input.made = "core" => \A f \in found : ToldAs(f, input.core, input.layers)
=============================================================================
