--------------------------------- MODULE Der ---------------------------------
(* The walk over DER of src/src/bin/krypto-cli/inspect/der.rs: elements,     *)
(* object identifiers, algorithm identifiers and RSA sizes.  An Option is a  *)
(* set with at most one member, bytes are a sequence of 0..255, and the      *)
(* dotted text of an object identifier is the sequence of its arcs.          *)
EXTENDS Integers, Sequences
LOCAL INSTANCE SequencesExt
LOCAL INSTANCE FiniteSetsExt

SEQUENCE_ == 48
SET_ == 49
INTEGER == 2
BIT_STRING == 3
OCTET_STRING == 4
OID == 6

\* Lengths and arcs are usize and u64 in the code; both stay far below these
\* bounds on the inputs of a run, so that a length at HugeLen runs past the end
\* whatever its exact value, and an arc wraps as in a release build.
HugeLen == 2^22
ArcModulus == 2^21

First(s) == IF s = <<>> THEN {} ELSE {s[1]}
From(s, i) == SubSeq(s, i, Len(s))

BigEndian(s) == FoldLeft(LAMBDA acc, b : IF acc >= HugeLen THEN acc ELSE 256 * acc + b, 0, s)

\* The number of octets of a length beyond the first, and the length.
LengthOctets(first) == IF first < 128 THEN 0 ELSE first - 128

LengthOf(s) ==
  LET n == LengthOctets(s[2])
  IN IF n = 0 THEN s[2] ELSE BigEndian(SubSeq(s, 3, 2 + n))

\* The long form read without its first octet's count.
LengthOfOneOctet(s) == s[2] % 128

\* One element from the front of s, and what follows it.
Read(s) ==
  IF Len(s) < 2 \/ s[2] = 128 \/ LengthOctets(s[2]) > 4 \/ Len(s) < 2 + LengthOctets(s[2])
  THEN {}
  ELSE LET start == 2 + LengthOctets(s[2])
           end == start + LengthOf(s)
       IN IF Len(s) < end THEN {}
          ELSE {[tlv |-> [tag |-> s[1], body |-> SubSeq(s, start + 1, end)],
                 rest |-> From(s, end + 1)]}

Whole(s) == {r.tlv : r \in {q \in Read(s) : q.rest = <<>>}}

Children(body) ==
  LET In[at \in 1..Len(body) + 1] ==           \* the elements from position at on
        IF at > Len(body) THEN {<<>>}
        ELSE UNION {{<<r.tlv>> \o more : more \in In[Len(body) + 1 - Len(r.rest)]} :
                      r \in Read(From(body, at))}
  IN In[1]

\* The same over Options: what is inside an element, the one element its body
\* is, and the member of a list at a position.
Inside(option) == UNION {Children(t.body) : t \in option}
Held(option) == UNION {Whole(t.body) : t \in option}
Nth(lists, i) == {l[i] : l \in {m \in lists : i \in DOMAIN m}}

\* value - 80 wraps when an arc below 80 is spelled in more than one octet.
FirstArcs(value, octets) ==
  LET first == IF octets = 1 /\ value < 80 THEN value \div 40 ELSE 2
  IN <<first, (value - 40 * first) % ArcModulus>>

ArcStep(f, b) ==
  LET value == (128 * f.value + (b % 128)) % ArcModulus
  IN IF b >= 128 THEN [f EXCEPT !.value = value, !.octets = @ + 1]
     ELSE [parts |-> IF f.parts = <<>> THEN FirstArcs(value, f.octets + 1)
                     ELSE Append(f.parts, value),
           value |-> 0, octets |-> f.octets + 1]

OidText(body) == FoldLeft(ArcStep, [parts |-> <<>>, value |-> 0, octets |-> 0], body).parts

\* Of the 48 names in the table only these decide anything.
RSA == <<1, 2, 840, 113549, 1, 1, 1>>
EC == <<1, 2, 840, 10045, 2, 1>>
PBES2 == <<1, 2, 840, 113549, 1, 5, 13>>
PBKDF2 == <<1, 2, 840, 113549, 1, 5, 12>>
Data == <<1, 2, 840, 113549, 1, 7, 1>>
SignedData == <<1, 2, 840, 113549, 1, 7, 2>>
EnvelopedData == <<1, 2, 840, 113549, 1, 7, 3>>
EncryptedData == <<1, 2, 840, 113549, 1, 7, 6>>
AuthEnvelopedData == <<1, 2, 840, 113549, 1, 9, 16, 1, 23>>
EncryptedKeyBag == <<1, 2, 840, 113549, 1, 12, 10, 1, 2>>

NameOf(tlv) == OidText(tlv.body)

Tagged(option, tag) == {t \in option : t.tag = tag}

\* An AlgorithmIdentifier: its name, and its parameters if any.
Algorithm(option) ==
  {[name |-> NameOf(parts[1]), params |-> First(Tail(parts))] :
     parts \in {q \in Inside(Tagged(option, SEQUENCE_)) : q # <<>> /\ q[1].tag = OID}}

BitLength(b) == CHOOSE n \in 0..8 : b < 2^n /\ (n = 0 \/ b >= 2^(n - 1))

IntegerBits(body) ==
  LET set == {i \in DOMAIN body : body[i] # 0}
  IN IF set = {} THEN 0
     ELSE 8 * (Len(body) - Min(set)) + BitLength(body[Min(set)])

\* The modulus of SEQUENCE { n, e } or SEQUENCE { 0, n, e, ... }.
Modulus(parts) ==
  IF Len(parts) >= 9 /\ parts[1].tag = INTEGER /\ parts[1].body = <<0>> THEN {parts[2]}
  ELSE IF Len(parts) = 2 /\ parts[1].tag = INTEGER /\ parts[2].tag = INTEGER THEN {parts[1]}
  ELSE {}

RsaBits(key) ==
  LET lists == Inside(Tagged(UNION {Whole(k) : k \in key}, SEQUENCE_))
  IN {IntegerBits(n.body) : n \in Tagged(UNION {Modulus(parts) : parts \in lists}, INTEGER)}

\* A key's algorithm, as facts: its name, an EC key's curve, an RSA key's bits.
\* alg and key are Options of the identifier and of the key's bytes.
Fact(name, is) == [fact |-> name, is |-> is]

KeyAlgorithm(alg, key) ==
  {{Fact("algorithm", a.name)}
     \cup {Fact("curve", NameOf(p)) : p \in IF a.name = EC THEN Tagged(a.params, OID) ELSE {}}
     \cup {Fact("bits", <<n>>) : n \in IF a.name = RSA THEN RsaBits(key) ELSE {}} :
     a \in Algorithm(alg)}
=============================================================================
