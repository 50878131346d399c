-------------------------------- MODULE Pkix ---------------------------------
(* What an X.509 or PKCS structure is, told from its DER, as                 *)
(* src/src/bin/krypto-cli/inspect/pkix.rs tells it.  A structure is the      *)
(* sequence of the elements inside its outer SEQUENCE; each operator gives   *)
(* the set of the one finding, or {} when the structure is another.          *)
EXTENDS Der
LOCAL INSTANCE SequencesExt
LOCAL INSTANCE FiniteSetsExt

Finding(what, facts) == [what |-> what, facts |-> facts, wraps |-> <<>>, changed |-> FALSE]

\* The first and the last element with a tag, as Options.
FirstTagged(parts, tag) ==
  LET at == {i \in DOMAIN parts : parts[i].tag = tag}
  IN IF at = {} THEN {} ELSE {parts[Min(at)]}

LastTagged(parts, tag) == FirstTagged(Reverse(parts), tag)

\* A list of facts is told as the set of them.
SignatureName(alg) == {{Fact("signature", a.name)} : a \in Algorithm(alg)}

\* Leaves out the BIT STRING's count of unused bits.
KeyBits(bits) == {Tail(t.body) : t \in {u \in bits : u.body # <<>>}}

OfLen(lists, n) == {l \in lists : Len(l) = n}

SpkiKey(spki) ==
  UNION {KeyAlgorithm({p[1]}, KeyBits({p[2]})) : p \in OfLen(Children(spki.body), 2)}

\* Signed structures are { to be signed, algorithm, BIT STRING }.
ToBeSigned(parts) ==
  IF Len(parts) = 3 /\ parts[1].tag = SEQUENCE_ /\ parts[3].tag = BIT_STRING
  THEN Children(parts[1].body) ELSE {}

DropFirst(parts, tag) ==
  IF parts # <<>> /\ parts[1].tag = tag THEN Tail(parts) ELSE parts

Digit == 48..57
AllDigits(s, from, until) == until <= Len(s) /\ \A i \in from..until : s[i] \in Digit

\* Whether a time can be told, in its two-digit and its four-digit form.  Text
\* beyond ASCII, which may be valid UTF-8 after the digits, is not in a model.
IsTime(t) ==
  /\ \A i \in DOMAIN t.body : t.body[i] < 128
  /\ \/ t.tag = 23 /\ AllDigits(t.body, 1, 6)
     \/ t.tag = 24 /\ AllDigits(t.body, 1, 8)

Certificate(parts) ==
  LET IsOne(fields) ==
        /\ Len(fields) >= 6
        /\ fields[1].tag = INTEGER /\ fields[4].tag = SEQUENCE_
        /\ OfLen(Children(fields[4].body), 2) # {}
  IN {Finding("X.509 certificate", name \cup UNION SpkiKey(fields[6])) :
        name \in SignatureName(Nth({parts}, 2)),
        fields \in {f \in {DropFirst(tbs, 160) : tbs \in ToBeSigned(parts)} : IsOne(f)}}

Request(parts) ==
  LET IsOne(info) ==
        /\ Len(info) >= 3
        /\ info[1].tag = INTEGER /\ info[1].body = <<0>> /\ info[3].tag = SEQUENCE_
      keys == UNION {SpkiKey(info[3]) : info \in {i \in ToBeSigned(parts) : IsOne(i)}}
  IN {Finding("certificate signing request (PKCS#10)", name \cup key) :
        name \in SignatureName(Nth({parts}, 2)), key \in keys}

RevocationList(parts) ==
  LET IsOne(fields) ==
        /\ Len(fields) >= 3
        /\ fields[1].tag = SEQUENCE_ /\ fields[2].tag = SEQUENCE_ /\ IsTime(fields[3])
  IN IF \E tbs \in ToBeSigned(parts) : IsOne(DropFirst(tbs, INTEGER))
     THEN {Finding("certificate revocation list (X.509 CRL)", name) :
             name \in SignatureName({parts[2]})}
     ELSE {}

\* Neither the version nor what follows the algorithm is looked at.
Pkcs8ByItsFront(parts) ==
  IF Len(parts) >= 3 /\ parts[1].tag = INTEGER
  THEN {Finding("private key (PKCS#8)", key) : key \in KeyAlgorithm({parts[2]}, {parts[3].body})}
  ELSE {}

Pkcs8(parts) ==
  IF /\ Len(parts) >= 3
     /\ parts[1].tag = INTEGER /\ parts[1].body \in {<<0>>, <<1>>}
     /\ parts[3].tag = OCTET_STRING
  THEN {Finding("private key (PKCS#8)", key) : key \in KeyAlgorithm({parts[2]}, {parts[3].body})}
  ELSE {}

\* The key derivation of PBES2.  PBKDF2's parameters, if any, are read further.
KeyFrom(kdf) ==
  LET Prf(fields) == {Fact("prf", a.name) : a \in Algorithm(FirstTagged(fields, SEQUENCE_))}
      further == {Prf(fields) : fields \in Inside(kdf.params)}
  IN {{Fact("key from", kdf.name)} \cup f :
        f \in IF kdf.name = PBKDF2 /\ kdf.params # {} THEN further ELSE {{}}}

\* PBES2 parameters { key derivation, cipher }.
Pbes2(params) ==
  LET pairs == OfLen(Inside(params), 2)
  IN {f \cup {Fact("cipher", c.name)} :
        f \in UNION {KeyFrom(kdf) : kdf \in Algorithm(Nth(pairs, 1))},
        c \in Algorithm(Nth(pairs, 2))}

SchemeText(alg) ==
  UNION {IF a.name = PBES2 THEN Pbes2(a.params) ELSE {{Fact("scheme", a.name)}} :
           a \in Algorithm(alg)}

EncryptedPkcs8(parts) ==
  IF Len(parts) = 2 /\ parts[2].tag = OCTET_STRING
  THEN {Finding("encrypted private key (PKCS#8)", scheme) : scheme \in SchemeText({parts[1]})}
  ELSE {}

Spki(parts) ==
  IF Len(parts) = 2 /\ parts[2].tag = BIT_STRING
  THEN {Finding("public key (SubjectPublicKeyInfo)", key) :
          key \in KeyAlgorithm({parts[1]}, KeyBits({parts[2]}))}
  ELSE {}

Sec1(parts) ==
  LET curve == Tagged(Held(FirstTagged(From(parts, 3), 160)), OID)
  IN IF /\ Len(parts) >= 2
        /\ parts[1].tag = INTEGER /\ parts[1].body = <<1>> /\ parts[2].tag = OCTET_STRING
     THEN {Finding("EC private key (SEC1)", {Fact("curve", NameOf(t)) : t \in curve})}
     ELSE {}

Pkcs1Private(parts) ==
  IF /\ Len(parts) = 9 /\ \A i \in 1..9 : parts[i].tag = INTEGER
     /\ parts[1].body = <<0>>
  THEN {Finding("RSA private key (PKCS#1)", {Fact("bits", <<IntegerBits(parts[2].body)>>)})}
  ELSE {}

\* Only under its PEM label.
Pkcs1Public(input) ==
  {Finding("RSA public key (PKCS#1)", {Fact("bits", <<n>>)}) : n \in RsaBits(input)}

\* ---- PKCS#12 and CMS ---------------------------------------------------------

MacData(mac) ==
  {Fact("integrity", a.name) : a \in Algorithm(Nth(Inside(Nth(Inside(mac), 1)), 1))}

ContentOf(info, kind) ==
  {parts[2].body : parts \in {p \in OfLen(Inside(info), 2) :
                                p[1].tag = OID /\ NameOf(p[1]) = kind /\ p[2].tag = 160}}

\* One failing member makes the whole list fail, as `?` does in a loop.
AllOf(options) ==
  FoldLeft(LAMBDA acc, option : {a \cup b : a \in acc, b \in option}, {{}}, options)

BagProtection(bag) ==
  UNION {IF parts = <<>> THEN {}
         ELSE IF NameOf(parts[1]) # EncryptedKeyBag THEN {{}}
         ELSE SchemeText(Nth(Inside(Held(Nth({parts}, 2))), 1)) : parts \in Children(bag.body)}

BagsProtection(inner) ==
  UNION {AllOf([i \in DOMAIN list |-> BagProtection(list[i])]) :
           list \in Inside(Tagged(Held(inner), SEQUENCE_))}

InfoProtection(info) ==
  LET OfKind(kind, inner) ==
        IF inner = {} THEN {}
        ELSE IF kind = EncryptedData THEN SchemeText(Nth(Inside(Nth(Inside(inner), 2)), 2))
        ELSE IF kind = Data THEN BagsProtection(inner)
        ELSE {{}}
  IN UNION {IF parts = <<>> THEN {} ELSE OfKind(NameOf(parts[1]), Held(Nth({parts}, 2))) :
              parts \in Children(info.body)}

Pkcs12Protection(authSafe) ==
  LET octets == Tagged(UNION {Whole(c) : c \in ContentOf({authSafe}, Data)}, OCTET_STRING)
  IN UNION {AllOf([i \in DOMAIN list |-> InfoProtection(list[i])]) :
              list \in Inside(Tagged(Held(octets), SEQUENCE_))}

Pkcs12(parts) ==
  IF /\ Len(parts) >= 2
     /\ parts[1].tag = INTEGER /\ parts[1].body = <<3>> /\ parts[2].tag = SEQUENCE_
  THEN {Finding("PKCS#12 bundle (PFX)",
                MacData(Nth({parts}, 3)) \cup UNION Pkcs12Protection(parts[2]))}
  ELSE {}

\* A SET's members, or none when there is no SET or it is not clean.
SetOf(option) == UNION {{l[i] : i \in DOMAIN l} : l \in Inside(option)}

\* The elements of a list that are algorithm identifiers.
Algorithms(parts) == SelectSeq(parts, LAMBDA t : Algorithm({t}) # {})

Recipient(info) ==
  CASE info.tag = SEQUENCE_ ->
         {Fact("key transport", a.name) :
            a \in Algorithm(Nth({Algorithms(parts) : parts \in Children(info.body)}, 1))}
    [] info.tag \in {161, 162, 163} -> {Fact("recipient", <<info.tag>>) : parts \in Children(info.body)}
    [] OTHER -> {}

Signer(info) ==
  {Fact("signature", a.name) :
     a \in Algorithm(Nth({Algorithms(parts) : parts \in Children(info.body)}, 2))}

Enveloped(what, fields) ==
  {Finding(what, {Fact("cipher", a.name)}
                   \cup UNION {Recipient(r) : r \in SetOf(FirstTagged(fields, SET_))}) :
     a \in Algorithm(Nth(Inside(LastTagged(fields, SEQUENCE_)), 2))}

CmsOf(kind, fields) ==
  CASE kind = EnvelopedData -> Enveloped("CMS enveloped data", fields)
    [] kind = AuthEnvelopedData -> Enveloped("CMS authenticated enveloped data", fields)
    [] kind = SignedData ->
         {Finding("CMS signed data",
                  {Fact("digest", a.name) : a \in Algorithm(SetOf(FirstTagged(fields, SET_)))}
                    \cup UNION {Signer(s) : s \in SetOf(LastTagged(fields, SET_))})}
    [] kind = EncryptedData ->
         {Finding("CMS encrypted data", s) : s \in SchemeText(Nth(Inside(Nth({fields}, 2)), 2))}
    [] OTHER -> {}

Cms(parts) ==
  IF Len(parts) = 2 /\ parts[1].tag = OID /\ parts[2].tag = 160
  THEN UNION {CmsOf(NameOf(parts[1]), fields) :
                fields \in Inside(Tagged(Held({parts[2]}), SEQUENCE_))}
  ELSE {}

\* ---- the first that tells ------------------------------------------------------

OrElse(a, b) == IF a # {} THEN a ELSE b

FirstThatTells(findings) ==
  LET tell == {i \in DOMAIN findings : findings[i] # {}}
  IN IF tell = {} THEN {} ELSE findings[Min(tell)]

FromDer(input) ==
  LET TellsAs(p) ==
        FirstThatTells(<<Certificate(p), Request(p), RevocationList(p), Pkcs8(p),
                         EncryptedPkcs8(p), Spki(p), Pkcs12(p), Cms(p), Sec1(p),
                         Pkcs1Private(p)>>)
  IN UNION {TellsAs(parts) : parts \in Inside(Tagged(Whole(input), SEQUENCE_))}
=============================================================================
