--------------------------------- MODULE Pgp ---------------------------------
(* OpenPGP packets and what they make up, as                                 *)
(* src/src/bin/krypto-cli/inspect/pgp.rs walks and tells them.  Options are  *)
(* sets, bytes are sequences of 0..255, as in Der.                           *)
EXTENDS Pkix
LOCAL INSTANCE SequencesExt
LOCAL INSTANCE FiniteSetsExt

\* A header: the tag, the length as an Option (none for a body that streams),
\* and how many bytes the header takes.
Header(tag, len, size) == [tag |-> tag, len |-> len, size |-> size]

TwoOctetsFromZero(l1, l2) == 256 * (l1 - 192) + l2
TwoOctets(l1, l2) == 256 * (l1 - 192) + l2 + 192

\* New format: the first length octet tells the form.
NewHeader(s) ==
  LET tag == s[1] % 64
      l1 == s[2]
  IN IF Len(s) < 2 THEN {}
     ELSE IF l1 <= 191 THEN {Header(tag, {l1}, 2)}
     ELSE IF l1 <= 223
          THEN IF Len(s) < 3 THEN {} ELSE {Header(tag, {TwoOctets(l1, s[3])}, 3)}
     ELSE IF l1 = 255
          THEN IF Len(s) < 6 THEN {} ELSE {Header(tag, {BigEndian(SubSeq(s, 3, 6))}, 6)}
     ELSE {Header(tag, {}, 2)}

\* Old format: the two low bits of the tag tell it.
OldHeader(s) ==
  LET tag == (s[1] \div 4) % 16
      form == s[1] % 4
      octets == 2^form
  IN IF form = 3 THEN {Header(tag, {}, 1)}
     ELSE IF Len(s) < 1 + octets THEN {}
     ELSE {Header(tag, {BigEndian(SubSeq(s, 2, 1 + octets))}, 1 + octets)}

PacketHeader(s) ==
  {h \in IF s[1] < 128 THEN {} ELSE IF s[1] >= 192 THEN NewHeader(s) ELSE OldHeader(s) :
     h.tag # 0}

\* body is an Option: none for a stream, which ends the walk; head is where the
\* body starts either way.
Packet(tag, body, head) == [tag |-> tag, body |-> body, head |-> head]

\* Two numbers on both sides of each boundary between the forms decide which
\* bytes a packet takes; a stream comes only after a session key's packet.
NextPacket(s, keyBefore) ==
  LET With(h) ==
        LET after == From(s, h.size + 1)
            Stated == {[packet |-> Packet(h.tag, {SubSeq(after, 1, n)}, SubSeq(after, 1, n)),
                        rest |-> From(after, n + 1)] : n \in {m \in h.len : m <= Len(after)}}
            Streamed == [packet |-> Packet(h.tag, {}, after), rest |-> <<>>]
        IN IF h.len # {} THEN Stated ELSE IF keyBefore THEN {Streamed} ELSE {}
  IN UNION {With(h) : h \in PacketHeader(s)}

Packets(input) ==
  LET In[at \in 1..Len(input) + 1, keyBefore \in BOOLEAN] ==
        IF at > Len(input) THEN {<<>>}
        ELSE UNION {{<<r.packet>> \o more :
                       more \in In[Len(input) + 1 - Len(r.rest),
                                   keyBefore \/ r.packet.tag \in {1, 3}]} :
                     r \in NextPacket(From(input, at), keyBefore)}
  IN IF input = <<>> THEN {} ELSE In[1, FALSE]

\* ---- what the packets make up --------------------------------------------------

\* Only the numbers of the algorithms are told here; the code names them.
KeyDescription(body) ==
  LET Material(start) ==
        LET alg == body[6]
            material == From(body, start)
        IN IF Len(body) + 1 < start THEN {}
           ELSE IF alg \in 1..3
                THEN IF Len(material) < 2 THEN {}
                     ELSE {<<alg, BigEndian(SubSeq(material, 1, 2))>>}
           ELSE IF alg \in {18, 19, 22}
                THEN IF material = <<>> \/ Len(material) < 1 + material[1] THEN {}
                     ELSE {<<alg>> \o SubSeq(material, 2, 1 + material[1])}
           ELSE {<<alg>>}
  IN IF body = <<>> THEN {}
     ELSE CASE body[1] = 4 -> Material(7)
            [] body[1] = 6 -> Material(11)
            [] OTHER -> {<<0, body[1]>>}

KnownVersions ==
  [tag \in {1, 2, 3, 4, 5, 6, 8, 18, 20} |->
     CASE tag \in {1, 4} -> {3, 6}
       [] tag \in {2, 5, 6} -> 3..6
       [] tag = 3 -> 4..6
       [] tag = 8 -> 0..3
       [] tag = 18 -> {1, 2}
       [] tag = 20 -> {1}]

KnownVersion(p) ==
  p.head # <<>> /\ p.tag \in DOMAIN KnownVersions /\ p.head[1] \in KnownVersions[p.tag]

\* What one packet adds to a message: the set of the facts, or {} when it is too
\* short for its version.
RecipientOf(body) ==
  IF body = <<>> THEN {}
  ELSE CASE body[1] = 3 ->
              IF Len(body) < 10 THEN {} ELSE {{Fact("recipient", <<body[10]>> \o SubSeq(body, 2, 9))}}
         [] body[1] = 6 ->
              IF Len(body) < 2 \/ Len(body) < 3 + body[2] THEN {}
              ELSE {{Fact("recipient", <<body[3 + body[2]]>>)}}
         [] OTHER -> {{}}

PassphraseOf(body) ==
  LET at == IF body[1] = 6 THEN 3 ELSE 2
  IN IF body = <<>> THEN {}
     ELSE CASE body[1] = 4 ->
                 IF Len(body) < 2 THEN {} ELSE {{Fact("passphrase", From(body, 2))}}
            [] body[1] \in {5, 6} ->
                 IF Len(body) < at + 1 THEN {} ELSE {{Fact("passphrase", SubSeq(body, at, at + 1))}}
            [] OTHER -> {{}}

DataPacket(tag, head) ==
  LET version == IF tag = 18 THEN 2 ELSE 1
  IN Fact("data", <<tag>> \o
       IF tag # 9 /\ Len(head) >= 3 /\ head[1] = version THEN SubSeq(head, 2, 3) ELSE <<>>)

AddsToMessage(p) ==
  IF p.body = {} \/ p.tag \notin {1, 3} THEN {{}}
  ELSE UNION {IF p.tag = 1 THEN RecipientOf(body) ELSE PassphraseOf(body) : body \in p.body}

\* The last data packet is the one told.
Message(packets) ==
  LET datas == SelectSeq(packets, LAMBDA p : p.tag \in {9, 18, 20})
      data == IF datas = <<>> THEN {}
              ELSE {DataPacket(datas[Len(datas)].tag, datas[Len(datas)].head)}
  IN {Finding("OpenPGP encrypted message", f \cup data) : f \in AllOf([i \in DOMAIN packets |-> AddsToMessage(packets[i])])}

Signature(packets) ==
  LET Named(body) ==
        IF body = <<>> THEN {}
        ELSE CASE body[1] = 3 ->
                    IF Len(body) < 17 THEN {} ELSE {{Fact("signature", SubSeq(body, 16, 17))}}
               [] body[1] \in {4, 6} ->
                    IF Len(body) < 4 THEN {} ELSE {{Fact("signature", SubSeq(body, 3, 4))}}
               [] OTHER -> {{Fact("version", <<body[1]>>)}}
      bodies == UNION {p.body : p \in FirstTagged(packets, 2)}
  IN {Finding("OpenPGP signature", f) : f \in UNION {Named(body) : body \in bodies}}

Key(packets) ==
  LET subkeys == {packets[i] : i \in {j \in DOMAIN packets : packets[j].tag \in {7, 14}}}
      Described(p) == UNION {KeyDescription(body) : body \in p.body}
      userIds == Len(SelectSeq(packets, LAMBDA p : p.tag = 13))
  IN {Finding(IF packets[1].tag = 5 THEN "OpenPGP private key" ELSE "OpenPGP public key",
              {Fact("primary key", primary), Fact("user ids", <<userIds>>)}
                \cup {Fact("subkey", d) : d \in UNION {Described(p) : p \in subkeys}}) :
        primary \in Described(packets[1])}

FromBinary(input) ==
  LET TellsAs(packets) ==
        LET tag == packets[1].tag
        IN CASE tag \in {1, 3, 18, 20} -> Message(packets)
             [] tag \in {2, 4} -> Signature(packets)
             [] tag \in {5, 6} -> Key(packets)
             [] tag = 8 -> {Finding("OpenPGP compressed data", {})}
  IN UNION {TellsAs(packets) : packets \in {p \in Packets(input) : KnownVersion(p[1])}}
=============================================================================
