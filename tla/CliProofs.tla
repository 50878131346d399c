------------------------------- MODULE CliProofs -------------------------------
(***************************************************************************)
(* What the exit codes and the output of krypto-cli say of the blobs, for   *)
(* any key files, command lines and plaintexts, and whatever others do to a *)
(* blob on its way.  The world's half of the invariant says which bodies    *)
(* there can be; the process's half, what each step may rely on.  Before it *)
(* stands what the blobs themselves promise.                                *)
(***************************************************************************)
EXTENDS Cli, TLAPS

-----------------------------------------------------------------------------
(* What seal, open and reseal of src/src/aead.rs promise each other, for all *)
(* keys, key ids, plaintexts and blobs, given ideal ciphers.                 *)

\* An algorithm's id names it and no other.
LEMMA IdLemma ==
  ASSUME NEW alg \in Algs
  PROVE  AlgId(alg) \in 1..3 /\ FromId(AlgId(alg)) = alg
<1>1. \A a \in Algs : AlgId(a) = AlgId(alg) => a = alg
  BY DEF Algs, AlgId
<1>2. FromId(AlgId(alg)) \in Algs /\ AlgId(FromId(AlgId(alg))) = AlgId(alg)
  BY DEF FromId
<1>3. AlgId(alg) \in 1..3
  BY DEF Algs, AlgId
<1>4. QED
  BY <1>1, <1>2, <1>3

\* A sealed blob's header is sound and says which algorithm made it.
LEMMA SealedHeader ==
  ASSUME NEW key, NEW kid, NEW pt, NEW alg \in Algs, NEW nonce
  PROVE  ReadHeader(Seal(key, kid, pt, alg, nonce)) = Ok(alg)
<1> DEFINE blob == Seal(key, kid, pt, alg, nonce)
<1>1. blob.magic = "FAFN" /\ blob.ver = FormatVer /\ blob.alg = AlgId(alg)
  BY DEF Seal, Header
<1>2. blob.alg \in 1..3 /\ FromId(blob.alg) = alg
  BY <1>1, IdLemma
<1>3. QED
  BY <1>1, <1>2 DEF ReadHeader

\* What seal makes, open opens, whatever the algorithm: seal and open agree on
\* the nonce, the key and the associated data.
THEOREM RoundTrip ==
  ASSUME NEW key, NEW kid, NEW pt, NEW alg \in Algs, NEW nonce
  PROVE  Open(key, Seal(key, kid, pt, alg, nonce)) = Ok(pt)
<1> DEFINE blob   == Seal(key, kid, pt, alg, nonce)
           header == Header(alg, kid, nonce)
           body   == PrimitiveSeal(alg, key, nonce, pt, Aad(header))
<1>1. blob.body = body /\ blob.nonce = nonce
  BY DEF Seal, Header
<1>2. Aad(blob) = Aad(header)
  BY DEF Seal, Header, Aad
<1>3. body # BrokenBody
  <2>1. "pt" \in DOMAIN body /\ "pt" \notin DOMAIN BrokenBody
    BY DEF PrimitiveSeal, BrokenBody
  <2>2. QED
    BY <2>1
<1>4. body.pt = pt
  BY DEF PrimitiveSeal
<1>5. PrimitiveOpen(alg, key, nonce, body, Aad(header)) = Ok(pt)
  BY <1>3, <1>4 DEF PrimitiveOpen
<1>6. ReadHeader(blob).err = "none" /\ ReadHeader(blob).val = alg
  BY SealedHeader DEF Ok
<1>7. QED
  BY <1>1, <1>2, <1>5, <1>6 DEF Open

\* What opens was sealed under this key, with this very header: no field of it,
\* the key id and the nonce's unused tail included, can have been changed.
THEOREM OpenMeansSealed ==
  ASSUME NEW key, NEW blob, Open(key, blob).err = "none"
  PROVE  /\ blob.body = PrimitiveSeal(FromId(blob.alg), key, blob.nonce, blob.body.pt, Aad(blob))
         /\ Open(key, blob) = Ok(blob.body.pt)
<1>1. ReadHeader(blob).err = "none"
  BY DEF Open
<1>2. ReadHeader(blob) = Ok(FromId(blob.alg))
  BY <1>1 DEF ReadHeader, Err
<1>3. Open(key, blob) = PrimitiveOpen(FromId(blob.alg), key, blob.nonce, blob.body, Aad(blob))
  BY <1>1, <1>2 DEF Open, Ok
<1>4. QED
  BY <1>3 DEF PrimitiveOpen, Err

\* Past its magic, a change to a blob that keeps a whole header is Auth and never
\* Format, whatever the key.
THEOREM ChangedIsAuth ==
  ASSUME NEW key, NEW blob, blob.magic = "FAFN"
  PROVE  Open(key, blob).err \in {"none", "Auth"} /\ BlobKeyId(blob).err \in {"none", "Auth"}
BY DEF Open, BlobKeyId, ReadHeader, PrimitiveOpen, Ok, Err

\* reseal gives nothing for a blob that does not open, and otherwise a blob of
\* the same algorithm that opens under the new key to the same plaintext.
THEOREM ResealKeeps ==
  ASSUME NEW old, NEW new, NEW kid, NEW blob, NEW nonce
  PROVE  LET out == Reseal(old, new, kid, blob, nonce) IN
         /\ out.err = Open(old, blob).err
         /\ out.err = "none" => /\ Open(new, out.val) = Open(old, blob)
                                /\ ReadHeader(out.val) = ReadHeader(blob)
                                /\ BlobKeyId(out.val) = Ok(kid)
<1> DEFINE pt  == Open(old, blob)
           out == Reseal(old, new, kid, blob, nonce)
           alg == FromId(blob.alg)
<1>1. CASE pt.err # "none"
  <2>1. out = pt
    BY <1>1 DEF Reseal
  <2>2. QED
    BY <1>1, <2>1
<1>2. CASE pt.err = "none"
  <2>1. ReadHeader(blob) = Ok(alg)
    BY <1>2 DEF Open, ReadHeader, Err
  <2>2. alg \in Algs
    <3>1. blob.alg \in 1..3
      BY <1>2 DEF Open, ReadHeader, Err
    <3>2. \E a \in Algs : AlgId(a) = blob.alg
      BY <3>1 DEF Algs, AlgId
    <3>3. QED
      BY <3>2 DEF FromId
  <2>3. out = Ok(Seal(new, kid, pt.val, alg, nonce))
    BY <1>2, <2>1 DEF Reseal, Ok
  <2>4. out.err = "none" /\ out.val = Seal(new, kid, pt.val, alg, nonce)
    BY <2>3 DEF Ok
  <2>5. Open(new, out.val) = Ok(pt.val)
    BY <2>2, <2>4, RoundTrip
  <2>6. pt = Ok(pt.val)
    BY <1>2, OpenMeansSealed DEF Ok
  <2>7. ReadHeader(out.val) = Ok(alg)
    BY <2>2, <2>4, SealedHeader
  <2>8. out.val.kid = kid
    BY <2>4 DEF Seal, Header
  <2>9. BlobKeyId(out.val) = Ok(kid)
    BY <2>7, <2>8 DEF BlobKeyId, Ok
  <2>10. QED
    BY <1>2, <2>1, <2>4, <2>5, <2>6, <2>7, <2>9
<1>3. QED
  BY <1>1, <1>2

-----------------------------------------------------------------------------
(* The processes over them. *)

\* A blob with all the fields of a blob.
WholeBlob(b) ==
  b = [magic |-> b.magic, ver |-> b.ver, alg |-> b.alg, kid |-> b.kid,
       nonce |-> b.nonce, tail |-> b.tail, body |-> b.body]

\* What krypto made, it made with seal, under the key id of the key's master.
MadeBySeal(s) ==
  /\ s.alg \in Algs
  /\ s.blob = Seal(s.key, KeyId(s.key[1]), s.pt, s.alg, s.blob.nonce)

\* Others can break a body or exchange it, but not make one.
WorldInv ==
  /\ \A s \in sealed : MadeBySeal(s)
  /\ \A b \in Blobs : b.magic = "FAFN" =>
       WholeBlob(b) /\ (b.body = BrokenBody \/ \E s \in sealed : b.body = s.blob.body)

\* Which commands come to a step, and what has been read and checked by then.
StageInv ==
  /\ pc = "none" => args = NoArgs /\ stdin = "unread" /\ input = NoBlob
  /\ pc \notin {"write", "exited"} => result = Nothing
  /\ pc # "exited" => stdout = "none"
  /\ pc \in {"parse", "alg", "key_file", "needs", "derive", "hex_args", "stdin"} => stdin = "unread"
  /\ pc \in {"route", "open", "work"} => stdin = "read"
  /\ pc = "write" => result # Nothing
  /\ pc = "alg" => args.cmd \in WithAead \cup {"verify"}
  /\ pc = "key_file" => args.cmd \in WithAead \cup {"keyid"}
  /\ pc \in {"needs", "derive"} => args.cmd \in WithAead
  /\ pc = "key_id" => args.cmd \in {"keyid", "seal", "open"}
                      /\ stdin = IF args.cmd = "open" THEN "read" ELSE "unread"
  /\ pc \in {"route", "open"} => args.cmd = "open"
  /\ pc = "hex_args" => args.cmd = "verify"

\* The key of a call that seals or opens is the one of its master and context, and
\* a call that seals has an algorithm.
KeyInv ==
  /\ pc \in {"key_file", "needs", "derive", "key_id", "stdin", "work"} /\ args.cmd = "seal"
       => args.alg \in Algs \cup {"absent"}
  /\ pc \in {"key_id", "stdin", "route", "open", "work", "write"} /\ args.cmd \in {"seal", "open"}
       /\ (pc = "write" => stdin = "read")
       => dkey = DerivedKey(Master, args.context, args.salt)
  /\ pc \in {"open", "write"} /\ args.cmd = "open" /\ stdin = "read" => BlobKeyId(input) = Ok(KeyId(Master))
  /\ pc = "write" /\ args.cmd = "open" /\ stdin = "read" =>
       Open(dkey, input) = Ok(result.pt)

IInv == /\ TypeOK /\ WorldInv /\ StageInv /\ KeyInv
        /\ OpenedIsSealed /\ CodesTellApart /\ SilentOnFailure /\ WrongCallIsToldFirst

-----------------------------------------------------------------------------
\* What the blobs of a sound world are like.

LEMMA SealedFacts ==
  ASSUME NEW s, MadeBySeal(s)
  PROVE  /\ WholeBlob(s.blob) /\ s.blob.magic = "FAFN" /\ s.blob.kid = KeyId(s.key[1])
         /\ s.blob.body = PrimitiveSeal(s.alg, s.key, s.blob.nonce, s.pt, Aad(s.blob))
         /\ s.blob.body # BrokenBody
         /\ Open(s.key, s.blob) = Ok(s.pt) /\ ReadHeader(s.blob) = Ok(s.alg)
         /\ BlobKeyId(s.blob) = Ok(KeyId(s.key[1]))
<1> DEFINE b == s.blob
           kid == KeyId(s.key[1])
<1>1. b = Seal(s.key, kid, s.pt, s.alg, b.nonce) /\ s.alg \in Algs
  BY DEF MadeBySeal
<1>2. Open(s.key, b) = Ok(s.pt)
  BY <1>1, RoundTrip
<1>3. ReadHeader(b) = Ok(s.alg)
  BY <1>1, SealedHeader
<1>4. b = [magic |-> "FAFN", ver |-> FormatVer, alg |-> AlgId(s.alg), kid |-> kid,
           nonce |-> b.nonce, tail |-> "zero",
           body |-> PrimitiveSeal(s.alg, s.key, b.nonce, s.pt, Aad(Header(s.alg, kid, b.nonce)))]
  BY <1>1 DEF Seal, Header
<1>5. b.magic = "FAFN" /\ b.kid = kid /\ WholeBlob(b)
  BY <1>4 DEF WholeBlob
<1>6. Aad(b) = Aad(Header(s.alg, kid, b.nonce))
  BY <1>4 DEF Aad, Header
<1>7. b.body = PrimitiveSeal(s.alg, s.key, b.nonce, s.pt, Aad(b))
  BY <1>4, <1>6
<1>8. b.body # BrokenBody
  <2>1. "pt" \in DOMAIN b.body /\ "pt" \notin DOMAIN BrokenBody
    BY <1>7 DEF PrimitiveSeal, BrokenBody
  <2>2. QED
    BY <2>1
<1>9. BlobKeyId(b) = Ok(kid)
  BY <1>3, <1>5 DEF BlobKeyId, Ok
<1>10. QED
  BY <1>2, <1>3, <1>5, <1>7, <1>8, <1>9

LEMMA OnlyItsKeyOpens ==
  ASSUME NEW s, MadeBySeal(s), NEW key, key # s.key
  PROVE  Open(key, s.blob).err = "Auth"
<1>1. s.blob.magic = "FAFN" /\ s.blob.body.key = s.key
  <2>1. /\ s.blob.magic = "FAFN"
        /\ s.blob.body = PrimitiveSeal(s.alg, s.key, s.blob.nonce, s.pt, Aad(s.blob))
    BY SealedFacts
  <2>2. QED
    BY <2>1 DEF PrimitiveSeal
<1>2. CASE Open(key, s.blob).err = "none"
  <2>1. s.blob.body = PrimitiveSeal(FromId(s.blob.alg), key, s.blob.nonce, s.blob.body.pt, Aad(s.blob))
    BY <1>2, OpenMeansSealed
  <2>2. s.blob.body.key = key
    BY <2>1 DEF PrimitiveSeal
  <2>3. QED
    BY <1>1, <2>2
<1>3. QED
  BY <1>1, <1>2, ChangedIsAuth

\* A blob that opens is one that krypto made, unchanged.
LEMMA OpensOnlySealed ==
  ASSUME WorldInv, NEW b \in Blobs, NEW key, Open(key, b).err = "none"
  PROVE  \E s \in sealed : s.blob = b /\ s.key = key /\ Open(key, b) = Ok(s.pt)
<1>1. /\ b.body = PrimitiveSeal(FromId(b.alg), key, b.nonce, b.body.pt, Aad(b))
      /\ Open(key, b) = Ok(b.body.pt)
  BY OpenMeansSealed
<1>2. b.magic = "FAFN"
  BY DEF Open, ReadHeader, Err
<1>3. b.body # BrokenBody
  <2>1. "pt" \in DOMAIN b.body /\ "pt" \notin DOMAIN BrokenBody
    BY <1>1 DEF PrimitiveSeal, BrokenBody
  <2>2. QED
    BY <2>1
<1>4. PICK s \in sealed : b.body = s.blob.body
  BY <1>2, <1>3 DEF WorldInv
<1>5. /\ WholeBlob(b) /\ MadeBySeal(s)
  BY <1>2 DEF WorldInv
<1>6. /\ WholeBlob(s.blob)
      /\ b.body = PrimitiveSeal(s.alg, s.key, s.blob.nonce, s.pt, Aad(s.blob))
  BY <1>4, <1>5, SealedFacts
<1>7. key = s.key /\ b.body.pt = s.pt /\ Aad(b) = Aad(s.blob)
  BY <1>1, <1>6 DEF PrimitiveSeal
<1>8. /\ b.magic = s.blob.magic /\ b.ver = s.blob.ver /\ b.alg = s.blob.alg
      /\ b.kid = s.blob.kid /\ b.nonce = s.blob.nonce /\ b.tail = s.blob.tail
  BY <1>7 DEF Aad
<1>9. b = s.blob
  BY <1>4, <1>5, <1>6, <1>8 DEF WholeBlob
<1>10. QED
  BY <1>1, <1>7, <1>9

\* What others do to a blob leaves it whole, and its body another blob's or none.
LEMMA AlteredIsWhole ==
  ASSUME NEW blob, NEW others, NEW other \in Alterations(blob, others),
         blob.magic = "FAFN" => WholeBlob(blob), other.magic = "FAFN"
  PROVE  /\ WholeBlob(other) /\ blob.magic = "FAFN"
         /\ \/ other.body \in {blob.body, BrokenBody}
            \/ \E o \in others : o.magic = "FAFN" /\ other.body = o.body
<1>1. blob.magic = "FAFN" /\ WholeBlob(blob)
  BY DEF Alterations
<1>2. ASSUME NEW x
      PROVE  /\ [blob EXCEPT !.magic = x].magic = x
             /\ WholeBlob([blob EXCEPT !.ver = x]) /\ [blob EXCEPT !.ver = x].body = blob.body
             /\ WholeBlob([blob EXCEPT !.alg = x]) /\ [blob EXCEPT !.alg = x].body = blob.body
             /\ WholeBlob([blob EXCEPT !.kid = x]) /\ [blob EXCEPT !.kid = x].body = blob.body
             /\ WholeBlob([blob EXCEPT !.nonce = x]) /\ [blob EXCEPT !.nonce = x].body = blob.body
             /\ WholeBlob([blob EXCEPT !.tail = x]) /\ [blob EXCEPT !.tail = x].body = blob.body
             /\ WholeBlob([blob EXCEPT !.body = x]) /\ [blob EXCEPT !.body = x].body = x
  BY <1>1 DEF WholeBlob
<1>3. \/ other \in {[blob EXCEPT !.magic = "other"], [blob EXCEPT !.ver = 2],
                    [blob EXCEPT !.body = BrokenBody], ShortBlob}
      \/ \E id \in 1..4 : other = [blob EXCEPT !.alg = id]
      \/ other = [blob EXCEPT !.tail = "changed"]
      \/ \E o \in others : o.magic = "FAFN" /\
           other \in {[blob EXCEPT !.kid = o.kid], [blob EXCEPT !.nonce = o.nonce],
                      [blob EXCEPT !.body = o.body]}
  BY <1>1 DEF Alterations
<1>4. ShortBlob.magic # "FAFN"
  BY DEF ShortBlob
<1>5. CASE other \in {[blob EXCEPT !.magic = "other"], [blob EXCEPT !.ver = 2],
                     [blob EXCEPT !.body = BrokenBody], ShortBlob}
  <2>1. other # [blob EXCEPT !.magic = "other"]
    BY <1>2
  <2>2. CASE other = [blob EXCEPT !.ver = 2]
    BY <1>1, <1>2, <2>2
  <2>3. CASE other = [blob EXCEPT !.body = BrokenBody]
    BY <1>1, <1>2, <2>3
  <2>4. QED
    BY <1>4, <1>5, <2>1, <2>2, <2>3
<1>6. CASE (\E id \in 1..4 : other = [blob EXCEPT !.alg = id]) \/ other = [blob EXCEPT !.tail = "changed"]
  <2>1. ASSUME NEW id, other = [blob EXCEPT !.alg = id]
        PROVE  WholeBlob(other) /\ other.body = blob.body
    BY <1>2, <2>1
  <2>2. CASE other = [blob EXCEPT !.tail = "changed"]
    BY <1>1, <1>2, <2>2
  <2>3. QED
    BY <1>1, <1>6, <2>1, <2>2
<1>7. ASSUME NEW o \in others, o.magic = "FAFN",
             other \in {[blob EXCEPT !.kid = o.kid], [blob EXCEPT !.nonce = o.nonce],
                       [blob EXCEPT !.body = o.body]}
      PROVE  /\ WholeBlob(other)
             /\ other.body = blob.body \/ other.body = o.body
  <2>1. CASE other = [blob EXCEPT !.kid = o.kid]
    BY <1>2, <2>1
  <2>2. CASE other = [blob EXCEPT !.nonce = o.nonce]
    BY <1>2, <2>2
  <2>3. CASE other = [blob EXCEPT !.body = o.body]
    BY <1>2, <2>3
  <2>4. QED
    BY <1>7, <2>1, <2>2, <2>3
<1>8. QED
  BY <1>1, <1>3, <1>5, <1>6, <1>7

-----------------------------------------------------------------------------
\* The world stays sound: whatever krypto makes, seal made.

LEMMA SealMakes ==
  ASSUME NEW key, NEW kid, kid = KeyId(key[1]), NEW pt, NEW alg \in Algs, NEW nonce
  PROVE  MadeBySeal([blob |-> Seal(key, kid, pt, alg, nonce), key |-> key, pt |-> pt, alg |-> alg])
BY DEF MadeBySeal, Seal, Header

LEMMA WorldKept ==
  ASSUME WorldInv, NEW t, MadeBySeal(t), sealed' = sealed \cup {t}, altered' = altered
  PROVE  WorldInv'
<1>1. \A s \in sealed' : MadeBySeal(s)
  BY DEF WorldInv
<1>2. WholeBlob(t.blob)
  BY SealedFacts
<1>3. Blobs' = Blobs \cup {t.blob}
  BY DEF Blobs
<1>4. \A b \in Blobs' : b.magic = "FAFN" =>
        WholeBlob(b) /\ (b.body = BrokenBody \/ \E s \in sealed' : b.body = s.blob.body)
  BY <1>2, <1>3 DEF WorldInv
<1>5. QED
  BY <1>1, <1>4 DEF WorldInv, MadeBySeal, WholeBlob

LEMMA RotateMakes ==
  ASSUME WorldInv, Rotate
  PROVE  \E t : MadeBySeal(t) /\ sealed' = sealed \cup {t}
<1>1. PICK s \in sealed, m \in Masters :
        LET new == DerivedKey(m, s.key[2], s.key[3])
            out == Reseal(s.key, new, KeyId(m), s.blob, Cardinality(sealed))
        IN Keep(out.val, new, s.pt, s.alg)
  BY DEF Rotate
<1> DEFINE new == DerivedKey(m, s.key[2], s.key[3])
           n   == Cardinality(sealed)
           out == Reseal(s.key, new, KeyId(m), s.blob, n)
           t   == [blob |-> out.val, key |-> new, pt |-> s.pt, alg |-> s.alg]
<1>2. MadeBySeal(s) /\ s.alg \in Algs
  BY DEF WorldInv, MadeBySeal
<1>3. Open(s.key, s.blob) = Ok(s.pt) /\ ReadHeader(s.blob) = Ok(s.alg)
  BY <1>2, SealedFacts
<1> HIDE DEF n
<1>4. out.val = Seal(new, KeyId(m), s.pt, s.alg, n)
  BY <1>3 DEF Reseal, Ok
<1>5. new[1] = m
  BY DEF DerivedKey
<1>6. KeyId(m) = KeyId(new[1])
  BY <1>5
<1> HIDE DEF new, out
<1>7. MadeBySeal(t)
  BY <1>2, <1>4, <1>6, SealMakes
<1>8. sealed' = sealed \cup {t}
  BY <1>1 DEF Keep, new, out, n
<1>9. QED
  BY <1>7, <1>8

LEMMA SealBlobMakes ==
  ASSUME KeyInv, StageInv, SealBlob, sealed' # sealed
  PROVE  \E t : MadeBySeal(t) /\ sealed' = sealed \cup {t}
<1> DEFINE alg == IF args.alg = "absent" THEN "aegis256" ELSE args.alg
           n   == Cardinality(sealed)
<1>1. PICK pt \in Plaintexts : Keep(Seal(dkey, KeyId(Master), pt, alg, n), dkey, pt, alg)
  BY DEF SealBlob, Exit, world
<1>2. alg \in Algs
  BY DEF SealBlob, KeyInv, Algs
<1>3. dkey[1] = Master
  BY DEF SealBlob, KeyInv, DerivedKey
<1>4. KeyId(Master) = KeyId(dkey[1])
  BY <1>3
<1> HIDE DEF alg, n
<1> DEFINE t == [blob |-> Seal(dkey, KeyId(Master), pt, alg, n), key |-> dkey, pt |-> pt, alg |-> alg]
<1>5. MadeBySeal(t)
  BY <1>2, <1>4, SealMakes
<1>6. sealed' = sealed \cup {t}
  BY <1>1 DEF Keep
<1>7. QED
  BY <1>5, <1>6

LEMMA WorldStep ==
  ASSUME WorldInv, StageInv, KeyInv, [Next]_vars
  PROVE  WorldInv'
<1>1. CASE UNCHANGED world
  BY <1>1 DEF WorldInv, world, Blobs, MadeBySeal, WholeBlob
<1>2. CASE Process
  <2>1. UNCHANGED world \/ (SealBlob /\ altered' = altered)
    BY <1>2 DEF Process, Start, Reap, ParseWrong, ParseHelp, Dispatch, AlgArg, KeyFile, Needs,
                DeriveKey, KeyIdOf, HexArgs, ReadFails, ReadStdin, Route, OpenBlob,
                SealBlob, Compute, CheckSignature, Write, WriteFails, Exit, GoTo, Show, world
  <2>2. QED
    BY <1>1, <2>1, SealBlobMakes, WorldKept DEF world
<1>3. CASE Rotate
  BY <1>3, RotateMakes, WorldKept DEF Rotate
<1>4. CASE Alter
  <2>1. PICK blob \in Blobs : \E other \in Alterations(blob, Blobs) : altered' = altered \cup {other}
    BY <1>4 DEF Alter
  <2> PICK other \in Alterations(blob, Blobs) : altered' = altered \cup {other}
    BY <2>1
  <2>2. sealed' = sealed /\ Blobs' = Blobs \cup {other}
    BY <1>4, <2>1 DEF Alter, Blobs
  <2>3. ASSUME other.magic = "FAFN"
        PROVE  WholeBlob(other) /\ (other.body = BrokenBody \/ \E s \in sealed : other.body = s.blob.body)
    <3>1. /\ WholeBlob(other) /\ blob.magic = "FAFN"
          /\ \/ other.body \in {blob.body, BrokenBody}
             \/ \E o \in Blobs : o.magic = "FAFN" /\ other.body = o.body
      BY <2>1, <2>3, AlteredIsWhole DEF WorldInv
    <3>2. QED
      BY <2>1, <3>1 DEF WorldInv
  <2>4. QED
    BY <2>2, <2>3 DEF WorldInv, MadeBySeal, WholeBlob
<1>5. CASE UNCHANGED vars
  BY <1>1, <1>5 DEF vars, world
<1>6. QED
  BY <1>2, <1>3, <1>4, <1>5 DEF Next

-----------------------------------------------------------------------------
\* What each step may rely on.

LEMMA Codes ==
  /\ \A e : FailKrypto(e) \in {1, 3, 4} /\ FromArgs(e) \in {2, 3, 4}
  /\ FailKrypto("Hardening") = 1 /\ FailKrypto("Io") = 1 /\ FailKrypto("Format") = 1
  /\ FailKrypto("Auth") = 3 /\ FailKrypto("WrongKey") = 4
BY DEF FailKrypto, FromArgs

\* What there is to print is not nothing.
LEMMA Printable ==
  /\ Text # Nothing
  /\ \A v : [what |-> "plaintext", pt |-> v] # Nothing /\ [what |-> "blob", blob |-> v] # Nothing
<1>1. Text.what # Nothing.what
  BY DEF Text, Nothing
<1>2. \A v : /\ [what |-> "plaintext", pt |-> v].what # Nothing.what
            /\ [what |-> "blob", blob |-> v].what # Nothing.what
  BY DEF Nothing
<1>3. QED
  BY <1>1, <1>2

LEMMA StageStep ==
  ASSUME TypeOK, StageInv, [Next]_vars
  PROVE  StageInv'
<1> USE DEF StageInv, Exit, GoTo, Show, WithAead
<1>1. CASE Start \/ Reap \/ ParseWrong \/ ParseHelp
  BY <1>1, Printable DEF Start, Reap, ParseWrong, ParseHelp
<1>2. CASE Dispatch
  BY <1>2, Printable DEF Dispatch
<1>3. CASE AlgArg \/ KeyFile \/ Needs \/ DeriveKey
  BY <1>3 DEF AlgArg, KeyFile, Needs, DeriveKey
<1>4. CASE KeyIdOf \/ HexArgs
  BY <1>4, Printable DEF KeyIdOf, HexArgs
<1>5. CASE ReadFails \/ ReadStdin \/ Route
  BY <1>5 DEF ReadFails, ReadStdin, Route
<1>6. CASE OpenBlob
  BY <1>6, Printable DEF OpenBlob
<1>7. CASE SealBlob
  <2>1. CASE \E code : Exit(code)
    BY <2>1
  <2>2. CASE ~\E code : Exit(code)
    <3>1. /\ \E v : result' = [what |-> "blob", blob |-> v]
          /\ pc' = "write" /\ UNCHANGED <<args, dkey, stdin, input, stdout, exit, altered>>
          /\ pc = "work"
      BY <1>7, <2>2 DEF SealBlob
    <3>2. QED
      BY <3>1, Printable
  <2>3. QED
    BY <2>1, <2>2
<1>8. CASE Compute \/ CheckSignature
  BY <1>8, Printable DEF Compute, CheckSignature
<1>9. CASE Write \/ WriteFails
  BY <1>9 DEF Write, WriteFails
<1>10. CASE Rotate \/ Alter \/ UNCHANGED vars
  BY <1>10 DEF Rotate, Alter, vars
<1>11. QED
  BY <1>1, <1>2, <1>3, <1>4, <1>5, <1>6, <1>7, <1>8, <1>9, <1>10 DEF Next, Process

LEMMA BlobsStay == ASSUME [Next]_vars PROVE Blobs \subseteq Blobs'
<1>1. sealed \subseteq sealed' /\ altered \subseteq altered'
  BY DEF Next, Process, Start, Reap, ParseWrong, ParseHelp, Dispatch, AlgArg, KeyFile, Needs,
         DeriveKey, KeyIdOf, HexArgs, ReadFails, ReadStdin, Route, OpenBlob, SealBlob,
         Compute, CheckSignature, Write, WriteFails, Exit, GoTo, Show, world, vars,
         Rotate, Alter, Keep
<1>2. QED
  BY <1>1 DEF Blobs

\* A step that goes on, ends or prints keeps the types.
LEMMA TypeStep ==
  ASSUME TypeOK, StageInv, [Next]_vars
  PROVE  TypeOK'
<1> DEFINE In  == args \in CommandLines \cup {NoArgs} /\ input \in Blobs \cup {ShortBlob, NoBlob}
           Out == /\ pc \in Stages \cup {"exited", "none"}
                  /\ stdin \in {"unread", "read", "oversized", "failed"}
                  /\ result.what \in {"nothing", "text", "blob", "plaintext"}
                  /\ stdout \in {"none", "part", "all"}
                  /\ exit \in 0..4 \cup {NoExit} /\ (exit # NoExit <=> pc = "exited")
                  /\ result.what \in {"blob", "plaintext"} => stdin = "read"
                  /\ stdout # "none" => result # Nothing
<1>1. TypeOK <=> In /\ Out
  BY DEF TypeOK
<1>2. TypeOK' <=> In' /\ Out'
  BY DEF TypeOK
<1>3. In'
  <2>1. args' \in CommandLines \cup {NoArgs}
    BY DEF TypeOK, Next, Process, Start, Reap, ParseWrong, ParseHelp, Dispatch, AlgArg, KeyFile, Needs,
           DeriveKey, KeyIdOf, HexArgs, ReadFails, ReadStdin, Route, OpenBlob, SealBlob,
           Compute, CheckSignature, Write, WriteFails, Exit, GoTo, Show, vars, Rotate, Alter
  <2>2. input' \in Blobs \cup {ShortBlob, NoBlob}
    BY DEF TypeOK, Next, Process, Start, Reap, ParseWrong, ParseHelp, Dispatch, AlgArg, KeyFile, Needs,
           DeriveKey, KeyIdOf, HexArgs, ReadFails, ReadStdin, Route, OpenBlob, SealBlob,
           Compute, CheckSignature, Write, WriteFails, Exit, GoTo, Show, vars, Rotate, Alter
  <2>3. QED
    BY <2>1, <2>2, BlobsStay
<1>4. Out'
  <2>1. Out
    BY <1>1
  <2>2. Text.what = "text" /\ Nothing.what = "nothing"
    BY DEF Text, Nothing
  <2>3. NoExit \notin 0..4 /\ Usage \in 0..4 /\ Io \in 0..4
        /\ \A e : FailKrypto(e) \in 0..4 /\ FromArgs(e) \in 0..4
    BY Codes DEF NoExit, Usage, Io
  <2>4. ASSUME NEW code \in 0..4, Exit(code)
        PROVE  Out'
    BY <2>1, <2>3, <2>4 DEF Exit
  <2>5. ASSUME NEW stage \in Stages, GoTo(stage), pc # "exited"
        PROVE  Out'
    BY <2>1, <2>5 DEF GoTo, Stages
  <2>6. ASSUME NEW what, Show(what), pc # "exited", what # Nothing,
               what.what \in {"text", "blob", "plaintext"},
               what.what # "text" => stdin = "read"
        PROVE  Out'
    BY <2>1, <2>6 DEF Show, Stages
  <2>7. ASSUME Show(Text), pc # "exited"
        PROVE  Out'
    BY <2>2, <2>6, <2>7, Printable
  <2> HIDE DEF Out
  <2>8. CASE ParseWrong \/ ParseHelp \/ Dispatch
    BY <2>3, <2>4, <2>5, <2>7, <2>8 DEF ParseWrong, ParseHelp, Dispatch, Stages
  <2>9. CASE AlgArg \/ KeyFile \/ Needs
    BY <2>3, <2>4, <2>5, <2>9 DEF AlgArg, KeyFile, Needs, Stages
  <2>10. CASE KeyIdOf \/ HexArgs
    BY <2>3, <2>4, <2>5, <2>7, <2>10 DEF KeyIdOf, HexArgs, Stages
  <2>11. CASE Route
    BY <2>3, <2>4, <2>5, <2>11 DEF Route, Stages
  <2>12. CASE OpenBlob
    <3>1. \A v : [what |-> "plaintext", pt |-> v].what = "plaintext"
      OBVIOUS
    <3>2. pc # "exited" /\ stdin = "read"
      BY <2>12 DEF OpenBlob, StageInv
    <3>3. QED
      BY <2>3, <2>4, <2>6, <2>12, <3>1, <3>2, Printable DEF OpenBlob
  <2>13. CASE Compute \/ CheckSignature
    BY <2>3, <2>4, <2>7, <2>13 DEF Compute, CheckSignature
  <2>14. CASE DeriveKey
    <3>1. CASE \E code \in 0..4 : Exit(code)
      BY <2>4, <3>1
    <3>2. CASE ~\E code \in 0..4 : Exit(code)
      <4>1. /\ pc = "derive" /\ pc' \in {"key_id", "stdin"}
            /\ UNCHANGED <<stdin, result, stdout, exit>>
        BY <2>3, <2>14, <3>2 DEF DeriveKey
      <4>2. QED
        BY <2>1, <4>1 DEF Out, Stages
    <3>3. QED
      BY <3>1, <3>2
  <2>15. CASE SealBlob
    <3>1. CASE Exit(FailKrypto(Hardening))
      BY <2>3, <2>4, <3>1
    <3>2. CASE ~Exit(FailKrypto(Hardening))
      <4>1. /\ \E v : result' = [what |-> "blob", blob |-> v]
            /\ pc' = "write" /\ UNCHANGED <<stdin, stdout, exit>> /\ pc = "work"
        BY <2>15, <3>2 DEF SealBlob
      <4>2. result'.what = "blob" /\ stdin = "read" /\ result' # Nothing
        BY <4>1, Printable DEF StageInv
      <4>3. QED
        BY <2>1, <4>1, <4>2 DEF Out, Stages
    <3>3. QED
      BY <3>1, <3>2
  <2>16. CASE Start \/ Reap
    BY <2>1, <2>2, <2>16 DEF Out, Start, Reap, Stages
  <2>17. CASE ReadFails \/ ReadStdin
    <3>1. pc = "stdin" /\ result = Nothing /\ UNCHANGED <<result, stdout>>
      BY <2>17 DEF ReadFails, ReadStdin, StageInv
    <3>2. stdin' \in {"read", "oversized", "failed"}
      BY <2>17 DEF ReadFails, ReadStdin
    <3>3. \/ pc' \in {"key_id", "work"} /\ exit' = exit
          \/ pc' = "exited" /\ exit' \in 0..4
      BY <2>3, <2>17 DEF ReadFails, ReadStdin
    <3>4. QED
      BY <2>1, <2>2, <2>3, <3>1, <3>2, <3>3 DEF Out, Stages
  <2>18. CASE Write \/ WriteFails
    <3>1. /\ pc = "write" /\ result # Nothing /\ UNCHANGED <<result, stdin>>
          /\ pc' = "exited" /\ stdout' \in {"none", "part", "all"}
      BY <2>18 DEF Write, WriteFails, StageInv
    <3>2. exit' \in 0..4
      BY <2>3, <2>18 DEF Write, WriteFails
    <3>3. QED
      BY <2>1, <2>3, <3>1, <3>2 DEF Out
  <2>19. CASE Rotate \/ Alter \/ UNCHANGED vars
    <3>1. UNCHANGED <<pc, stdin, result, stdout, exit>>
      BY <2>19 DEF Rotate, Alter, vars
    <3>2. QED
      BY <2>1, <3>1 DEF Out
  <2>20. QED
    BY <2>8, <2>9, <2>10, <2>11, <2>12, <2>13, <2>14, <2>15, <2>16, <2>17, <2>18, <2>19
       DEF Next, Process
<1>5. QED
  BY <1>2, <1>3, <1>4

\* What the steps from the key file to opening add up to.
LEMMA Derived ==
  ASSUME NEW m, NEW info, NEW salt, Derive(m, info, salt).err = "none"
  PROVE  Derive(m, info, salt).val = DerivedKey(m, info, salt)
BY DEF Derive, Ok, Err

LEMMA KeyStep ==
  ASSUME TypeOK, StageInv, KeyInv, [Next]_vars
  PROVE  KeyInv'
<1> USE DEF Exit, GoTo, Show, WithAead, Master
<1>1. CASE Start \/ Reap \/ ParseWrong \/ HexArgs \/ ReadFails
  BY <1>1 DEF KeyInv, Start, Reap, ParseWrong, HexArgs, ReadFails, StageInv
<1>2. CASE ParseHelp
  BY <1>2 DEF KeyInv, ParseHelp, StageInv
<1>3. CASE Dispatch
  BY <1>3 DEF KeyInv, Dispatch, StageInv
<1>4. CASE AlgArg
  BY <1>4 DEF KeyInv, AlgArg, AlgOk, StageInv
<1>5. CASE KeyFile \/ Needs
  BY <1>5 DEF KeyInv, KeyFile, Needs, StageInv
<1>6. CASE DeriveKey
  <2>1. CASE pc' = "exited"
    BY <2>1 DEF KeyInv
  <2>2. CASE pc' # "exited"
    <3>1. /\ pc = "derive" /\ pc' = IF args.cmd = "seal" THEN "key_id" ELSE "stdin"
          /\ dkey' = DerivedKey(Master, args.context, args.salt)
          /\ UNCHANGED <<args, stdin, input, result>>
      BY <1>6, <2>2, Derived DEF DeriveKey
    <3>2. QED
      BY <3>1 DEF KeyInv
  <2>3. QED
    BY <2>1, <2>2
<1>7. CASE KeyIdOf
  BY <1>7 DEF KeyInv, KeyIdOf, StageInv
<1>8. CASE ReadStdin
  BY <1>8 DEF KeyInv, ReadStdin, StageInv
<1>9. CASE Route
  <2>1. CASE pc' = "exited"
    BY <2>1 DEF KeyInv
  <2>2. CASE pc' # "exited"
    <3>1. BlobKeyId(input) = Ok(KeyId(Master)) /\ GoTo("open") /\ pc = "route"
      BY <1>9, <2>2 DEF Route, BlobKeyId, ReadHeader, Ok, Err
    <3>2. QED
      BY <3>1 DEF KeyInv
  <2>3. QED
    BY <2>1, <2>2
<1>10. CASE OpenBlob
  <2>1. CASE pc' = "exited"
    BY <2>1 DEF KeyInv
  <2>2. CASE pc' # "exited"
    <3>1. /\ pc = "open" /\ Open(dkey, input).err = "none"
          /\ Show([what |-> "plaintext", pt |-> Open(dkey, input).val])
      BY <1>10, <2>2 DEF OpenBlob
    <3>2. Open(dkey, input) = Ok(input.body.pt)
      BY <3>1, OpenMeansSealed
    <3>3. Open(dkey, input) = Ok(result'.pt)
      BY <3>1, <3>2 DEF Ok
    <3> HIDE DEF Exit, GoTo
    <3>4. QED
      BY <3>1, <3>3 DEF KeyInv, StageInv
  <2>3. QED
    BY <2>1, <2>2
<1>11. CASE SealBlob
  <2>1. pc = "work" /\ args.cmd = "seal" /\ pc' \in {"exited", "write"} /\ UNCHANGED <<args, dkey>>
    BY <1>11 DEF SealBlob
  <2>2. QED
    BY <2>1 DEF KeyInv
<1>12. CASE Compute \/ CheckSignature \/ Write \/ WriteFails
  BY <1>12 DEF KeyInv, Compute, CheckSignature, Write, WriteFails
<1>13. CASE Rotate \/ Alter \/ UNCHANGED vars
  BY <1>13 DEF KeyInv, Rotate, Alter, vars
<1>14. QED
  BY <1>1, <1>2, <1>3, <1>4, <1>5, <1>6, <1>7, <1>8, <1>9, <1>10, <1>11, <1>12, <1>13
     DEF Next, Process

LEMMA SealedGrows == ASSUME [Next]_vars PROVE sealed \subseteq sealed'
BY DEF Next, Process, Start, Reap, ParseWrong, ParseHelp, Dispatch, AlgArg, KeyFile, Needs,
       DeriveKey, KeyIdOf, HexArgs, ReadFails, ReadStdin, Route, OpenBlob, SealBlob,
       Compute, CheckSignature, Write, WriteFails, Exit, GoTo, Show, world, vars,
       Rotate, Alter, Keep

-----------------------------------------------------------------------------
\* What open prints.

LEMMA OpenedStep ==
  ASSUME TypeOK, WorldInv, StageInv, OpenedIsSealed, [Next]_vars
  PROVE  OpenedIsSealed'
<1>1. CASE OpenBlob /\ pc' = "write"
  <2>1. /\ Open(dkey, input).err = "none" /\ result'.pt = Open(dkey, input).val
        /\ UNCHANGED <<args, dkey, input, sealed>>
    BY <1>1 DEF OpenBlob, Exit, Show, world
  <2>2. input.magic = "FAFN"
    BY <2>1 DEF Open, ReadHeader, Err
  <2>3. input \in Blobs
    <3>1. ShortBlob.magic # "FAFN"
      BY DEF ShortBlob
    <3>2. input # ShortBlob /\ input # NoBlob
      BY <2>2, <3>1, NoBlobAssumption
    <3>3. QED
      BY <3>2 DEF TypeOK
  <2>4. PICK s \in sealed : s.blob = input /\ s.key = dkey /\ Open(dkey, input) = Ok(s.pt)
    BY <2>1, <2>3, OpensOnlySealed
  <2>5. s.pt = result'.pt
    BY <2>1, <2>4 DEF Ok
  <2>6. QED
    BY <2>1, <2>4, <2>5 DEF OpenedIsSealed
<1>2. CASE ~(OpenBlob /\ pc' = "write")
  <2>1. \/ UNCHANGED <<args, dkey, input, result>>
        \/ result'.what # "plaintext"
    <3> USE DEF Exit, GoTo, Show
    <3>1. Text.what # "plaintext" /\ Nothing.what # "plaintext"
      BY DEF Text, Nothing
    <3>2. CASE Start \/ DeriveKey \/ ReadStdin
      <4>1. pc \notin {"write", "exited"} /\ UNCHANGED result
        BY <3>2 DEF Start, DeriveKey, ReadStdin
      <4>2. QED
        BY <3>1, <4>1 DEF StageInv
    <3>3. CASE SealBlob
      BY <3>3 DEF SealBlob
    <3>4. CASE Reap \/ ParseWrong \/ ParseHelp \/ Dispatch \/ AlgArg \/ KeyFile \/ Needs
      BY <3>1, <3>4 DEF Reap, ParseWrong, ParseHelp, Dispatch, AlgArg, KeyFile, Needs
    <3>5. CASE KeyIdOf \/ HexArgs \/ ReadFails \/ Route \/ OpenBlob
      BY <1>2, <3>1, <3>5 DEF KeyIdOf, HexArgs, ReadFails, Route, OpenBlob
    <3>6. CASE Compute \/ CheckSignature \/ Write \/ WriteFails
      BY <3>1, <3>6 DEF Compute, CheckSignature, Write, WriteFails
    <3>7. CASE Rotate \/ Alter \/ UNCHANGED vars
      BY <3>7 DEF Rotate, Alter, vars
    <3>8. QED
      BY <3>2, <3>3, <3>4, <3>5, <3>6, <3>7 DEF Next, Process
  <2>2. QED
    BY <2>1, SealedGrows DEF OpenedIsSealed
<1>3. QED
  BY <1>1, <1>2

-----------------------------------------------------------------------------
\* What the exit codes of open tell.

\* The steps of open that end with one of those codes, once stdin is read.
OpenEnds ==
  /\ args.cmd = "open" /\ UNCHANGED <<args, dkey, input, sealed>>
  /\ \/ pc = "route" /\ BlobKeyId(input).err # "none" /\ exit' = FailKrypto(BlobKeyId(input).err)
     \/ pc = "route" /\ BlobKeyId(input).err = "none"
          /\ BlobKeyId(input).val # KeyId(Master) /\ exit' = 4
     \/ pc = "open" /\ Open(dkey, input).err # "none" /\ exit' = FailKrypto(Open(dkey, input).err)
     \/ pc = "write" /\ stdin = "read" /\ exit' = 0

LEMMA EndsOpen ==
  ASSUME StageInv, Process, pc # "exited", pc' = "exited",
         args'.cmd = "open", stdin' = "read", exit' \in {0, 3, 4}
  PROVE  OpenEnds
<1> USE Codes DEF Exit, GoTo, Show, Usage, Io, Hardening, world
<1>1. CASE Start \/ Reap \/ ParseWrong \/ ParseHelp \/ Dispatch \/ AlgArg
  BY <1>1 DEF StageInv, Start, Reap, ParseWrong, ParseHelp, Dispatch, AlgArg
<1>2. CASE KeyFile \/ Needs \/ HexArgs
  BY <1>2 DEF StageInv, KeyFile, Needs, HexArgs
<1>12. CASE Compute \/ KeyIdOf
  BY <1>12 DEF StageInv, Compute, KeyIdOf
<1>3. CASE DeriveKey
  <2>1. pc = "derive" /\ stdin' = stdin
    BY <1>3 DEF DeriveKey
  <2>2. QED
    BY <2>1 DEF StageInv
<1>4. CASE ReadFails \/ ReadStdin
  BY <1>4 DEF ReadFails, ReadStdin
<1>5. CASE Route
  BY <1>5 DEF Route, OpenEnds, StageInv
<1>6. CASE OpenBlob
  BY <1>6 DEF OpenBlob, OpenEnds, StageInv
<1>7. CASE SealBlob
  <2>1. args.cmd = "seal" /\ args' = args
    BY <1>7 DEF SealBlob
  <2>2. QED
    BY <2>1
<1>8. CASE CheckSignature
  BY <1>8 DEF CheckSignature
<1>9. CASE Write
  BY <1>9 DEF Write, OpenEnds, Changed
<1>10. CASE WriteFails
  BY <1>10 DEF WriteFails
<1>11. QED
  BY <1>1, <1>2, <1>3, <1>4, <1>5, <1>6, <1>7, <1>8, <1>9, <1>10, <1>12 DEF Process

\* Keys have the key id of their master and no other.
LEMMA KeyIds ==
  /\ \A m, n : KeyId(m) = KeyId(n) => m = n
  /\ \A m, info, salt : DerivedKey(m, info, salt)[1] = m
BY DEF KeyId, DerivedKey

LEMMA KeyIdRead ==
  ASSUME NEW blob, BlobKeyId(blob).err = "none"
  PROVE  BlobKeyId(blob) = Ok(blob.kid) /\ blob.magic = "FAFN"
BY DEF BlobKeyId, ReadHeader, Err

LEMMA OpenEndTells ==
  ASSUME TypeOK, WorldInv, StageInv, KeyInv, OpenEnds, exit' \in {0, 3, 4}
  PROVE  CodeTold'
<1>1. \A s \in sealed : MadeBySeal(s)
  BY DEF WorldInv
<1>2. \A s \in sealed : s.blob = input =>
        BlobKeyId(input) = Ok(KeyId(s.key[1])) /\ Open(s.key, input) = Ok(s.pt)
  BY <1>1, SealedFacts
<1>3. \A x, y : Ok(x).err = "none" /\ (Ok(x) = Ok(y) => x = y)
  <2>1. \A x : Ok(x).err = "none" /\ Ok(x).val = x
    BY DEF Ok
  <2>2. QED
    BY <2>1
<1>4. args' = args /\ dkey' = dkey /\ input' = input /\ sealed' = sealed /\ args.cmd = "open"
  BY DEF OpenEnds
<1>5. CASE pc = "route" /\ BlobKeyId(input).err # "none"
  <2>1. BlobKeyId(input).err \in {"Format", "Auth"}
    BY <1>5 DEF BlobKeyId, ReadHeader, Ok, Err
  <2>2. exit' = 3
    BY <1>5, <2>1 DEF OpenEnds, FailKrypto
  <2>3. \A s \in sealed : s.blob # input
    BY <1>2, <1>3, <1>5
  <2>4. QED
    BY <1>4, <2>2, <2>3 DEF CodeTold
<1>6. CASE pc = "route" /\ BlobKeyId(input).err = "none"
  <2>1. BlobKeyId(input).val # KeyId(Master) /\ exit' = 4
    BY <1>6 DEF OpenEnds
  <2>2. BlobKeyId(input) = Ok(input.kid) /\ input.kid # KeyId(Master)
    BY <1>6, <2>1, KeyIdRead DEF Ok
  <2>3. dkey[1] = Master
    BY <1>4, <1>6, KeyIds DEF KeyInv
  <2>4. \A s \in sealed : s.blob = input => s.key[1] # Master /\ s.key # dkey
    BY <1>2, <1>3, <2>2, <2>3
  <2>5. QED
    BY <1>4, <2>1, <2>2, <2>4 DEF CodeTold, Master
<1>7. CASE pc = "open"
  <2>1. stdin = "read" /\ BlobKeyId(input) = Ok(KeyId(Master))
    BY <1>4, <1>7 DEF StageInv, KeyInv
  <2>2. input.magic = "FAFN"
    BY <1>3, <2>1, KeyIdRead
  <2>3. Open(dkey, input).err = "Auth" /\ exit' = 3
    BY <1>7, <2>2, ChangedIsAuth, Codes DEF OpenEnds
  <2>4. \A s \in sealed : s.blob = input => s.key[1] = Master /\ s.key # dkey
    BY <1>2, <1>3, <2>1, <2>3, KeyIds
  <2>5. QED
    BY <1>4, <2>3, <2>4 DEF CodeTold, Master
<1>8. CASE pc = "write"
  <2>1. stdin = "read" /\ exit' = 0
    BY <1>8 DEF OpenEnds
  <2>2. BlobKeyId(input) = Ok(KeyId(Master)) /\ Open(dkey, input) = Ok(result.pt)
    BY <1>4, <1>8, <2>1 DEF KeyInv
  <2>3. input \in Blobs
    <3>1. input.magic = "FAFN"
      BY <1>3, <2>2, KeyIdRead
    <3>2. ShortBlob.magic # "FAFN"
      BY DEF ShortBlob
    <3>3. input # ShortBlob /\ input # NoBlob
      BY <3>1, <3>2, NoBlobAssumption
    <3>4. QED
      BY <3>3 DEF TypeOK
  <2>4. \E s \in sealed : s.blob = input
    BY <1>3, <2>2, <2>3, OpensOnlySealed
  <2>5. \A s \in sealed : s.blob = input => s.key[1] = Master
    BY <1>2, <1>3, <2>2, KeyIds
  <2>6. \A s \in sealed : s.blob = input => s.key = dkey
    <3>1. Open(dkey, input).err # "Auth"
      BY <1>3, <2>2
    <3>2. QED
      BY <1>1, <3>1, OnlyItsKeyOpens
  <2>7. QED
    BY <1>4, <2>1, <2>4, <2>5, <2>6 DEF CodeTold, Master
<1>9. QED
  BY <1>5, <1>6, <1>7, <1>8 DEF OpenEnds

\* A process that has ended waits to be reaped.
LEMMA EndedWaits ==
  ASSUME pc = "exited", pc' = "exited", [Next]_vars
  PROVE  UNCHANGED vars
BY DEF Next, Process, Start, Reap, ParseWrong, ParseHelp, Dispatch, AlgArg, KeyFile, Needs,
       DeriveKey, KeyIdOf, HexArgs, ReadFails, ReadStdin, Route, OpenBlob,
       SealBlob, Compute, CheckSignature, Write, WriteFails, Rotate, Alter

LEMMA CodesStep ==
  ASSUME TypeOK, WorldInv, StageInv, KeyInv, CodesTellApart, [Next]_vars
  PROVE  CodesTellApart'
<1>1. ChangeIsNotAMishap'
  BY ChangedIsAuth DEF ChangeIsNotAMishap
<1>2. ASSUME pc' = "exited", args'.cmd = "open", exit' \in {0, 3, 4}, stdin' = "read"
      PROVE  CodeTold'
  <2>1. CASE pc = "exited"
    <3>1. UNCHANGED <<pc, args, dkey, stdin, input, exit, sealed>>
      BY <1>2, <2>1, EndedWaits DEF vars
    <3>2. CodeTold
      BY <1>2, <2>1, <3>1 DEF CodesTellApart
    <3>3. QED
      BY <3>1, <3>2 DEF CodeTold, Master
  <2>2. CASE pc # "exited"
    <3>1. Process
      BY <1>2, <2>2 DEF Next, Rotate, Alter, vars
    <3>2. QED
      BY <1>2, <2>2, <3>1, EndsOpen, OpenEndTells
  <2>3. QED
    BY <2>1, <2>2
<1>3. QED
  BY <1>1, <1>2 DEF CodesTellApart

-----------------------------------------------------------------------------
\* What is printed, and when a wrong call is told.

LEMMA SilentStep ==
  ASSUME StageInv, SilentOnFailure, [Next]_vars
  PROVE  SilentOnFailure'
<1>1. CASE pc' # "exited"
  BY <1>1 DEF SilentOnFailure
<1>2. CASE pc = "exited" /\ pc' = "exited"
  BY <1>2, EndedWaits DEF vars, SilentOnFailure, Changed
<1>3. CASE pc # "exited" /\ pc' = "exited"
  <2>1. Process
    BY <1>3 DEF Next, Rotate, Alter, vars
  <2>2. CASE Write
    <3>1. /\ stdout' = "all" /\ UNCHANGED <<args, input>>
          /\ exit' = IF Changed THEN FailKrypto("Auth") ELSE 0
      BY <2>2 DEF Write
    <3>2. Changed' = Changed
      BY <3>1 DEF Changed
    <3>3. QED
      BY <3>1, <3>2, Codes DEF SilentOnFailure
  <2>3. CASE WriteFails
    BY <2>3 DEF WriteFails, SilentOnFailure, Io
  <2>4. CASE ~Write /\ ~WriteFails
    <3>1. pc # "write" /\ UNCHANGED <<result, stdout>>
      BY <1>3, <2>1, <2>4
         DEF Process, Start, Reap, ParseWrong, ParseHelp, Dispatch, AlgArg, KeyFile, Needs,
             DeriveKey, KeyIdOf, HexArgs, ReadFails, ReadStdin, Route, OpenBlob, SealBlob,
             Compute, CheckSignature, Exit, GoTo, Show
    <3>2. QED
      BY <1>3, <3>1 DEF StageInv, SilentOnFailure
  <2>5. QED
    BY <2>2, <2>3, <2>4
<1>4. QED
  BY <1>1, <1>2, <1>3

LEMMA ToldStep ==
  ASSUME TypeOK', TypeOK, StageInv, WrongCallIsToldFirst, [Next]_vars
  PROVE  WrongCallIsToldFirst'
<1> SUFFICES ASSUME exit' = Usage, args'.cmd # "verify"
             PROVE  stdin' \in {"unread", "oversized"}
  BY DEF WrongCallIsToldFirst
<1>1. pc' = "exited"
  BY DEF TypeOK, Usage, NoExit
<1>2. CASE pc = "exited"
  BY <1>1, <1>2, EndedWaits DEF vars, WrongCallIsToldFirst
<1>3. CASE pc # "exited"
  <2> USE Codes DEF Exit, GoTo, Show, Usage, Io, Hardening
  <2>1. Process
    BY <1>1, <1>3 DEF Next, Rotate, Alter, vars
  <2>2. CASE Start \/ Reap \/ ParseWrong \/ ParseHelp \/ Dispatch \/ AlgArg
    BY <1>1, <2>2 DEF StageInv, Start, Reap, ParseWrong, ParseHelp, Dispatch, AlgArg
  <2>3. CASE KeyFile \/ Needs \/ HexArgs
    BY <2>3 DEF StageInv, KeyFile, Needs, HexArgs
  <2>4. CASE DeriveKey
    <3>1. pc = "derive" /\ stdin' = stdin
      BY <2>4 DEF DeriveKey
    <3>2. QED
      BY <3>1 DEF StageInv
  <2>5. CASE ReadFails \/ ReadStdin
    BY <1>1, <2>5 DEF ReadFails, ReadStdin
  <2>6. CASE Route \/ OpenBlob \/ KeyIdOf \/ Compute
    <3>1. exit' \in {1, 3, 4}
      BY <1>1, <2>6 DEF Route, OpenBlob, KeyIdOf, Compute
    <3>2. QED
      BY <3>1
  <2>7. CASE SealBlob
    <3>1. exit' = 1
      BY <1>1, <2>7 DEF SealBlob
    <3>2. QED
      BY <3>1
  <2>8. CASE CheckSignature
    BY <2>8 DEF CheckSignature
  <2>9. CASE Write \/ WriteFails
    BY <2>9 DEF Write, WriteFails
  <2>10. QED
    BY <2>1, <2>2, <2>3, <2>4, <2>5, <2>6, <2>7, <2>8, <2>9 DEF Process
<1>4. QED
  BY <1>2, <1>3

-----------------------------------------------------------------------------
LEMMA Invariance == Spec => []IInv
<1>1. Init => IInv
  <2> SUFFICES ASSUME Init PROVE IInv
    OBVIOUS
  <2>1. Blobs = {}
    BY DEF Init, Blobs
  <2>2. WorldInv
    BY <2>1 DEF Init, WorldInv
  <2>3. TypeOK
    BY DEF Init, TypeOK, Nothing, NoExit
  <2>4. StageInv /\ KeyInv
    BY DEF Init, StageInv, KeyInv
  <2>5. OpenedIsSealed /\ SilentOnFailure /\ WrongCallIsToldFirst
    BY DEF Init, OpenedIsSealed, SilentOnFailure, WrongCallIsToldFirst, Nothing, NoArgs
  <2>6. CodesTellApart
    BY ChangedIsAuth DEF Init, CodesTellApart, ChangeIsNotAMishap
  <2>7. QED
    BY <2>2, <2>3, <2>4, <2>5, <2>6 DEF IInv
<1>2. IInv /\ [Next]_vars => IInv'
  <2> SUFFICES ASSUME IInv, [Next]_vars PROVE IInv'
    OBVIOUS
  <2>1. TypeOK'
    BY TypeStep DEF IInv
  <2>2. WorldInv' /\ StageInv' /\ KeyInv'
    BY WorldStep, StageStep, KeyStep DEF IInv
  <2>3. OpenedIsSealed' /\ CodesTellApart'
    BY OpenedStep, CodesStep DEF IInv
  <2>4. SilentOnFailure' /\ WrongCallIsToldFirst'
    BY <2>1, SilentStep, ToldStep DEF IInv
  <2>5. QED
    BY <2>1, <2>2, <2>3, <2>4 DEF IInv
<1>3. QED
  BY <1>1, <1>2, PTL DEF Spec

\* The type invariant: in particular, no command works on what it has not
\* read, or prints what it has not worked out.
THEOREM TypeTheorem == Spec => []TypeOK
<1>1. IInv => TypeOK
  BY DEF IInv
<1>2. QED
  BY <1>1, Invariance, PTL

\* Whatever others do to the blobs, and however they are moved between keys,
\* open prints nothing but what was sealed, from that very blob and key.
THEOREM OpenedTheorem == Spec => []OpenedIsSealed
<1>1. IInv => OpenedIsSealed
  BY DEF IInv
<1>2. QED
  BY <1>1, Invariance, PTL

\* The exit codes of open tell another key generation, a wrong context or
\* salt, and a good blob apart, and no changed blob passes for a good one.
THEOREM CodesTheorem == Spec => []CodesTellApart
<1>1. IInv => CodesTellApart
  BY DEF IInv
<1>2. QED
  BY <1>1, Invariance, PTL

\* What krypto sealed or moved to another key opens under that key to what
\* went in, with the algorithm that was chosen, and under no other key.
THEOREM SealedOpensTheorem == Spec => []SealedOpens
<1>1. IInv => SealedOpens
  <2> SUFFICES ASSUME WorldInv, NEW s \in sealed
               PROVE  /\ Open(s.key, s.blob) = Ok(s.pt) /\ ReadHeader(s.blob) = Ok(s.alg)
                      /\ \A t \in sealed : t.key # s.key => Open(t.key, s.blob).err = "Auth"
    BY DEF IInv, SealedOpens
  <2>1. MadeBySeal(s)
    BY DEF WorldInv
  <2>2. QED
    BY <2>1, SealedFacts, OnlyItsKeyOpens
<1>2. QED
  BY <1>1, Invariance, PTL

\* Exit 0 means that the whole answer was printed, and any other code that
\* none of it was, but for a broken stdout and a changed header inspected.
THEOREM SilentTheorem == Spec => []SilentOnFailure
<1>1. IInv => SilentOnFailure
  BY DEF IInv
<1>2. QED
  BY <1>1, Invariance, PTL

\* A wrong call is told before the input is taken from stdin.
THEOREM ToldTheorem == Spec => []WrongCallIsToldFirst
<1>1. IInv => WrongCallIsToldFirst
  BY DEF IInv
<1>2. QED
  BY <1>1, Invariance, PTL
================================================================================
