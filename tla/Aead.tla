--------------------------------- MODULE Aead ---------------------------------
(***************************************************************************)
(* The blob of src/src/aead.rs and the keys of src/src/kdf.rs, as           *)
(* operators.  The three ciphers, HKDF and HMAC come from other crates and  *)
(* are ideal: a body opens for the algorithm, key, nonce and associated     *)
(* data it was made with and for no other, and keys and key ids of          *)
(* different inputs differ.                                                 *)
(*                                                                         *)
(* A blob has the header's fields, the nonce field as the random bytes the  *)
(* cipher uses and the unused tail, and a body.  ShortBlob stands for data  *)
(* that ends within the header.                                            *)
(***************************************************************************)
EXTENDS Naturals

Algs == {"aegis256", "xchacha20", "aes256gcm"}

AlgId(alg) == CASE alg = "aegis256" -> 1 [] alg = "xchacha20" -> 2 [] alg = "aes256gcm" -> 3

FromId(id) == CHOOSE alg \in Algs : AlgId(alg) = id

NonceLen(alg) == CASE alg = "aegis256" -> 32 [] alg = "xchacha20" -> 24 [] alg = "aes256gcm" -> 12

NonceField == 32
FormatVer  == 1
ShortBlob  == [magic |-> "short"]
BrokenBody == [key |-> "none"]

\* Result<T, Error>.
Ok(v)  == [err |-> "none", val |-> v]
Err(e) == [err |-> e, val |-> "none"]

-----------------------------------------------------------------------------
\* kdf.rs.  The values "empty" and "long" stand for an info or a salt that is
\* empty, or longer than MAX_DERIVE_INPUT_BYTES.
DerivedKey(master, info, salt) == <<master, info, salt>>
KeyId(master) == <<"key-id", master>>

Derive(master, info, salt) ==
  IF info \in {"empty", "long"} \/ salt = "long"
  THEN Err("Format")
  ELSE Ok(DerivedKey(master, info, salt))

-----------------------------------------------------------------------------
\* Mutant: only the key id is associated data.
AadKeyIdOnly(blob) == blob.kid

\* The associated data: the whole header, the nonce's unused tail included.
Aad(blob) == <<blob.magic, blob.ver, blob.alg, blob.kid, blob.nonce, blob.tail>>

PrimitiveSeal(alg, key, nonce, pt, aad) ==
  [alg |-> alg, key |-> key, nonce |-> nonce, pt |-> pt, aad |-> aad]

\* A body cut short of its tag opens as little as a changed one.
PrimitiveOpen(alg, key, nonce, body, aad) ==
  IF body # BrokenBody /\ body = PrimitiveSeal(alg, key, nonce, body.pt, aad)
  THEN Ok(body.pt)
  ELSE Err("Auth")

Header(alg, kid, nonce) ==
  [magic |-> "FAFN", ver |-> FormatVer, alg |-> AlgId(alg), kid |-> kid,
   nonce |-> nonce, tail |-> "zero", body |-> BrokenBody]

\* `nonce` is what getrandom drew.
Seal(key, kid, pt, alg, nonce) ==
  LET header == Header(alg, kid, nonce) IN
  [header EXCEPT !.body = PrimitiveSeal(alg, key, nonce, pt, Aad(header))]

\* Data that is no krypto blob is Format; a header that is not sound is Auth.
ReadHeader(blob) ==
  IF blob.magic # "FAFN" THEN Err("Format")
  ELSE IF blob.ver # FormatVer \/ blob.alg \notin 1..3 THEN Err("Auth")
  ELSE Ok(FromId(blob.alg))

Open(key, blob) ==
  LET header == ReadHeader(blob) IN
  IF header.err # "none" THEN header
  ELSE PrimitiveOpen(header.val, key, blob.nonce, blob.body, Aad(blob))

BlobKeyId(blob) ==
  LET header == ReadHeader(blob) IN
  IF header.err # "none" THEN header ELSE Ok(blob.kid)

\* Mutant: the new blob is sealed with the default algorithm.
ResealDefault(old, new, newKid, blob, nonce) ==
  LET pt == Open(old, blob) IN
  IF pt.err # "none" THEN pt ELSE Ok(Seal(new, newKid, pt.val, "aegis256", nonce))

Reseal(old, new, newKid, blob, nonce) ==
  LET alg == ReadHeader(blob)
      pt  == Open(old, blob)
  IN IF pt.err # "none" THEN pt ELSE Ok(Seal(new, newKid, pt.val, alg.val, nonce))

-----------------------------------------------------------------------------
\* External: what can become of a blob outside krypto.  A field changes, the
\* body is cut short or exchanged with another blob's.
Alterations(blob, others) ==
  IF blob.magic # "FAFN" THEN {}
  ELSE LET fields ==
             {[blob EXCEPT !.magic = "other"], [blob EXCEPT !.ver = 2], [blob EXCEPT !.body = BrokenBody],
              ShortBlob}
             \cup {[blob EXCEPT !.alg = id] : id \in 1..4}
             \cup (IF blob.alg \in 1..3 /\ NonceLen(FromId(blob.alg)) < NonceField
                   THEN {[blob EXCEPT !.tail = "changed"]} ELSE {})
           swaps ==
             UNION {{[blob EXCEPT !.kid = o.kid], [blob EXCEPT !.nonce = o.nonce],
                     [blob EXCEPT !.body = o.body]} : o \in {x \in others : x.magic = "FAFN"}}
       IN (fields \cup swaps) \ {blob}
===============================================================================
