------------------------------- MODULE Cipher -------------------------------
(***************************************************************************)
(* The packet ciphers of src/common/security.go and the way RuntimeService *)
(* builds and calls them (initCrypt, EncryptMsg, DecryptMsg in            *)
(* src/service/runtime_service.go).  Pure operators, checked by a model   *)
(* module over chosen inputs.                                              *)
(*                                                                         *)
(* A text is a sequence of bytes (numbers 0 .. 255).  The block ciphers    *)
(* themselves (aes.NewCipher, des.NewCipher, RSA with a 2048-bit key) are  *)
(* abstracted: a ciphertext byte is the record of the key and IV it was    *)
(* made with, its position and the plaintext byte it hides.  Decrypting   *)
(* with that key and IV gives the byte back; the modules only decrypt with *)
(* the cipher that encrypted.  What the code adds around the primitives   *)
(* (padding, key and IV handling, buffer-size checks, the panics and the   *)
(* recovers) is kept.                                                      *)
(***************************************************************************)
EXTENDS Integers, Sequences, SequencesExt, GuiForms

CryptAES == 1
CryptDES == 2
CryptRSA == 3

PackLength   == 2048  \* protobufCodec.txBuffer: the dst of every Encode and Decode
AesBlock     == 16    \* aes.BlockSize
DesBlock     == 8     \* des.BlockSize
RsaMaxPlain  == 245   \* EncryptPKCS1v15 with a 2048-bit key: k - 11
RsaCipherLen == 256

(* A cipher value: its type, its key, and whether it is a nil pointer.   *)
(* NewAesCrypt, NewDesCrypt and NewRsaCrypt return a nil *AesCrypt, ...   *)
(* on failure; stored in the Crypt interface r.crypt that is not nil.     *)
(* NoCrypt is the nil interface itself.                                    *)
NoCrypt == [kind |-> CryptNone, key |-> <<>>, nilPtr |-> TRUE]
NilCrypt(kind) == [kind |-> kind, key |-> <<>>, nilPtr |-> TRUE]

(* copy(keyByte, data) into a zeroed buffer of n bytes: truncates or pads. *)
KeyBytes(pw, n) == [i \in 1 .. n |-> IF i <= Len(pw) THEN pw[i] ELSE 0]

(* The results of Encode and Decode: res is "ok", "err" (an error value)   *)
(* or "panic" (a panic the function does not recover).                     *)
Result(res, n, out) == [res |-> res, n |-> n, out |-> out]

Seal(key, iv, p) == [j \in 1 .. Len(p) |-> [key |-> key, iv |-> iv, at |-> j, p |-> p[j]]]
Unseal(c) == [j \in 1 .. Len(c) |-> c[j].p]

(* A padding of 0 for a text that fills its last block.                    *)
PaddingAligned(bs, dataLen) == (bs - (dataLen % bs)) % bs

(* padding := blockSize - dataLen%blockSize, of byte(padding) bytes.       *)
Padding(bs, dataLen) == bs - (dataLen % bs)

Padded(src, bs) ==
  LET n == Padding(bs, Len(src)) IN src \o [i \in 1 .. n |-> n]

-----------------------------------------------------------------------------
(* The AES key length for a password of k bytes: 16 up to 16, else 32    *)
(* (the middle test repeats k <= 16, so 24 is never chosen).               *)
AesKeyLen(k) == IF k <= 16 THEN 16 ELSE 32

(* NewAesCrypt: nil for an empty password.                                 *)
NewAesCrypt(pw) ==
  IF Len(pw) = 0 THEN NilCrypt(CryptAES)
  ELSE [kind |-> CryptAES, key |-> KeyBytes(pw, AesKeyLen(Len(pw))), nilPtr |-> FALSE]

(* AesCrypt.Encode: a nil receiver panics on a.blockSize; the size check, *)
(* then NewCBCEncrypter with the whole key as IV, which panics unless the  *)
(* IV is one block long.                                                    *)
AesEncode(a, src) ==
  LET total == Len(src) + Padding(AesBlock, Len(src))
  IN CASE a.nilPtr                  -> Result("panic", 0, <<>>)
       [] PackLength < total        -> Result("err", 0, <<>>)
       [] Len(a.key) # AesBlock     -> Result("panic", 0, <<>>)
       [] OTHER -> Result("ok", total, Seal(a.key, a.key, Padded(src, AesBlock)))

(* AesCrypt.Decode: a panic (nil receiver, IV length, ragged input, short  *)
(* dst) is recovered and returns (0, nil).  The pad length is the last    *)
(* byte, not checked against the text.                                     *)
AesDecode(a, src) ==
  IF a.nilPtr \/ Len(a.key) # AesBlock \/ Len(src) % AesBlock # 0 \/ Len(src) > PackLength
  THEN Result("ok", 0, <<>>)
  ELSE LET dst == Unseal(src) IN Result("ok", Len(src) - dst[Len(src)], dst)

(* NewDesCrypt: nil for an empty password, else an 8-byte key.             *)
NewDesCrypt(pw) ==
  IF Len(pw) = 0 THEN NilCrypt(CryptDES)
  ELSE [kind |-> CryptDES, key |-> KeyBytes(pw, 8), nilPtr |-> FALSE]

(* DesCrypt.Encode: block by block into dst[offset:], which panics once    *)
(* dst has no room for a block (ECB: no IV); a nil receiver panics.        *)
DesEncode(d, src) ==
  LET total == Len(src) + Padding(DesBlock, Len(src))
  IN IF d.nilPtr \/ total > PackLength THEN Result("panic", 0, <<>>)
     ELSE Result("ok", total, Seal(d.key, <<>>, Padded(src, DesBlock)))

(* DesCrypt.Decode: ragged input is an error; no recover here.             *)
DesDecode(d, src) ==
  CASE d.nilPtr                -> Result("panic", 0, <<>>)
    [] Len(src) % DesBlock # 0 -> Result("err", 0, <<>>)
    [] Len(src) > PackLength   -> Result("panic", 0, <<>>)
    [] OTHER -> LET dst == Unseal(src) IN Result("ok", Len(src) - dst[Len(src)], dst)

(* RsaCrypt: PKCS #1 v1.5 takes at most k - 11 bytes and yields k bytes;  *)
(* the bytes that hide no plaintext (-1 here) are its padding.  A nil     *)
(* receiver panics on r.publicKey / r.privateKey.                          *)
RsaEncode(r, src) ==
  CASE r.nilPtr                -> Result("panic", 0, <<>>)
    [] Len(src) > RsaMaxPlain  -> Result("err", 0, <<>>)
    [] OTHER -> Result("ok", RsaCipherLen,
                       Seal(r.key, <<>>, src \o [i \in 1 .. RsaCipherLen - Len(src) |-> -1]))

RsaDecode(r, src) ==
  CASE r.nilPtr                  -> Result("panic", 0, <<>>)
    [] Len(src) # RsaCipherLen   -> Result("err", 0, <<>>)
    [] OTHER -> LET plain == SelectSeq(Unseal(src), LAMBDA b : b >= 0)
                IN Result("ok", Len(plain), plain)

-----------------------------------------------------------------------------
(* runtime_service.go                                                     *)

(* initCrypt: the cipher for the configured type; rsaKeysOk is whether    *)
(* NewRsaCrypt could read or create its key files.  err (the log says the *)
(* service goes on without encryption) needs r.crypt == nil, which a nil  *)
(* pointer of a cipher type is not: only an unknown type gives it.         *)
InitCrypt(cryptType, pw, rsaKeysOk) ==
  LET c == CASE cryptType = CryptNone -> NoCrypt
             [] cryptType = CryptAES  -> NewAesCrypt(pw)
             [] cryptType = CryptDES  -> NewDesCrypt(pw)
             [] cryptType = CryptRSA  -> IF rsaKeysOk
                                         THEN [kind |-> CryptRSA, key |-> <<-1>>, nilPtr |-> FALSE]
                                         ELSE NilCrypt(CryptRSA)
             [] OTHER -> NoCrypt
  IN [crypt |-> c, err |-> cryptType \notin {CryptNone, CryptAES, CryptDES, CryptRSA}]

(* EncryptMsg / DecryptMsg: errors below ConnOk, for an empty payload and  *)
(* without a cipher, else the cipher's Encode / Decode into txBuffer.      *)
EncryptMsg(connOk, c, data) ==
  CASE ~connOk \/ data = <<>> \/ c = NoCrypt -> Result("err", 0, <<>>)
    [] c.kind = CryptAES -> AesEncode(c, data)
    [] c.kind = CryptDES -> DesEncode(c, data)
    [] OTHER             -> RsaEncode(c, data)

DecryptMsg(connOk, c, data) ==
  CASE ~connOk \/ data = <<>> \/ c = NoCrypt -> Result("err", 0, <<>>)
    [] c.kind = CryptAES -> AesDecode(c, data)
    [] c.kind = CryptDES -> DesDecode(c, data)
    [] OTHER             -> RsaDecode(c, data)

(* AesEncrypt / AesDecrypt: the group password's obfuscation for the auth *)
(* request, CBC with the first block of the key as IV; a panic is          *)
(* recovered and gives "".                                                  *)
AesEncrypt(plain, key) ==
  LET k == KeyBytes(key, AesKeyLen(Len(key)))
  IN Seal(k, SubSeq(k, 1, AesBlock), Padded(plain, AesBlock))

(* A short or negative result length panics on the slice: "".            *)
AesDecrypt(crypt, key) ==
  IF Len(crypt) = 0 \/ Len(crypt) % AesBlock # 0 THEN <<>>
  ELSE LET dst == Unseal(crypt) IN SubSeq(dst, 1, Len(dst) - dst[Len(dst)])

-----------------------------------------------------------------------------
(* Property predicate of one input (see MCFrameCodec).                     *)

(* A payload one session's EncryptMsg accepts comes back unchanged from    *)
(* DecryptMsg of a session configured alike, and the group password's     *)
(* obfuscation is undone by AesDecrypt with the same key.                  *)
CipherRoundTripHolds(cryptType, pw, data) ==
  LET c == InitCrypt(cryptType, pw, TRUE).crypt
      e == EncryptMsg(TRUE, c, data)
      d == DecryptMsg(TRUE, c, SubSeq(e.out, 1, e.n))
  IN /\ e.res = "ok" => d.res = "ok" /\ SubSeq(d.out, 1, d.n) = data
     /\ AesDecrypt(AesEncrypt(data, pw), pw) = data
=============================================================================
