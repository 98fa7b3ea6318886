--------------------------- MODULE MCFrameCodec ---------------------------
(* FrameCodec instantiated for TLC.  The ceiling is scaled from 2 MiB to   *)
(* 129 bytes, so a 128-byte payload has a two-byte header that a read can *)
(* split, and a 130-byte one is above the ceiling.                         *)
(* The same run checks the pure operators of GuiForms and Cipher, the way a *)
(* recursive definition is checked against a reference: Init chooses one  *)
(* input (sample), which no step changes.  The codec's reads run only from *)
(* the state with no input, so the two checks do not multiply.             *)
EXTENDS FrameCodec, Cipher

(* Well-formed frames: a two-byte header, then the two smallest payloads.  *)
LensWellFormed == <<128, 2, 3>>

(* A frame above the ceiling, then a well-formed one.                      *)
LensOversize == <<130, 2>>

(* A uint32 from its dotted octets, independent of the code's parser.     *)
IpFromOctets(o) == [i \in 0 .. 31 |-> (o[4 - i \div 8] \div 2^(i % 8)) % 2]

(* Stored configurations: no MAC or address yet (AutoAssign before the     *)
(* first registration), a MAC whose bytes differ, the broadcast MAC;      *)
(* addresses above and below 2^31; every mask length; both IP modes; and  *)
(* encryption with and without a password.                                 *)
Configs ==
  [ServerIp : {<<192, 168, 1, 100>>}, ServerPort : {3000},
   EnableLog : {TRUE}, LogLevel : {2},
   Name : {"pc"}, CryptType : {CryptNone, 1}, PeerPwd : {"", "p"},
   GroupName : {"default_group"}, GroupPwd : {"g"},
   HwMac : {FromBytesLE(<<>>), FromBytesLE(<<2, 0, 94, 0, 0, 1>>),
            FromBytesLE(<<255, 255, 255, 255, 255, 255>>)},
   IpMode : {AutoAssign, Static},
   IpAddr : {IpFromOctets(<<0, 0, 0, 0>>), IpFromOctets(<<10, 0, 0, 5>>),
             IpFromOctets(<<192, 168, 1, 100>>)},
   IpMask : 0 .. 32]

(* Texts of n bytes: passwords of letters, payloads of nonzero bytes that *)
(* differ from their neighbours.                                           *)
Password(n) == [i \in 1 .. n |-> 97 + (i % 26)]
Payload(n)  == [i \in 1 .. n |-> 1 + ((7 * i) % 251)]

(* Cipher inputs: every cipher type and an unknown one; passwords that are *)
(* empty, shorter than, as long as and longer than the 8- and 16-byte     *)
(* keys, and longer than 32; payloads around the block sizes, around RSA's *)
(* 245-byte limit, and around the 2048-byte buffer.                        *)
CryptInputs ==
  [type : {CryptNone, CryptAES, CryptDES, CryptRSA, 4},
   pw   : {Password(k) : k \in {0, 1, 8, 9, 16, 17, 33}},
   data : {Payload(n) : n \in {1, 7, 8, 9, 15, 16, 17, 245, 246, 2031, 2032, 2047, 2048}}]

VARIABLE sample

Samples ==
  {[kind |-> "none"]}
  \cup {[kind |-> "config", app |-> a] : a \in Configs}
  \cup {[kind |-> "crypt", in |-> x] : x \in CryptInputs}

MCInit == Init /\ sample \in Samples
MCNext == sample.kind = "none" /\ Next /\ UNCHANGED sample
MCSpec == MCInit /\ [][MCNext]_<<vars, sample>>

(* Opening the settings form (GetConfig) and saving it unchanged          *)
(* (SaveConfig) keeps the stored configuration and does not restart the   *)
(* service, whether or not the file write succeeds: the MAC text, the     *)
(* dotted address and the dotted mask GetConfig formats are parsed back   *)
(* by MacStrToUint64, IpV4toUint32 and MaskBitLen to the values they came *)
(* from, and NeedRestart sees no change.                                   *)
FormRoundTrip == sample.kind = "config" => FormRoundTripHolds(sample.app)

(* Padding a payload to whole blocks in AesCrypt.Encode / DesCrypt.Encode, *)
(* sealing it with the key (and, for AES, the key as IV) and stripping the *)
(* padding again in Decode gives every payload EncryptMsg accepts back     *)
(* unchanged, whatever its length modulo the block size, as it does for    *)
(* RSA and for the group password's AesEncrypt / AesDecrypt.               *)
CipherRoundTrip ==
  sample.kind = "crypt" => CipherRoundTripHolds(sample.in.type, sample.in.pw, sample.in.data)

====
