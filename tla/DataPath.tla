------------------------------ MODULE DataPath ------------------------------
(***************************************************************************)
(* The encrypted data path through one socket's codec                      *)
(* (protobufCodec in src/netty/codec/format/protobuf.go, scheme 1: every  *)
(* socket of the service is UDP), between the two goroutines that use it:  *)
(*   - the TAP goroutine (TunTapService.readTap, tapData2Net,             *)
(*     RuntimeService.PostTunTapData) writes each Ethernet frame it reads *)
(*     to the socket; the pipeline runs the codec's HandleWrite on that   *)
(*     goroutine;                                                          *)
(*   - the socket's read loop runs HandleRead for each datagram and hands *)
(*     the frame to the socket's handler (DataHandler or MessageHandler), *)
(*     which writes msg.Data to the TAP device.                            *)
(* Both encrypt and decrypt into the codec's one txBuffer and then leave  *)
(* the message's Data pointing into it: HandleWrite sets                   *)
(* m.Data = v.txBuffer[:l] and marshals m afterwards; HandleRead sets     *)
(* msg.Data = v.txBuffer[:l] and the handler writes it to the TAP         *)
(* afterwards.  Nothing orders the two goroutines.                         *)
(*                                                                         *)
(* Data is abstracted to what a property tells apart: a payload is a model *)
(* value, the buffer and a datagram hold Sealed(p) (the cipher's output   *)
(* for p, see module Cipher) or Clear(p).  The datagram header checks of  *)
(* the UDP branch pass for every data frame a peer's HandleWrite makes and *)
(* are not repeated; frames without Data (pings, tries, server frames)    *)
(* never touch txBuffer and are left out, as are the traffic statistics.  *)
(***************************************************************************)
EXTENDS Integers, Sequences

CONSTANTS
  TapFrames,   \* payloads the TAP device hands this node, each read once
  PeerFrames,  \* payloads of the data frames the peer sends this node
  Encrypted,   \* a cipher is configured (CryptType AES, DES or RSA)
  Refused      \* TAP frames EncryptMsg refuses although a cipher is set:
               \* peerState fell below StateConnOk after PostTunTapData's
               \* test, or the cipher's Encode returned an error

ASSUME TapFrames \cap PeerFrames = {} /\ Encrypted \in BOOLEAN /\ Refused \subseteq TapFrames

Sealed(p) == [enc |-> TRUE, p |-> p]
Clear(p)  == [enc |-> FALSE, p |-> p]
Nothing   == [enc |-> FALSE, p |-> "none"]

(* A message's Data: its own bytes, or a slice of txBuffer (alias).        *)
Own(v)     == [alias |-> FALSE, val |-> v]
Aliased    == [alias |-> TRUE, val |-> Nothing]
DataOf(m, buf) == IF m.alias THEN buf ELSE m.val

VARIABLES
  toRead,    \* TAP frames readTap has not read yet
  inflight,  \* the peer's datagrams not yet read by the read loop (UDP: any order)
  txBuffer,  \* v.txBuffer
  wpc, wmsg, \* the TAP goroutine: where it is in HandleWrite, and m.Data
  rpc, rmsg, \* the read loop: where it is in HandleRead, and msg.Data
  wire,      \* the Data of the datagrams this node has sent, in order
  tap        \* the Data written to the TAP device, in order

vars == <<toRead, inflight, txBuffer, wpc, wmsg, rpc, rmsg, wire, tap>>

TypeOK ==
  /\ toRead \subseteq TapFrames /\ inflight \subseteq PeerFrames
  /\ wpc \in {"idle", "marshal"} /\ rpc \in {"idle", "deliver"}
  /\ txBuffer \in {Nothing} \cup [enc : BOOLEAN, p : TapFrames \cup PeerFrames]

Init ==
  /\ toRead = TapFrames
  /\ inflight = PeerFrames
  /\ txBuffer = Nothing
  /\ wpc = "idle" /\ wmsg = Own(Nothing)
  /\ rpc = "idle" /\ rmsg = Own(Nothing)
  /\ wire = <<>> /\ tap = <<>>

(* readTap reads frame p; tapData2Net and PostTunTapData hand it to the    *)
(* socket, and HandleWrite's Msg_Packet case runs EncryptMsg: the cipher   *)
(* writes into txBuffer and m.Data becomes the slice of it.  When          *)
(* EncryptMsg fails (no cipher, or a refused frame) m.Data keeps the frame *)
(* and HandleWrite goes on to send it.                                     *)
WriteEncrypt(p) ==
  /\ wpc = "idle" /\ p \in toRead
  /\ toRead' = toRead \ {p}
  /\ IF Encrypted /\ p \notin Refused
     THEN txBuffer' = Sealed(p) /\ wmsg' = Aliased
     ELSE UNCHANGED txBuffer /\ wmsg' = Own(Clear(p))
  /\ wpc' = "marshal"
  /\ UNCHANGED <<inflight, rpc, rmsg, tap, wire>>

(* proto.Marshal(m) copies m.Data as it is now, the header is put in      *)
(* front and ctx.HandleWrite sends the datagram.                           *)
WriteMarshal ==
  /\ wpc = "marshal"
  /\ wire' = Append(wire, DataOf(wmsg, txBuffer))
  /\ wpc' = "idle" /\ wmsg' = Own(Nothing)
  /\ UNCHANGED <<toRead, inflight, txBuffer, rpc, rmsg, tap>>

(* HandleRead, UDP branch: the datagram is read and unmarshalled, and      *)
(* DecryptMsg writes the plaintext into txBuffer; msg.Data becomes the     *)
(* slice.  Without a cipher DecryptMsg fails and msg.Data is the frame's.  *)
ReadDecrypt(q) ==
  /\ rpc = "idle" /\ q \in inflight
  /\ inflight' = inflight \ {q}
  /\ IF Encrypted
     THEN txBuffer' = Clear(q) /\ rmsg' = Aliased
     ELSE UNCHANGED txBuffer /\ rmsg' = Own(Clear(q))
  /\ rpc' = "deliver"
  /\ UNCHANGED <<toRead, wpc, wmsg, wire, tap>>

(* ctx.HandleRead(msg): the handler's Msg_Packet case,                     *)
(* TunTapService.WriteData2TunTap(msg.Data).                               *)
ReadDeliver ==
  /\ rpc = "deliver"
  /\ tap' = Append(tap, DataOf(rmsg, txBuffer))
  /\ rpc' = "idle" /\ rmsg' = Own(Nothing)
  /\ UNCHANGED <<toRead, inflight, txBuffer, wpc, wmsg, wire>>

Next ==
  \/ \E p \in toRead : WriteEncrypt(p)
  \/ WriteMarshal
  \/ \E q \in inflight : ReadDecrypt(q)
  \/ ReadDeliver

Spec == Init /\ [][Next]_vars

-----------------------------------------------------------------------------
(* With a cipher configured, every data frame this node sends carries     *)
(* ciphertext of one of its TAP frames, or one of its own TAP frames that  *)
(* EncryptMsg refused: the TAP goroutine's HandleWrite marshals the buffer *)
(* EncryptMsg just filled, whatever the read loop's HandleRead does to     *)
(* txBuffer meanwhile (spec.md, codec: "On encode, the symmetric encrypt  *)
(* operation is invoked before length-prefixing").                        *)
SentAsEncrypted ==
  Encrypted => \A i \in 1 .. Len(wire) :
                 wire[i] \in {Sealed(p) : p \in TapFrames} \cup {Clear(p) : p \in Refused}
=============================================================================
