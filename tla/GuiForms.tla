------------------------------ MODULE GuiForms ------------------------------
(***************************************************************************)
(* The conversions behind the GUI's settings form (src/wails-app.go) and  *)
(* the address helpers they call                                           *)
(* (src/common/utils.go).  These are pure functions: the module has no    *)
(* variables; its properties are predicates of one input, which a model  *)
(* module chooses from a bounded set.                                      *)
(*                                                                         *)
(* A uintN is a function from bit positions 0 .. N-1 to {0, 1}, bit i of  *)
(* weight 2^i, so the 32- and 64-bit values the code shifts and masks are *)
(* not limited by TLC's integers.  A text the code formats or parses      *)
(* ("10.0.0.5", "02:00:5E:00:00:01") is the sequence of the numbers its   *)
(* fields spell; a separator is not kept.                                  *)
(***************************************************************************)
EXTENDS Integers, Sequences, SequencesExt

(* uint32(val) for the int64 that ParseInt returns with bitSize 16: two's  *)
(* complement, so a negative field sets every bit from 15 up.              *)
FromInt16(v) == [i \in 0 .. 31 |-> IF i < 16 THEN ((v + 65536) \div 2^i) % 2
                                   ELSE IF v < 0 THEN 1 ELSE 0]

(* Byte k (0 is the lowest) of a word.                                     *)
ByteAt(x, k) == LET b(j) == x[8 * k + j] * 2^j
                IN b(0) + b(1) + b(2) + b(3) + b(4) + b(5) + b(6) + b(7)

(* Little-endian bytes to a uint64 (binary.LittleEndian.Uint64).           *)
FromBytesLE(bs) == [i \in 0 .. 63 |-> IF i \div 8 < Len(bs)
                                      THEN (bs[i \div 8 + 1] \div 2^(i % 8)) % 2
                                      ELSE 0]

(* Go's x << k on a uintN: a count of N or more gives 0.                   *)
Shl(x, k) == [i \in DOMAIN x |-> IF i >= k THEN x[i - k] ELSE 0]

BitOr(x, y) == [i \in DOMAIN x |-> IF x[i] = 1 \/ y[i] = 1 THEN 1 ELSE 0]

Zero32 == [i \in 0 .. 31 |-> 0]
Ones32 == [i \in 0 .. 31 |-> 1]

-----------------------------------------------------------------------------
(* utils.go                                                                *)

(* Uint32toIpV4: ip>>24, (ip>>16)&0xFF, (ip>>8)&0xFF, ip&0xFF.             *)
Uint32toIpV4(ip) == <<ByteAt(ip, 3), ByteAt(ip, 2), ByteAt(ip, 1), ByteAt(ip, 0)>>

(* IpV4toUint32: four fields, each parsed with ParseInt(_, 10, 16), folded *)
(* as IP = (IP << 8) | uint32(val).  Any error returns 0.                   *)
IpV4toUint32(t) ==
  IF Len(t) = 4 /\ \A i \in 1 .. 4 : t[i] \in -32768 .. 32767
  THEN [ok |-> TRUE,
        val |-> FoldLeft(LAMBDA ip, v : BitOr(Shl(ip, 8), FromInt16(v)), Zero32, t)]
  ELSE [ok |-> FALSE, val |-> Zero32]

(* MaskBitLen: the leading ones, testing from bit 31 down.                 *)
RECURSIVE OnesFrom(_, _)
OnesFrom(m, i) == IF i < 32 /\ m[31 - i] = 1 THEN OnesFrom(m, i + 1) ELSE i

(* A mask length counted from bit 30, as a mask constant of 0x40000000     *)
(* would.                                                                   *)
MaskBitLenFrom30(ipMask) == OnesFrom(ipMask, 1) - 1

MaskBitLen(ipMask) == OnesFrom(ipMask, 0)

(* Uint64ToMacStr: PutUint64 little-endian, then bytes 0 .. 5 in hex.      *)
Uint64ToMacStr(mac) == [k \in 1 .. 6 |-> ByteAt(mac, k - 1)]

(* MacStrToUint64: Sscanf of six hex fields into bytes 0 .. 5 of a zeroed  *)
(* buffer (a field above 0xFF overflows the byte and fails), then          *)
(* LittleEndian.Uint64.  Fields after the sixth are not read.              *)
MacStrToUint64(t) ==
  IF Len(t) >= 6 /\ \A k \in 1 .. 6 : t[k] \in 0 .. 255
  THEN [ok |-> TRUE, val |-> FromBytesLE(SubSeq(t, 1, 6))]
  ELSE [ok |-> FALSE, val |-> FromBytesLE(<<>>)]
-----------------------------------------------------------------------------
(* wails-app.go: the settings form.                                        *)

CryptNone  == 0
AutoAssign == 1
Static     == 2

(* GetConfig: the form shows the stored configuration, the mask as the    *)
(* dotted text of 0xFFFFFFFF << (32 - IpMask).  TabName is display only.   *)
GetConfig(app) ==
  [ServerIp |-> app.ServerIp, ServerPort |-> app.ServerPort,
   PeerName |-> app.Name, CryptType |-> app.CryptType, PeerPwd |-> app.PeerPwd,
   GroupName |-> app.GroupName, GroupPwd |-> app.GroupPwd,
   HwMac |-> Uint64ToMacStr(app.HwMac), IpMode |-> app.IpMode,
   IpAddr |-> Uint32toIpV4(app.IpAddr),
   IpMask |-> Uint32toIpV4(Shl(Ones32, 32 - app.IpMask)),
   EnableLog |-> app.EnableLog, LogLevel |-> app.LogLevel]

(* SaveConfig's restart test, between the stored configuration and the    *)
(* new one c.                                                               *)
NeedRestart(old, c) ==
  \/ old.HwMac # c.HwMac
  \/ old.CryptType # c.CryptType
  \/ old.CryptType # CryptNone /\ old.PeerPwd # c.PeerPwd
  \/ old.IpMode # c.IpMode
  \/ /\ old.IpAddr # c.IpAddr \/ old.IpMask # c.IpMask
     /\ c.IpMode # AutoAssign
  \/ old.ServerIp # c.ServerIp \/ old.ServerPort # c.ServerPort
  \/ old.GroupName # c.GroupName \/ old.GroupPwd # c.GroupPwd

(* SaveConfig(conf) on the stored configuration app: its early returns in  *)
(* order, then c as a copy of app (CopyAppConfigTo) with the form's fields *)
(* written over it (CopyAppConfigTo fails only on a nil target, and c is   *)
(* config.NewConfig()'s fresh one, so its "load failed" return is dead).  *)
(* written is whether config.SaveConfig wrote the file; only then does c   *)
(* become config.AppConfig.  The result says which        *)
(* message the form gets, the configuration afterwards, and whether        *)
(* Restart is called (module ControlSession's RestartStop).                *)
SaveConfig(app, conf, written) ==
  LET ipMode   == IF conf.IpMode = 2 THEN Static ELSE AutoAssign
      server   == IpV4toUint32(conf.ServerIp)
      peerIp   == IpV4toUint32(conf.IpAddr)
      peerMask == IpV4toUint32(conf.IpMask)
      mac      == MacStrToUint64(conf.HwMac)
      checks ==
        << [bad |-> conf.PeerName = "", msg |-> "noName"],
           [bad |-> conf.GroupName = "", msg |-> "noGroup"],
           [bad |-> conf.CryptType # CryptNone /\ conf.PeerPwd = "", msg |-> "noPwd"],
           [bad |-> ~server.ok, msg |-> "badServer"],
           [bad |-> ~peerIp.ok /\ ipMode # AutoAssign, msg |-> "badIp"],
           [bad |-> ~peerMask.ok /\ ipMode # AutoAssign, msg |-> "badMask"],
           [bad |-> ~mac.ok, msg |-> "badMac"],
           [bad |-> ~written, msg |-> "saveFailed"] >>
      failed == SelectSeq(checks, LAMBDA ch : ch.bad)
      c == [app EXCEPT !.ServerIp = conf.ServerIp, !.ServerPort = conf.ServerPort,
                       !.EnableLog = conf.EnableLog, !.LogLevel = conf.LogLevel,
                       !.Name = conf.PeerName, !.CryptType = conf.CryptType,
                       !.PeerPwd = conf.PeerPwd, !.GroupName = conf.GroupName,
                       !.GroupPwd = conf.GroupPwd, !.HwMac = mac.val,
                       !.IpMode = ipMode, !.IpAddr = peerIp.val,
                       !.IpMask = MaskBitLen(peerMask.val)]
  IN IF failed = <<>>
     THEN [msg |-> "saved", cfg |-> c, restart |-> NeedRestart(app, c)]
     ELSE [msg |-> Head(failed).msg, cfg |-> app, restart |-> FALSE]

-----------------------------------------------------------------------------
(* Property predicates of one input (see MCFrameCodec).                     *)

(* Saving the form GetConfig shows keeps app and does not restart.       *)
FormRoundTripHolds(app) ==
  \A written \in BOOLEAN :
    LET r == SaveConfig(app, GetConfig(app), written)
    IN r.cfg = app /\ ~r.restart

=============================================================================
