----------------------------- MODULE FrameCodec -----------------------------
(***************************************************************************)
(* The stream side of the frame codec: protobufCodec.HandleRead with       *)
(* scheme 0 and readAndDeal (src/serial/protocol/protobuf.go; the same     *)
(* code is in src/netty/codec/format/protobuf.go), which reassemble       *)
(* varint-length-prefixed frames from TCP reads, and HandleWrite, which    *)
(* produces them.                                                          *)
(*                                                                         *)
(* The sender writes the frames whose payload lengths are Lens.  Every     *)
(* split of that byte stream into reads is explored.  Payload bytes are    *)
(* the two schema-tag bytes and zeros; the buffer is the slice [lo, hi) of *)
(* the stream, and a delivered frame is named by the stream position of    *)
(* its payload.                                                            *)
(***************************************************************************)
EXTENDS Integers, Sequences, SequencesExt

CONSTANTS
  Lens,      \* the payload lengths the sender writes, in order
  MaxFrame   \* readAndDeal's ceiling, 2*1024*1024 in the code, scaled down

ASSUME Lens \in Seq(Nat) /\ MaxFrame \in Nat

-----------------------------------------------------------------------------
(* Varint coding, as utils.PutUvarint32 / utils.Uvarint32 (base 128,      *)
(* little endian, at most five bytes for 32 bits).                         *)

RECURSIVE PutUvarint32(_)
PutUvarint32(n) ==
  IF n < 128 THEN <<n>> ELSE <<(n % 128) + 128>> \o PutUvarint32(n \div 128)

(* Value and bytes used; num = 0 when buf ends inside the varint, num < 0  *)
(* when it runs past five bytes.                                           *)
RECURSIVE UvarintFrom(_, _, _, _)
UvarintFrom(buf, i, x, s) ==
  IF i > Len(buf) THEN [val |-> 0, num |-> 0]
  ELSE IF i > 5 THEN [val |-> 0, num |-> -i]
  ELSE IF buf[i] < 128 THEN [val |-> x + buf[i] * 2^s, num |-> i]
  ELSE UvarintFrom(buf, i + 1, x + (buf[i] - 128) * 2^s, s + 7)

Uvarint32(buf) == UvarintFrom(buf, 1, 0, 0)

(* HandleWrite for a MsgServerFrame of n bytes: header, then payload       *)
(* (0xF8 0x01 is the serialized frame's leading field tag).                *)
Encode(n) == PutUvarint32(n) \o [i \in 1 .. n |-> CASE i = 1 -> 248 [] i = 2 -> 1 [] OTHER -> 0]

Stream == FoldLeft(LAMBDA acc, n : acc \o Encode(n), <<>>, Lens)

(* The stream position of each frame's payload (a frame's name).           *)
PayloadAt(k) ==
  FoldLeft(LAMBDA acc, n : acc + Len(Encode(n)), 0, SubSeq(Lens, 1, k - 1)) + Len(PutUvarint32(Lens[k]))

(* Reference: the frames a correct reassembler hands on, in order; spec    *)
(* section 4.1 drops frames above the ceiling without disturbing the rest. *)
Expected == [j \in 1 .. Len(SelectSeq(Lens, LAMBDA n : n <= MaxFrame)) |->
               LET ks == SelectSeq([k \in 1 .. Len(Lens) |-> k], LAMBDA k : Lens[k] <= MaxFrame)
               IN PayloadAt(ks[j])]

-----------------------------------------------------------------------------
VARIABLES
  lo, hi,       \* v.buffer is Stream[lo+1 .. hi]; hi is also the bytes read so far
  frameLength,  \* v.frameLength: 0 means no header is pending
  out           \* payload positions handed to ctx.HandleRead, in order

vars == <<lo, hi, frameLength, out>>

TypeOK ==
  /\ lo \in 0 .. Len(Stream) /\ hi \in lo .. Len(Stream)
  /\ frameLength \in Nat
  /\ out \in Seq(0 .. Len(Stream))

Buf(st) == SubSeq(Stream, st.lo + 1, st.hi)

(* The deferred recover: frameLength = 0, buffer = nil.                    *)
Recover(st) == [st EXCEPT !.fl = 0, !.lo = st.hi]

(* Hand on the payload of fl bytes at the front of the buffer.  data[0] is *)
(* read, and data[1] only when data[0] is 0xF8 (the && short-circuits): an *)
(* empty payload, or a one-byte one starting with 0xF8, panics and         *)
(* readAndDeal recovers.  proto.Unmarshal rejects any other one-byte       *)
(* payload (a field tag without its value): it is consumed, not handed on. *)
HandOnPanics(st, fl) == fl = 0 \/ (fl = 1 /\ Buf(st)[1] = 248)

HandOn(st, fl) ==
  CASE HandOnPanics(st, fl) -> Recover(st)
    [] fl = 1               -> [st EXCEPT !.lo = st.lo + 1]
    [] OTHER                -> [st EXCEPT !.lo = st.lo + fl, !.out = Append(st.out, st.lo)]

(* The test on a parsed header: incomplete, or above the ceiling.          *)
HeaderRejected(d, st) == (d.num = 0 /\ Len(Buf(st)) < 5) \/ d.val > MaxFrame

(* The loop of readAndDeal while the buffer holds more than one frame: hand *)
(* on a frame, then parse the next header (rejected: frameLength = 0 and   *)
(* return), then test the rest.                                            *)
RECURSIVE DealLoop(_)
DealLoop(st) ==
  IF Len(Buf(st)) > st.fl
  THEN LET st1 == HandOn(st, st.fl)
       IN IF HandOnPanics(st, st.fl) THEN st1
          ELSE LET d == Uvarint32(Buf(st1))
               IN IF HeaderRejected(d, st1) THEN [st1 EXCEPT !.fl = 0]
                  ELSE IF d.num < 0 THEN Recover(st1)
                  ELSE DealLoop([st1 EXCEPT !.fl = d.val, !.lo = st1.lo + d.num])
  ELSE IF Len(Buf(st)) = st.fl THEN [HandOn(st, st.fl) EXCEPT !.fl = 0]
  ELSE st

(* Mutant: v.frameLength not consulted, a header is parsed on every read. *)
ReadAndDealReparse(st) ==
  LET d == Uvarint32(Buf(st))
  IN IF HeaderRejected(d, st) THEN [st EXCEPT !.fl = 0]
     ELSE IF d.num < 0 THEN Recover(st)
     ELSE DealLoop([st EXCEPT !.fl = d.val, !.lo = st.lo + d.num])

(* readAndDeal: parse a header unless one is pending, then hand on a frame *)
(* that fills the buffer exactly, or loop over several, or wait for more.  *)
ReadAndDeal(st) ==
  LET d == Uvarint32(Buf(st))
      st1 == [st EXCEPT !.fl = d.val, !.lo = st.lo + d.num]
  IN IF st.fl # 0 THEN DealLoop(st)
     ELSE IF HeaderRejected(d, st) THEN [st EXCEPT !.fl = 0]
     ELSE IF d.num < 0 THEN Recover(st)
     ELSE DealLoop(st1)

(* HandleRead with scheme 0: the read of n bytes is appended to the buffer *)
(* and readAndDeal runs.                                                   *)
HandleRead(n) ==
  /\ hi + n <= Len(Stream)
  /\ LET st == ReadAndDeal([lo |-> lo, hi |-> hi + n, fl |-> frameLength, out |-> out])
     IN /\ lo' = st.lo /\ hi' = st.hi
        /\ frameLength' = st.fl /\ out' = st.out

Init == lo = 0 /\ hi = 0 /\ frameLength = 0 /\ out = <<>>

Next == \E n \in 1 .. Len(Stream) : HandleRead(n)

Spec == Init /\ [][Next]_vars

-----------------------------------------------------------------------------
(* Spec sections 4.1 and 8: whatever the split of the stream into reads,   *)
(* the frames handed on are a prefix of the sender's frames, in order, and *)
(* once the whole stream has been read all of them have been handed on     *)
(* (frames above the ceiling dropped without disturbing later ones).       *)
FramesInOrder ==
  /\ IsPrefix(out, Expected)
  /\ hi = Len(Stream) => out = Expected
====
