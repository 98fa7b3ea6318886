----------------------------- MODULE MCDataPath -----------------------------
(* One codec with a cipher configured, two frames from the TAP device and  *)
(* two from the peer: enough for every order of the two goroutines' steps. *)
(* EncryptMsg refuses t2, so a frame sent in the clear on that error path *)
(* is told apart from a peer's frame sent in the clear by the race.       *)
EXTENDS DataPath

CONSTANTS t1, t2, q1, q2

MCTapFrames  == {t1, t2}
MCPeerFrames == {q1, q2}
MCRefused    == {t2}
=============================================================================
