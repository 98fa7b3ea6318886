CONSTANTS
  t1 = t1
  t2 = t2
  q1 = q1
  q2 = q2
  TapFrames <- MCTapFrames
  PeerFrames <- MCPeerFrames
  Encrypted = TRUE
  Refused <- MCRefused
SPECIFICATION Spec
INVARIANT SentAsEncrypted
CHECK_DEADLOCK FALSE
