CONSTANTS
  Peers = {p1}
  GroupMacs = {bc}
  None = None
  MaxSock = 3
  P2pTryCount = 2
  P2pRetryInterval = 1
  FailCeiling = 2
  PunchTimeout = 2
  LinkHeartbeat = 0
  Offline = 2
  MaxPingTry = 2
  MaxDup = 1
SPECIFICATION Spec
INVARIANT ActiveLinksLive
