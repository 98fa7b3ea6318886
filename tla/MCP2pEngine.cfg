CONSTANTS
  Peers = {p1}
  GroupMacs = {bc}
  None = None
  MaxSock = 2
  P2pTryCount = 2
  P2pRetryInterval = 1
  FailCeiling = 3
  PunchTimeout = 1
  LinkHeartbeat = 0
  Offline = 2
  MaxPingTry = 2
  MaxDup = 1
SPECIFICATION Spec
INVARIANTS TypeOK GroupMacsNeverLinked ProbeBudget
PROPERTIES FailureBacksOff PendingResolves SilentLinkEvicted
