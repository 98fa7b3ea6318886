CONSTANTS
  Heartbeat = 0
  Offline = 4
  Verdicts = {"ackOk", "ackFail", "ackBad"}
  MaxStarts = 2
  Static = TRUE
  MaxReaders = 2
  MaxFaults = 1
SPECIFICATION Spec
PROPERTIES SessionRecovers
CHECK_DEADLOCK FALSE
