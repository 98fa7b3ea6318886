CONSTANTS
  Heartbeat = 0
  Offline = 4
  Verdicts = {"ackOk"}
  MaxStarts = 2
  Static = TRUE
  MaxReaders = 2
  MaxFaults = 0
SPECIFICATION Spec
INVARIANT SingleStateCheck
CHECK_DEADLOCK FALSE
