CONSTANTS
  Ports = {c1}
  Saved = {}
  None = None
  MaxConn = 2
  MaxOps = 2
  MaxFaults = 1
SPECIFICATION Spec
INVARIANT OrphanFree
CHECK_DEADLOCK FALSE
