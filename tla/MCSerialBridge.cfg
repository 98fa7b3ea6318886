CONSTANTS
  Ports = {c1}
  Saved = {}
  None = None
  MaxConn = 2
  MaxOps = 2
  MaxFaults = 1
SPECIFICATION Spec
PROPERTIES PairedPortsHeld
CHECK_DEADLOCK FALSE
