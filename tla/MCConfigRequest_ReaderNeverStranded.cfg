CONSTANTS
  Callers = {c1, c2}
  Dsts = {d1}
  None = None
  MaxCalls = 2
  MaxFaults = 1
SPECIFICATION Spec
INVARIANT ReaderNeverStranded
CHECK_DEADLOCK FALSE
