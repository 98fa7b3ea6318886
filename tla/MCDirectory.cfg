CONSTANTS
  Peers = {p1, p2}
  MaxReq = 2
  MaxChanges = 2
  MaxFaults = 1
  Reorder = FALSE
  Pages = 2
  MaxPolls = 2
  MaxLinkReq = 2
  MaxSec = 1
SPECIFICATION Spec
SYMMETRY PeerSymmetry
INVARIANT DirectoryCurrent
CHECK_DEADLOCK FALSE
