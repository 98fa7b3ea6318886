CONSTANTS
  Lens <- LensOversize
  MaxFrame = 129
SPECIFICATION MCSpec
INVARIANT FramesInOrder
CHECK_DEADLOCK FALSE
