CONSTANTS
  Lens <- LensWellFormed
  MaxFrame = 129
SPECIFICATION MCSpec
INVARIANTS FramesInOrder FormRoundTrip CipherRoundTrip
CHECK_DEADLOCK FALSE
