SPECIFICATION Spec
CONSTANTS
  MaxBytes = 3
  Writer = {w1, w2}
CHECK_DEADLOCK FALSE
INVARIANTS StdioTypeOK FramesDelivered WholeFrames LastFrame
PROPERTIES LoopEnds ReaderEnds
