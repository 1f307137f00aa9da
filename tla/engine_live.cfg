SPECIFICATION Spec
CONSTANTS
  c1 = c1
  c2 = c2
  c3 = c3
  k1 = k1
  k2 = k2
  Call = {c1, c2}
  Key = {k1}
  KeyOf <- NullKeyOf
  Worker = {w1}
  Loop = loop
  RequestQueueSize = 1
  RequestTimeout = FALSE
  NoCall = NoCall
  NoKey = NoKey
PROPERTIES RunReturns StopHeeded InterruptFrees
