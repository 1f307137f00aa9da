SPECIFICATION Spec
CONSTANTS
  c1 = c1
  c2 = c2
  c3 = c3
  k1 = k1
  k2 = k2
  Call = {c1, c2, c3}
  Key = {k1, k2}
  KeyOf <- SharedKeyOf
  Worker = {w1}
  Loop = loop
  RequestQueueSize = 1
  RequestTimeout = TRUE
  NoCall = NoCall
  NoKey = NoKey
INVARIANTS TypeOK InflightExact ClosedAfterDrain NoReplyLost CompletedLeavesNoEntry
PROPERTIES ReachableByCancel
