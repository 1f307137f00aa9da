SPECIFICATION Spec
CONSTANTS
  c1 = c1
  c2 = c2
  Call = {c1, c2}
  Outsider = Outsider
  Argument <- MCArgument
  Response <- MCResponse
  Setting <- MCSetting
  Tag = {g1}
  g1 = g1
  MaxRetries = 2
  Before = {1}
INVARIANTS ImagesTypeOK RequestFollowsArguments FilesKept ReplyAccounts
PROPERTIES EveryCallEnds
CHECK_DEADLOCK FALSE
