SPECIFICATION Spec
CONSTANTS
  Endpoints = {e1}
  Kinds <- MCTwoKinds
  Personal <- MCDownload
  Withheld = {}
  EndpointKind = "endpoint"
  Limit = 2
  Threshold = 0
  MaxXid = 3
  MaxSeq = 3
  MaxFails = 1
INVARIANTS
  TypeOK
  CursorBehindHorizon
  NothingLost
  IInv
  BacklogBounded
PROPERTIES
  FeedSpec
CHECK_DEADLOCK FALSE
