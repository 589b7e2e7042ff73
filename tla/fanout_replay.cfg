SPECIFICATION Spec
CONSTANTS
  Endpoints = {e1}
  Kinds <- MCKinds
  Personal <- MCPersonal
  Withheld <- MCWithheld
  EndpointKind = "endpoint"
  Limit = 2
  Threshold = 0
  MaxXid = 3
  MaxSeq = 2
  MaxFails = 0
INVARIANTS
  NoHistoryPosted
CHECK_DEADLOCK FALSE
