SPECIFICATION JobsSpec
CONSTANTS
  Endpoints = {e1}
  Kinds <- MCTwoKinds
  Personal <- MCDownload
  Withheld = {}
  EndpointKind = "endpoint"
  Limit = 1
  Threshold = 0
  MaxXid = 3
  MaxSeq = 2
  MaxFails = 1
  People = {ann}
  Blank = Blank
  NoAddress = NoAddress
  MailGrants = {g1}
  OwnerOf <- SoleOwner
  MaxMails = 2
  MailAttempts = 2
  DrainLimit = 1
  MaxCrashes = 1
PROPERTIES
  EventuallyTaken
  MailSettles
CHECK_DEADLOCK FALSE
