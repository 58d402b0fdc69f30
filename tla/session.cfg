CONSTANTS
  SegmentLength = 6
  ChecksumLength = 4
  MaxKeyLength = 2
  r1 = "r1"
  r2 = "r2"
  RawIds = {"r1", "r2"}
  None = None
  Launches <- MCLaunches
  Registered <- MCRegistered
  Licences <- MCLicences
  Typed <- MCTyped
  Responses <- MCResponses
SPECIFICATION Spec
INVARIANTS
  SessionTypeOK
  OwnLicenceOnly
  ErrorsDocumented
  SlipsCaught
  IdFromFirstSource
PROPERTIES
  ActivateHitsOwnKey
  FileFollowsAnswers
CHECK_DEADLOCK FALSE
