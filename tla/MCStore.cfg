SPECIFICATION SpecAll
CONSTANTS
  Segments = {1, 2}
  Translations = {x, y}
  OneTranslation = x
  NoTranslation = NoTranslation
  Targets = {en}
  TargetChoices <- OneTarget
  Outcomes = {"success"}
  Lengths = {2}
  MaxContext = 1
  MaxRevision = 2
  MaxRequest = 1
  MaxAttempt = 1
  MaxEpoch = 1
  Slots = 1
  GrantLimit = 1
  MaxGateway = 2
  MaxGrant = 1
  MaxConn = 2
  Pieces = 2
  MaxMeeting = 2
  MaxFinal = 1
  MaxAccidents = 1
INVARIANTS
  FreshTranslation
  CoveragePartitionsText
  DirectionFollowsAudio
  OwnershipExact
  ReadersBounded
  RevocationCuts
  MeetingsWhole
PROPERTIES
  FinalOnlyUndoneBySuccessor
CHECK_DEADLOCK FALSE
