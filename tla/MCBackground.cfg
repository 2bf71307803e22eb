SPECIFICATION SpecAll
CONSTANTS
  Publics = {p1, p2}
  NoArtifact = NoArtifact
  NoGrant = NoGrant
  GrantIds = {g1}
  PageLimit = 1
  MaxChange = 3
  MaxEdition = 2
  MaxFaults = 1
  MaxSegment = 2
  Page = 1
  MaxFailed = 2
  MaxSeq = 4
  MaxRevision = 1
  MaxGeneration = 1
  MaxAccidents = 0
  Processes = {1, 2}
  Models = 2
  Files = 2
  MaxAttempt = 2
  MaxFailures = 2
INVARIANTS
  MirrorFaithful
  MarkedIsSound
PROPERTIES
  MirrorCatchesUp
  ModelsArrive
  DropEnds
  LabelsWelcome
  ShutdownReleases
  LabelsSettle
CHECK_DEADLOCK FALSE
