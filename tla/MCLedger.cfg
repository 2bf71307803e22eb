SPECIFICATION SpecAll
CONSTANTS
  Tracks = {t1, t2}
  Segments = {s1, s2}
  Gaps = {g1}
  Runs = {1, 2, 3}
  NoRun = NoRun
  Statuses = {"success", "failed"}
  MaxSeq = 2
  MaxRevision = 3
  MaxSample = 1
  MaxHost = 3
  MaxLoss = 1
SYMMETRY LedgerSymmetry
INVARIANTS
  CaptureManifestExact
  ResultsTraceable
  SealedTranscriptWhole
  IntegrityFlagHonest
  SettledRunsFrozen
  OutboxesSettle
PROPERTIES
  ImplementsArchive
  NothingLostOnTheWay
CHECK_DEADLOCK FALSE
