SPECIFICATION SpecAll
CONSTANTS
  N = 2
  Jobs = {j1, j2}
  NoJob = NoJob
  Outcomes = {"text"}
  Losses = {1}
  Wishes = {"insight"}
  MaxAttempts = 2
  Overlap = 0
  Lookback = 2
  MaxSeq = 3
  MaxStops = 2
  Segments = {s1}
  Speakers = {v1}
  NoSpeaker = NoSpeaker
  GapPlaces = {g1}
  Windows <- WholeAudio
  Peers = {p1}
  Artifacts = {x, y}
  Kinds = {"insight", "event_report"}
  Copies = {c1}
  NoCopy = NoCopy
  Forms = {"cited"}
  Verdicts = {"approved"}
  Visibilities = {"hidden"}
  MaxInput = 1
  MaxRevision = 2
INVARIANTS
  InsightsMissNothing
  CancelIsFinal
  StopIntentsServed
  PublicIsCurrent
CONSTRAINT OneKind
CHECK_DEADLOCK FALSE
