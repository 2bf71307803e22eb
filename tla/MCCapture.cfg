SPECIFICATION SpecAll
CONSTANTS
  Mic = mic
  System = system
  None = none
  MaxSample = 2
  MaxShared = 2
  MaxBatch = 2
  MaxEpoch = 2
  Backlog = 2
  MaxFaults = 2
  MaxRuns = 4
INVARIANTS
  SealedIsAccounted
  EpochsAgree
PROPERTIES
  RecordingEnds
  TranscriptSeals
CHECK_DEADLOCK FALSE
