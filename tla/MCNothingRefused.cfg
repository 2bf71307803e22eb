SPECIFICATION Spec
CONSTANTS
  Mic = mic
  System = system
  None = none
  MaxSample = 3
  MaxShared = 2
  MaxBatch = 2
  MaxEpoch = 2
  Backlog = 2
  MaxFaults = 1
  MaxRuns = 3
INVARIANT NothingRefused
CHECK_DEADLOCK FALSE
