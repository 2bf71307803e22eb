SPECIFICATION Spec
CONSTANTS
  N = 2
  Jobs = {j1, j2}
  NoJob = NoJob
  Outcomes = {"text"}
  Losses = {1}
  Wishes = {"insight"}
  MaxAttempts = 2
  Overlap = 0
  Lookback = 2
  MaxSeq = 3
  MaxStops = 2
INVARIANT OccupationReleased
