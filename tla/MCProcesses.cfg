SPECIFICATION SpecAll
CONSTANTS
  Calls = {a, b}
  Closers = {k, l}
  Nobody = Nobody
  Capacity = 2
  CommandLimit = 2
  Children = 2
  MaxStarts = 3
  MaxStops = 1
  MaxFaults = 1
  Texts = {t1, t2}
  PageSize = 1
  FlushLimit = 1
  Allowance = 1
  MaxRuns = 3
  MaxActions = 1
  MaxCorrections = 0
  MaxLosses = 1
INVARIANTS
  VerdictsTruthful
  ShutdownMeansReleased
  MeetingHasPriority
  NodeKeepsCount
PROPERTIES
  EveryoneAnswered
  ShutdownContains
  StoppedMeetingEnds
  EveryTextSettles
CHECK_DEADLOCK FALSE
