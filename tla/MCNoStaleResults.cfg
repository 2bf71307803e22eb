SPECIFICATION AgentSpec
CONSTANTS
  MaxMeeting = 2
  MaxFinal = 1
  MaxAccidents = 1
INVARIANTS
  NoStaleResults
CHECK_DEADLOCK FALSE
