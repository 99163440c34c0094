SPECIFICATION Spec
CONSTANTS
  MaxRounds = 3
  MaxRetries = 2
  MaxCalls = 2
CHECK_DEADLOCK FALSE
INVARIANT TypeOK
INVARIANT EvidenceIsWhatTheModelSaw
PROPERTY AgentEnds
