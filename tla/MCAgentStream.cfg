SPECIFICATION StreamSpec
CONSTANTS
  Losable = {"MARKET", "STRATEGY"}
  Result = {"queued"}
  None = None
  MaxRuns = 2
  MaxChunk = 5
  MaxWire = 3
  MaxFaults = 1
INVARIANT StreamTypeOK
INVARIANT ScreenIsPrefix
PROPERTY EveryRunFinishes
PROPERTY ScreenSettles
CHECK_DEADLOCK FALSE
