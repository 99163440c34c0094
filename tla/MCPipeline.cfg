SPECIFICATION Spec
CONSTANTS
  Whole = 100
  None = None
  Products <- MCProducts
  Rules <- MCRules
  Settings <- MCSettings
  MarketOutputs <- MCMarketOutputs
  InventoryOutputs <- MCInventoryOutputs
  DemandOutputs <- MCDemandOutputs
  StrategyOutputs <- MCStrategyOutputs
  ComplianceOutputs <- MCComplianceOutputs
  MaxEdits = 1
  MaxFailures = 1
INVARIANT TypeOK
INVARIANT DoubtIsReviewed
INVARIANT RunEndsInOrder
INVARIANT UnadvisedMoveIsBounded
PROPERTY OwnFloorHolds
INVARIANT StatusMatchesStorefront
PROPERTY RunIsAnswered
CHECK_DEADLOCK FALSE
