SPECIFICATION PagesSpec
CONSTANTS
  Rec = {1, 2}
  QueueLimit = 1
  None = None
  MaxMutations = 2
  MaxEvents = 1
  DeskRec = {1, 2}
  DeskActs = 4
  Product = {1, 2}
  Narrow = {1}
  ShopPageSize = 1
  ShopActs = 5
  Org = {1, 2}
  Level = {0, 1}
  Contested = {1}
  Given <- MCGiven
  SettingsActs = 3
  Key = {1, 2}
  MaxChanges = 3
  MaxEntries = 4
  Filter <- MCFilter
  Limit = 1
  MaxInputs = 3
  MaxRecs = 4
  ExportPageSize = 1
  MaxRows = 3
  MaxDecisions = 2
INVARIANT PagesTypeOK
INVARIANT QuietQueueIsCurrent
INVARIANT DeskIsCoherent
 
INVARIANT SettingsHold
INVARIANT NothingIsSkipped
CHECK_DEADLOCK FALSE
