SPECIFICATION Spec
CONSTANTS
  None = None
  Client = {c1, c2}
  Task = {t1}
  cap = cap
  Manifest <- CapableOnly
  Requested <- NeedsNothing
  Rank <- SomeRank
  NewItem <- QueuedItem
  MaxAge = 1
  Threshold = {0}
  BeatStatus = {"active", "disconnected"}
  BeatAge = {0}
PROPERTY ScanCoversEverySilentClient
