SPECIFICATION QueueSpec
CONSTANTS
  None = None
  Client = {c1}
  Task = {t1, t2}
  cap = cap
  Manifest <- CapableOnly
  Requested <- NeedsNothing
  Rank <- SomeRank
  NewItem <- QueuedItem
  MaxAge = 1
  Threshold = {0}
  BeatStatus = {"active", "disconnected"}
  BeatAge = {0}
PROPERTY AbandonedWorkRecovered
PROPERTY HeadOfQueueScheduled
