SPECIFICATION Spec
CONSTANTS
  None = None
  Client = {c1, c2}
  Task = {t1}
  cap = cap
  Manifest <- AnyTrust
  Requested <- NeedsCap
  Rank <- SomeRank
  NewItem <- OwnedItem
  MaxAge = 1
  Threshold = {0}
  BeatStatus = {"active"}
  BeatAge = {0, 1}
SYMMETRY Symmetry
INVARIANT TypeOK
INVARIANT StoreIntegrity
INVARIANT ProjectionInSync
INVARIANT LedgerAgrees
PROPERTY ScanStrandsNothing
PROPERTY ScanReassignsToLiveClients
PROPERTY TerminalIsFinal
PROPERTY OrphanedWorkFrozen
PROPERTY LeaseRefinement
