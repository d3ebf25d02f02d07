SPECIFICATION Spec
CONSTANTS
  None = None
  Client = {c1}
  Task = {t1, t2}
  Thread = {r1, r2}
  Target = {"assigned", "requeued", "cancelled"}
  MaxEvents = 2
  MaxCrashes = 1
  PostedSeq = {0}
SYMMETRY Symmetry
INVARIANT TypeOK
INVARIANT LeasesAnchored
INVARIANT SoloTransitionSyncs
INVARIANT SoloEventReplaysLast
PROPERTY SoloTransitionsLegal
PROPERTY SoloLeaseStepsLegal
