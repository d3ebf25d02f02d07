SPECIFICATION Spec
CONSTANTS
  None = None
  Client = {c1}
  Task = {t1}
  Thread = {r1, r2}
  Target = {"assigned", "cancelled"}
  MaxEvents = 2
  MaxCrashes = 0
  PostedSeq = {}
PROPERTY TransitionsFailClosed
