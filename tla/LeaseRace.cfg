SPECIFICATION Spec
CONSTANTS
  None = None
  Client = {c1, c2}
  Task = {t1}
  Thread = {r1, r2}
  Target = {}
  MaxEvents = 2
  MaxCrashes = 0
  PostedSeq = {}
PROPERTY LeaseNeverStolen
