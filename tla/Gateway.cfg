SPECIFICATION Spec
CONSTANTS
  k1 = k1
  Proc = {p1, p2, p3}
  Filed = {p1, p2}
  Task = {k1}
  Requests <- MCRequests
  Submissions <- MCSubmissions
  Torn = Torn
  None = None
  MaxCalls = 2
  MaxSubmits = 1
SYMMETRY ProcSymmetry
CHECK_DEADLOCK FALSE
INVARIANT TypeOK
INVARIANT ReplayKeepsCallOrder
INVARIANT BoardSettles
INVARIANT LearningsSurvive
