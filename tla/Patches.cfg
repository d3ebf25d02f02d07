SPECIFICATION Spec
CONSTANTS
  f1 = f1
  f2 = f2
  f3 = f3
  pBoth = pBoth
  pLine = pLine
  pWrong = pWrong
  pEscape = pEscape
  Worker = {w1, w2}
  File = {f1, f2, f3}
  Outside = Outside
  Patch = {pBoth, pLine, pWrong, pEscape}
  Proposed = {pBoth, pWrong}
  Commanded = {pBoth, pLine, pEscape}
  Line = {"a", "b"}
  Content <- MCContent
  DiffOf <- MCDiffOf
  Declared <- MCDeclared
  InitialFile <- MCInitialFile
  Manifest = {f2}
  Scope <- MCScope
  SmallHunk <- MCSmallHunk
  Absent = Absent
  NoFit = NoFit
  Unknown = Unknown
  None = None
  MaxJobs = 2
  MaxFaults = 1
SYMMETRY Symmetry
CHECK_DEADLOCK FALSE
INVARIANT TypeOK
INVARIANT CommittedIntact
INVARIANT StatusHasRecord
PROPERTY WholePatches
INVARIANT HunksMeanWhatTheySay
