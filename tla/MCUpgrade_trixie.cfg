SPECIFICATION Spec
CONSTANTS
  r1 = r1
  r2 = r2
  d1 = d1
  d2 = d2
  Run <- OneRun
  Third = {t1}
  Dir <- MCDir
  DirOf <- OneDirOf
  None = None
INVARIANTS
  TrixieOnly
CHECK_DEADLOCK FALSE
