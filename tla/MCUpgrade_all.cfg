SPECIFICATION Spec
CONSTANTS
  r1 = r1
  r2 = r2
  d1 = d1
  d2 = d2
  Run <- MCRun
  Third = {t1}
  Dir <- MCDir
  DirOf <- MCDirOf
  None = None
INVARIANTS
  TypeOK
  
  OriginalIsKept
  UnpackedWithConsent
  
\* The runs end.
CHECK_DEADLOCK FALSE
