SPECIFICATION FairSpec
CONSTANTS
  c1 = c1
  c2 = c2
  c3 = c3
  A = A
  B = B
  C = C
  NoConn = NoConn
  NoAgent = NoAgent
  Conn = {c1, c2, c3}
  Agent = {A, B, C}
  Pattern <- Patterns
  Scripts <- MixedScripts
CHECK_DEADLOCK FALSE
INVARIANTS BusInv NoDeadClients NoOrphanSubscriptions AckedIsStored OnlyWhatWasAsked
PROPERTIES PublishReaches SuccessorSurvives ClosedIsForgotten
