SPECIFICATION Spec
CONSTANTS
  c1 = c1
  c2 = c2
  c3 = c3
  A = A
  B = B
  C = C
  NoConn = NoConn
  NoAgent = NoAgent
  Conn = {c2}
  Agent = {A, B, C}
  Pattern <- Patterns
  Scripts <- BusSendScripts
CHECK_DEADLOCK FALSE
INVARIANTS EveryFrameIsRead
