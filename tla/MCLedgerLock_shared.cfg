SPECIFICATION WithSpec
CONSTANTS
  h1 = h1
  h2 = h2
  h3 = h3
  a1 = a1
  a2 = a2
  a3 = a3
  r1 = r1
  Handle = {h1, h2, h3}
  Agent = {a1, a2}
  Resource = {r1}
  AgentOf <- SharedAgent
  ResourceOf <- SameResource
  TtlOf <- UnitTtl
  Timeout = 1
  MaxClock = 3
INVARIANTS AgentsExclude
