SPECIFICATION OpenSpec
CONSTANTS
  i1 = i1
  i2 = i2
  a1 = a1
  a2 = a2
  a3 = a3
  All = All
  Id = {i1, i2}
  Agent = {a1, a2, a3}
  Target <- OneForA1
INVARIANTS HandoffInv ClaimedOnce WorkIsAddressed WorkIsOwn
