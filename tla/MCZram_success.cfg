\* The answer of a remediation against what it leaves.
CONSTANTS
  Service = {"zramswap"}
  Run = {"r1"}
  Preset = FALSE
SPECIFICATION Spec
INVARIANT EnforcesGenerator
