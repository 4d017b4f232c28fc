SPECIFICATION Spec
CONSTANTS
  N = 2
  Key <- Keys1toN
  Probe <- Probes
  MaxSeps = 1
INVARIANTS
  RangeMatchesItems
