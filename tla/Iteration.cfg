SPECIFICATION Spec
CONSTANTS
  N = 4
  Key <- Keys1toN
  Probe <- Probes
  MaxSeps = 3
INVARIANTS
  TypeOK
  FrontInOrder
  BackInOrder
  EveryItemOnce
  HintExact
