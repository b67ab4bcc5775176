CONSTANTS
  Clients = {c1, c2}
  Workers = {w1, w2, w3}
  Low = 1
  High = 1
  NoJob = NoJob
  IncreaseFrequency = 1
  DecreaseFrequency = 2
  MaxPending = 1
  MaxControls = 0
SPECIFICATION Spec
INVARIANTS
  AtMostMaximum
CHECK_DEADLOCK FALSE
SYMMETRY Symmetry
