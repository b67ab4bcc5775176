CONSTANTS
  Clients = {c1, c2, c3}
  Workers = {w1, w2, w3}
  Low = 1
  High = 1
  NoJob = NoJob
  IncreaseFrequency = 1
  DecreaseFrequency = 2
  MaxPending = 1
  MaxControls = 1
SPECIFICATION Spec
INVARIANTS
  PoolTables AlmostMaximum
PROPERTIES
  AnsweredOnce
CHECK_DEADLOCK FALSE
SYMMETRY Symmetry
