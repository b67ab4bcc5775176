CONSTANTS
  Clients = {c1, c2}
  Hosts = {h1, h2, h3}
  Bad = {h3}
  Aliases = {h2}
  Udp = Udp
  Tcp = {w1, w2}
  MaxWorkers = 2
  Retries = 2
  MaxChain = 1
  LastId = 3
  MaxAsks = 1
  None = None
SPECIFICATION Spec
INVARIANTS
  ResolverOK WorkersCounted NobodyForgotten LineMoves AtMostOneResponse KeepsRunning
CHECK_DEADLOCK FALSE
SYMMETRY Symmetry
