CONSTANTS
  c1 = c1 c2 = c2 c3 = c3 c4 = c4 c5 = c5 c6 = c6 c7 = c7 l1 = l1 l2 = l2 l3 = l3 l4 = l4 l5 = l5 l6 = l6 d1 = d1 d2 = d2 d3 = d3 h1 = h1 h2 = h2
  Clients = {c1, c2, c3, c4, c5, c6, c7}
  SourceOf <- EverySource
  Listeners = {l1, l2, l3, l4, l5, l6}
  ListenerOf <- EveryListener
  MaxClients <- OneEach
  Downloads = {d1, d2}
  Hosts = {h1, h2}
  NoClient = NoClient
  NoDownload = NoDownload
  Commands = {"download","connect","intercept","page","file","close","icap"}
  Requests <- EveryWay
  MaxServers = 1
  MaxPending = 2
  MaxCopies = 1
  MaxBatch = 2
SPECIFICATION Spec
INVARIANTS
  OutputIsWatched NoIdleWatch NoStuckClient NoDataAfterEnd
  SlotAccounting AtMostMaxClients NoStuckFirstDownload BackPressure
  AskedOnce
SYMMETRY Symmetry
