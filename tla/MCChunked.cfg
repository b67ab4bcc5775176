CONSTANTS
  Part = {"http"}
  ReadEvents = {r1}
  WriteEvents = {w1}
  Socks = {s1, s2}
  Fds = {f1, f2}
  MaxReady = 1
  NoFd = NoFd
  NoSock = NoSock
  NoEvent = NoEvent
  Keys = {k1, k2, k3}
  Timeout = 2
  Batch = 2
  MaxTime = 5
  Texts <- Messages
  MaxMessages = 2
  MaxInterrupts = 1
  PipeSize = 2
  Scripts <- InChunks
  MaxBuffer = 6
  Clients = {c1, c2}
  Workers = {v1, v2}
  Low = 1
  High = 1
  NoJob = NoJob
  IncreaseFrequency = 1
  DecreaseFrequency = 2
  MaxPending = 1
  MaxControls = 0
SPECIFICATION Spec
INVARIANTS
  BodyGoesThrough
CHECK_DEADLOCK FALSE
