CONSTANTS
  l1 = l1
  Clients = {}
  SourceOf <- NoSource
  Listeners = {l1}
  ListenerOf <- OneListener
  MaxClients <- OneEach
  Downloads = {}
  Hosts = {h1}
  NoClient = NoClient
  NoDownload = NoDownload
  PipeSize = 1
  ControlSize = 2
  MaxSignals = 2
  MaxRequests = 2
SPECIFICATION Spec
INVARIANTS
  SupervisorOK FailsOnly ListeningAgrees
CHECK_DEADLOCK FALSE
PROPERTIES
  ProxyEnds RedirectorFollows SoftStopEnds
