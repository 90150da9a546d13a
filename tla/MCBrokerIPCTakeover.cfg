CONSTANTS
  Brokers = {b1, b2}
  Clients = {c1}
  Backlog = 1
  Probe = Probe
  NoOne = NoOne
  ConnectRetries = 1
  OptIn = {}
  StatusClients = {}
  DemoHosts = {b1}
SPECIFICATION IPCFairSpec
INVARIANTS IPCTypeOK OneHostPerRequest
PROPERTIES ExchangeBounded EveryCommandEnds
CHECK_DEADLOCK FALSE
