CONSTANTS
  Brokers = {b1}
  Clients = {c1}
  Backlog = 1
  Probe = Probe
  NoOne = NoOne
  ConnectRetries = 2
  OptIn = {c1}
  StatusClients = {}
  DemoHosts = {b1, c1}
SPECIFICATION IPCFairSpec
PROPERTY EveryExchangeBounded
CHECK_DEADLOCK FALSE
