CONSTANTS
  Brokers = {b1}
  Clients = {c1, c2}
  Backlog = 1
  Probe = Probe
  NoOne = NoOne
  ConnectRetries = 2
  OptIn = {c1, c2}
  StatusClients = {c1, c2}
  DemoHosts = {}
SPECIFICATION IPCSpec
INVARIANTS CredentialOnlyIfApproved FallbackOnlyUndecided AskedAtMostOnce IPCInv
PROPERTY Promise
SYMMETRY Symmetry
CHECK_DEADLOCK FALSE
