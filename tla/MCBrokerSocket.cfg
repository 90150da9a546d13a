CONSTANTS
  Brokers = {b1, b2}
  Clients = {c1}
  Backlog = 1
  Probe = Probe
  NoOne = NoOne
SPECIFICATION SocketFairSpec
INVARIANTS SocketTypeOK ReachableIsSafe SettledReachable SocketInv
PROPERTIES DisplacedStays LaunchConverges
CHECK_DEADLOCK FALSE
