SPECIFICATION BridgeFairSpec
CONSTANTS
  Requests = {r1, r2}
  MaxConns = 2
  Bodies <- MCBodies
  Commands = {p1}
  SavingModes = {"native"}
CHECK_DEADLOCK FALSE
INVARIANTS OwnAnswer PendingOnActive 
PROPERTIES OnlyActiveDetaches RequestAnswered
