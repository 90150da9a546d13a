SPECIFICATION SessionSpec
CONSTANTS
  PipeCap = 2
  Modes = {"auto", "disabled"}
  N = 23
  G = 5
  K = 3
  HashX <- MCHashX
  HashU <- MCHashU
  Clients = {c1}
  Urls = {1, 2}
  Pins = {1, 2}
  Exponents = {3}
  SendRetries = 1
  MaxSends = 3
  MaxUsers = 2
INVARIANTS
  SessionAgreed
  RightPinAgrees
  InStep
  OneHelper
PROPERTIES
  DaemonAnswers
CHECK_DEADLOCK FALSE
