CONSTANTS
  Procs = {p1, p2}
  Names = {n1, n2}
  Keys = {k1, k2}
  None = None
  Garbled = Garbled
  Keychains = {TRUE, FALSE}
SPECIFICATION ConfigSpec
INVARIANTS ConfigTypeOK SessionKeepsAge SavedSessionStays ConfigInv
PROPERTY LoggedOutStaysOut
SYMMETRY Symmetry
