CONSTANTS
  Procs = {p1}
  Names = {n1}
  Keys = {k1}
  None = None
  Garbled = Garbled
  Keychains = {TRUE, FALSE}
SPECIFICATION ConfigSpec
PROPERTY MetadataKeepsSession
