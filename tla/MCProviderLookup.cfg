SPECIFICATION DoctorSpec
CONSTANTS
  Cap = 1
  Items <- MCItems
  MaxItems = 2
  Entries <- MCEntries
  MaxEntries = 3
  Payloads <- MCPayloads
INVARIANTS
  GroupKilled
  CompleteOutput
  BestItemReleased
  PickedEntryExists
  BundleFailsClosed
PROPERTIES
  CommandEnds
CHECK_DEADLOCK FALSE
