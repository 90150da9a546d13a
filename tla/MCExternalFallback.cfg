CONSTANTS
  Logins = {l1, l2}
  MaxInvocations = 2
  ProviderCalls = 2
  MaxSessions = 3
SPECIFICATION FallbackSpec
INVARIANTS FallbackTypeOK SequentialLimit RefusedOnlyWhenSpent
SYMMETRY Symmetry
CHECK_DEADLOCK FALSE
