CONSTANTS
  Logins = {l1, l2}
  MaxInvocations = 1
  ProviderCalls = 2
  MaxSessions = 2
SPECIFICATION FallbackSpec
INVARIANT WithinSessionLimit
SYMMETRY Symmetry
CHECK_DEADLOCK FALSE
