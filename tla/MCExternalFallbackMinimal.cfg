CONSTANTS
  Logins = {l1}
  MaxInvocations = 2
  ProviderCalls = 2
  MaxSessions = 2
SPECIFICATION FallbackSpec
PROPERTY DocumentedConfigWorks
CHECK_DEADLOCK FALSE
