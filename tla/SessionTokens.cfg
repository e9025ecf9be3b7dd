\* Two processes, two callers in one of them, one call each.
CONSTANTS
  Sessions = {1, 2}
  Callers = {a, b, c}
  SessionOf <- TwoProcesses
  a = a
  b = b
  c = c
  Nobody = Nobody
  MaxCalls = 1
  MaxCancels = 1
  MaxCrashes = 1
SPECIFICATION FairSpec
INVARIANTS
  OneAtATime
PROPERTIES
  AuthenticatedIsUsable
  LogoutSticks
  CallsEnd
