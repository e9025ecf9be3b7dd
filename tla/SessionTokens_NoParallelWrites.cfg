\* What auth.py says of its locks.
CONSTANTS
  Sessions = {1, 2}
  Callers = {a, b, c}
  SessionOf <- TwoProcesses
  a = a
  b = b
  c = c
  Nobody = Nobody
  MaxCalls = 1
  MaxCancels = 1
  MaxCrashes = 0
SPECIFICATION Spec
INVARIANT NoParallelWrites
