CONSTANTS
  N = 2
  MaxConcurrency = 1
  MaxCancels = 1
SPECIFICATION RunsSpec
INVARIANTS
  CancellationNamesRun
