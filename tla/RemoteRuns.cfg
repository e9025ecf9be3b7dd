\* Two items, one at a time, two cancellations: safety, termination.
CONSTANTS
  N = 2
  MaxConcurrency = 1
  MaxCancels = 2
SPECIFICATION RunsFairSpec
INVARIANTS
  ResultsAreTruthful
  LiveRunsAreKnown
PROPERTIES
  RunsTerminate
