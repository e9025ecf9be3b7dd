\* Three items, two at a time, two cancellations by the caller.
CONSTANTS
  N = 3
  MaxConcurrency = 2
  MaxCancels = 2
SPECIFICATION FairSpec
INVARIANTS
  ConcurrencyBound
  CountersInStep
  ReturnIsComplete
  NoOrphans
PROPERTIES
  NoWorkAfterFailure
  KeepsContract
  StopEnds
  Terminates
