CONSTANTS
  NumViews = 2
  NumModels = 1
  DependsOn <- TwoViews
  Incomplete <- NoModel
  MaxConcurrency = 2
  MaxCancels = 1
  MaxDisturbed = 0
SPECIFICATION Spec
INVARIANTS
  CleanupStillFinishes
