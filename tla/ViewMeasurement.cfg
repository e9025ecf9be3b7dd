\* Two views shared by models, both measured at a time, two cancellations,
\* one of them used by others meanwhile.
CONSTANTS
  NumViews = 2
  NumModels = 3
  DependsOn <- SharedView
  Incomplete <- IncompleteModels
  MaxConcurrency = 2
  MaxCancels = 2
  MaxDisturbed = 1
SPECIFICATION FairSpec
INVARIANTS
  LeftoverFlagged
  RemovedIsGone
  CompletedModelIsClean
  ReportedWhenFinal
  CleanupUndisturbed
PROPERTIES
  ForeignDataKept
  Terminates
