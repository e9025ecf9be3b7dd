\* One call, and three runs on the view.
CONSTANTS
  Callers = {a}
  Others = others
  MaxRuns = 3
SPECIFICATION Spec
INVARIANTS
  ResultIsRecent
  ResultIsTruthful
  OwnRunIsFound
PROPERTY
  FollowsOneRun
