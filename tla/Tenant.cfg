\* Two callers and one view; two batches and three tables, with one change by
\* others; two models, three views and a table, resolved two at a time.
CONSTANTS
  Callers = {p, q}
  Views = {sales}
  Years <- MCYears
  StringColumns = {"fiscal"}
  OtherColumns = {"amount"}
  NoColumn = "none"
  Existing <- MCExisting
  MaxAttempts = 2
  Batches = {b, c}
  Tables = {"orders", "counted", "closed", "missing"}
  Known = {"orders", "counted", "closed"}
  Unsupported = {"closed"}
  CountOnly = {"counted"}
  Selections = {{"orders"}, {"counted", "missing"}, {"closed"}}
  MaxChanges = 1
  Models = {"sales", "stock"}
  ViewEntities = {"v1", "v2", "v3"}
  OtherEntities = {"t1"}
  Lineages <- MCLineages
  Selected <- MCSelected
  MaxResolving = 2
SPECIFICATION TenantSpec
CHECK_DEADLOCK FALSE
INVARIANTS
  ResultDescribesView
  ExistingIsKept
  StatusDescribesTable
  KeptOnceBottomUp
  NoResolutionOutlives
PROPERTY
  UnseenStatisticsAreKept
