CONSTANTS
  Runs = {r, s}
  Commands = {"measure", "export"}
  Checkpointing = {"measure"}
  Exporting = {"export"}
  MaxItems <- MCMaxItems
  MaxPowerLosses = 0
  Apps = {p, q}
  Steps <- MCSteps
  Texts = {"unkeyed", "broken"}
  Nil = Nil
  MaxSaves = 0
  MaxLate = 0
  Threads = {t, u}
  MaxLogs = 2
  MaxEvents = 2
  Codes = {c, d}
  NoCode = NoCode
  MaxCallbacks = 3
SPECIFICATION ClientSpec
CHECK_DEADLOCK FALSE
PROPERTY
  ExistingResultIsKept
