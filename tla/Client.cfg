\* Two processes and two runs of a measurement of two models and an export of
\* one; two threads that record next to the one that starts and stops the log;
\* three connections to the callback server; two keys that are handled late.
CONSTANTS
  Runs = {r, s}
  Commands = {"measure", "export"}
  Checkpointing = {"measure"}
  Exporting = {"export"}
  MaxItems <- MCMaxItems
  MaxPowerLosses = 1
  Apps = {p, q}
  Steps <- MCSteps
  Texts = {"unkeyed", "broken"}
  Nil = Nil
  MaxSaves = 1
  MaxLate = 2
  Threads = {t, u}
  MaxLogs = 2
  MaxEvents = 2
  Codes = {c, d}
  NoCode = NoCode
  MaxCallbacks = 3
SPECIFICATION ClientSpec
SYMMETRY MCSymmetry
CHECK_DEADLOCK FALSE
INVARIANTS
  FileIsWhole
  ReportedIsOnDisk
  ResultsAreComplete
  ShownOutcomeIsTrue
  ScreensFollowWorker
  LogReads
  LoginIsSettled
