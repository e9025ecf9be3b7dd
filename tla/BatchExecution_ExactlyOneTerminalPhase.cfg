CONSTANTS
  N = 1
  MaxConcurrency = 1
  MaxCancels = 1
SPECIFICATION Spec
INVARIANTS
  ExactlyOneTerminalPhase
