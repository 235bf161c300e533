\* The window is long, so that no row of the incident leaves it.
CONSTANTS
  Checks = {"producer"}
  Hour = 2
  EscalateAfter = 1
  Window = 24
  MaxFaults = 0
  MaxChanges = 3
  DownAfter = 1
  Repeat = 2
SPECIFICATION Spec
INVARIANT EscalatedOnce
