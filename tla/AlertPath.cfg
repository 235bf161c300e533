\* Two critical names and one that is not; an hour is two ticks.
CONSTANTS
  Checks = {"producer", "connect", "lag"}
  Hour = 2
  EscalateAfter = 1
  Window = 4
  MaxFaults = 1
  MaxChanges = 2
  DownAfter = 1
  Repeat = 2
SPECIFICATION Spec
INVARIANTS TypeOK EscalatedInTime
PROPERTIES SentHourly ClearedOnce OutageHeard GhostEnds
