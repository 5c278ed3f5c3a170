SPECIFICATION Spec
CONSTANTS
  Claims = {}
  Answers <- OneEach
  Nothing = Nothing
  Lag = TRUE
  MaxClasses = 1
  MaxEdits = 0
  MaxFaults = 0
INVARIANT
  ReadyIsJustified
CHECK_DEADLOCK FALSE
