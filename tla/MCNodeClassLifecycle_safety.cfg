SPECIFICATION SafetySpec
CONSTANTS
  Claims = {c1}
  Answers <- OneEach
  Nothing = Nothing
  Lag = TRUE
  MaxClasses = 1
  MaxEdits = 1
  MaxFaults = 0
INVARIANT
  ReadyIsRevisited
PROPERTY
  ClassKeptWhileUsed
CHECK_DEADLOCK FALSE
