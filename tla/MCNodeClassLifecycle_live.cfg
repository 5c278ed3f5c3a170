SPECIFICATION FairSpec
CONSTANTS
  Claims = {c1}
  Answers <- SubnetsOnly
  Nothing = Nothing
  Lag = TRUE
  MaxClasses = 2
  MaxEdits = 0
  MaxFaults = 1
INVARIANT
  TypeOK
PROPERTIES
  StatusConverges
  DeletionEnds
CHECK_DEADLOCK FALSE
