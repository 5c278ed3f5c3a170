SPECIFICATION LiveSpec
CONSTANTS
  NodeClaims = {c1}
  Machines = {m1, m2}
  NoMachine = NoMachine
  NoClaim = NoClaim
  InTime = TRUE
  LabelSticks = FALSE
  Corruptible = {m1}
  MaxFaults = 1
INVARIANT
  TimelyClaimKeepsMachine
PROPERTIES
  OrphanCollected
  FailedLaunchCleared
  DeletedClaimFinalized
  InstanceReported
