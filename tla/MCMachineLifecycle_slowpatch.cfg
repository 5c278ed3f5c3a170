SPECIFICATION Spec
CONSTANTS
  NodeClaims = {c1}
  Machines = {m1, m2}
  NoMachine = NoMachine
  NoClaim = NoClaim
  InTime = FALSE
  LabelSticks = FALSE
  Corruptible = {}
  MaxFaults = 0
INVARIANT
  CollectedByExistence
