SPECIFICATION SafetySpec
CONSTANTS
  NodeClaims = {c1, c2}
  Machines = {m1, m2}
  NoMachine = NoMachine
  NoClaim = NoClaim
  InTime = FALSE
  LabelSticks = FALSE
  Corruptible = {}
  MaxFaults = 1
SYMMETRY Symmetry
INVARIANTS
  TypeOK
  IDNamesOwnMachine
  FinalizedLeavesNoInstance
  FailureTargetsAreFailed
PROPERTIES
  ActiveClaimKeepsMachine
  ImplementsContract
