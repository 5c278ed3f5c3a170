SPECIFICATION MCSpec
CONSTANTS
  Unknown = Unknown
  Nothing = Nothing
  AnyZone = AnyZone
  Claims = {c1}
  Types = {1, 2}
  ZoneParts <- MCZoneParts
  Markets <- MCMarkets
  SubnetSets <- MCSubnetSets
  Wants <- MCWants
  MaxExpiries = 1
  None = None
  Resources = {1, 2, 3, 4, 5, 6, 7, 8, 9, 10, 11}
  Conditions = {"a", "b"}
  NoID = NoID
  InVPC = InVPC
  PageSize = 6
  VMMemoryOverhead = 75
  Questions <- MCQuestions
  Metas <- MCMetas
INVARIANTS
  TypeOK
  NoRepeat
  FilterLeavesAType
  ZonesRoundTrip
  SelectorsFind
  CapacityGrows
  ReservationShrinks
  ClaimsHaveTheirTypes
PROPERTIES
  CheapestIsTried
  EveryClaimSettles
CHECK_DEADLOCK FALSE
