SPECIFICATION CatalogueSpec
CONSTANTS
  Offerings <- SpotsAndOnDemand
  Catalogues <- TwoSpotsOrBothKinds
  Slots = {s1, s2}
  AnyValue = "*"
  NoOffering = NoOffering
  TypeLimit = 1
  SpotLimit = 2
  FailureTTL = 2
  BlockTTL = 1
  HourCap = 0
  MaxHits = 3
  CountedOnce = FALSE
SYMMETRY Symmetry
INVARIANTS
  TypeOK
  CountsStop
  BlockedForCause
PROPERTY
  BlockedOnceOverLimit
