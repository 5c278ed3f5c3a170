SPECIFICATION CatalogueSpec
CONSTANTS
  Offerings <- OneSpot
  Catalogues <- JustOneSpot
  Slots = {s1}
  AnyValue = "*"
  NoOffering = NoOffering
  TypeLimit = 3
  SpotLimit = 6
  FailureTTL = 2
  BlockTTL = 1
  HourCap = 4
  MaxHits = 4
  CountedOnce = TRUE
PROPERTY
  OverLimitWithinTheHour
