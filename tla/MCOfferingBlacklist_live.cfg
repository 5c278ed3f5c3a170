SPECIFICATION FairSpec
CONSTANTS
  Offerings <- OneSpot
  Slots = {s1, s2}
  AnyValue = "*"
  NoOffering = NoOffering
  TypeLimit = 1
  SpotLimit = 1
  FailureTTL = 4
  BlockTTL = 2
PROPERTIES
  OfferingReturns
  StockOutForgotten
  FailuresAreTried
