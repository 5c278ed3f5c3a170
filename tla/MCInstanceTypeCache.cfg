SPECIFICATION MCSpec
CONSTANTS
  c1 = c1
  c2 = c2
  c3 = c3
  Lists = {l1, l2}
  Classes = {c1, c2, c3}
  SubnetZones <- ZonesOfSubnets
  Refresher = l1
  Nothing = Nothing
  TTL = 2
  MaxVersion = 1
INVARIANTS
  TypeOK
  RefreshIsFresh
  OnlyARecordIsMissing
  SubnetsAreAskedFor
PROPERTY
  CacheCatchesUp
