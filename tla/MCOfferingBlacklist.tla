------------------------ MODULE MCOfferingBlacklist -------------------------
(* Model checking of OfferingBlacklist with its history: small catalogues  *)
(* of offerings, one of which is chosen at the start and on sale for the   *)
(* whole behaviour, and slots that the specification treats alike.         *)
EXTENDS OfferingBlacklistHistory, TLC

CONSTANTS
  Catalogues,   \* the catalogues to choose from
  MaxHits,      \* bound on the hits of all offerings together
  CountedOnce   \* search only where no Machine is listed by two passes?

VARIABLE onSale

Symmetry == Permutations(Slots)

OneSpot == [type : {"t1"}, cap : {"spot"}, zone : {"z1"}]
TwoSpots == [type : {"t1", "t2"}, cap : {"spot"}, zone : {"z1"}]
SpotAndOnDemand ==
  [type : {"t1"}, cap : {"spot", "on-demand"}, zone : {"z1"}]
SpotsAndOnDemand == TwoSpots \cup SpotAndOnDemand

JustOneSpot == {OneSpot}
TwoSpotsOrBothKinds == {TwoSpots, SpotAndOnDemand}

CatalogueInit ==
  /\ HistoryInit
  /\ onSale \in Catalogues
CatalogueNext ==
  /\ HistoryNext
  /\ MapThenSumSet(LAMBDA o : hits'[o], Offerings) <= MaxHits
  /\ \A s \in Slots : slot'[s].offering \in onSale \cup {NoOffering}
  /\ CountedOnce /\ phase = "delete" /\ phase' = "idle" =>
       \A s \in Slots : ~HasFailed(s)
  /\ UNCHANGED onSale
CatalogueSpec == CatalogueInit /\ [][CatalogueNext]_<<vars, historyVars, onSale>>
=============================================================================
