----------------------- MODULE MCOfferingBlacklistLive ----------------------
(* Model checking of the liveness of OfferingBlacklist, without history.   *)
EXTENDS OfferingBlacklist

OneSpot == [type : {"t1"}, cap : {"spot"}, zone : {"z1"}]
=============================================================================
