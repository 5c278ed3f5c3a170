------------------------------ MODULE ZoneIDs -------------------------------
(***************************************************************************)
(* zone.DefaultProvider: names of availability zones, such as              *)
(* ap-guangzhou-3, and their numeric identifiers, such as 100003.          *)
(*                                                                         *)
(* A name is the sequence of its parts: the words of the region and the    *)
(* zone's number.  The functions that fail in Go return Unknown here.      *)
(***************************************************************************)
EXTENDS Integers, Sequences, TLC

CONSTANT Unknown   \* no name, no identifier

\* The region's base; a table of the code.
ZoneGroups ==
  <<"ap", "guangzhou">> :> 100000 @@
  <<"ap", "shenzhen", "fsi">> :> 110000 @@
  <<"ap", "guangzhou", "open">> :> 120000 @@
  <<"na", "siliconvalley">> :> 150000 @@
  <<"ap", "chengdu">> :> 160000 @@
  <<"eu", "frankfurt">> :> 170000 @@
  <<"ap", "seoul">> :> 180000 @@
  <<"ap", "chongqing">> :> 190000 @@
  <<"ap", "shanghai">> :> 200000 @@
  <<"ap", "mumbai">> :> 210000 @@
  <<"na", "ashburn">> :> 220000 @@
  <<"ap", "bangkok">> :> 230000 @@
  <<"ap", "tokyo">> :> 250000 @@
  <<"ap", "hongkong">> :> 300000 @@
  <<"ap", "jinan", "ec">> :> 310000 @@
  <<"ap", "hangzhou", "ec">> :> 320000 @@
  <<"ap", "nanjing">> :> 330000 @@
  <<"ap", "fuzhou", "ec">> :> 340000 @@
  <<"ap", "wuhan", "ec">> :> 350000 @@
  <<"ap", "tianjin">> :> 360000 @@
  <<"ap", "shenzhen">> :> 370000 @@
  <<"ap", "taipei">> :> 390000 @@
  <<"na", "toronto">> :> 400000 @@
  <<"ap", "changsha", "ec">> :> 450000 @@
  <<"ap", "beijing", "fsi">> :> 460000 @@
  <<"ap", "shijiazhuang", "ec">> :> 530000 @@
  <<"ap", "qingyuan">> :> 540000 @@
  <<"ap", "hefei", "ec">> :> 550000 @@
  <<"ap", "shenyang", "ec">> :> 560000 @@
  <<"ap", "xian", "ec">> :> 570000 @@
  <<"ap", "xibei", "ec">> :> 580000 @@
  <<"ap", "shanghai", "fsi">> :> 700000 @@
  <<"ap", "zhengzhou", "ec">> :> 710000 @@
  <<"ap", "jakarta">> :> 720000 @@
  <<"sa", "saopaulo">> :> 740000 @@
  <<"ap", "shanghai", "adc">> :> 780000 @@
  <<"ap", "beijing">> :> 800000 @@
  <<"ap", "guangzhou", "wxzf">> :> 820000 @@
  <<"ap", "shanghai", "wxzf">> :> 830000 @@
  <<"ap", "singapore">> :> 900000

Regions == DOMAIN ZoneGroups
ZoneName(region, number) == Append(region, number)

\* A name with four parts has a region of three words; any other name is read
\* as a region of two words and a number, whatever follows.
IDFromZone(zone) ==
  LET words  == IF Len(zone) = 4 THEN 3 ELSE 2
      region == SubSeq(zone, 1, words)
  IN  IF Len(zone) >= 3 /\ region \in Regions
      THEN ZoneGroups[region] + zone[words + 1] ELSE Unknown

\* The upper bound is left out.
FaultyZonesFromID(id) ==
  IF id = Unknown THEN {}
  ELSE {ZoneName(r, id - ZoneGroups[r]) : r \in {q \in Regions : id > ZoneGroups[q]}}

\* The loop over the table runs in any order and returns its first match: the
\* zones it may return, none if it fails.
ZonesFromID(id) ==
  IF id = Unknown THEN {}
  ELSE {ZoneName(r, id - ZoneGroups[r]) :
          r \in {q \in Regions : id > ZoneGroups[q] /\ id < ZoneGroups[q] + 1000}}

\* A name turns into an ID and back into itself, and never into another zone's
\* name, whatever the order of the loop; names out of the table and numbers out
\* of a region's thousand lead nowhere (IDFromZone, ZoneFromID).
RoundTrips(region, number) ==
  LET zones == ZonesFromID(IDFromZone(ZoneName(region, number))) IN
  zones = IF region \in Regions /\ number \in 1..999 THEN {ZoneName(region, number)} ELSE {}

ASSUME UnknownAssumption == Unknown \notin Int

\* What the table owes to the two functions: regions of two or three words,
\* bases at least 1000 apart.
ASSUME ZoneGroupsAssumption ==
  /\ \A r \in Regions : r \in Seq(STRING) /\ Len(r) \in {2, 3} /\ ZoneGroups[r] \in Nat
  /\ \A r, q \in Regions : r # q =>
       ZoneGroups[r] + 1000 <= ZoneGroups[q] \/ ZoneGroups[q] + 1000 <= ZoneGroups[r]
=============================================================================
