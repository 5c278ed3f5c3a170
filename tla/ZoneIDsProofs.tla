--------------------------- MODULE ZoneIDsProofs ----------------------------
(***************************************************************************)
(* Proofs about ZoneIDs, from what the table of regions owes to the code   *)
(* (ZoneGroupsAssumption, which TLC evaluates for the table itself).       *)
(***************************************************************************)
EXTENDS ZoneIDs, SequenceTheorems, WellFoundedInduction, TLAPS

\* A set of numbers has a least one.
LEMMA HasLeast ==
  ASSUME NEW T \in SUBSET Nat, T # {}
  PROVE  \E x \in T : \A y \in T : x <= y
<1>1. PICK x \in T : \A y \in T : ~(<<y, x>> \in OpToRel(<, Nat))
  BY WFMin, NatLessThanWellFounded
<1>2. \A y \in T : ~(y < x)
  BY <1>1 DEF OpToRel
<1> QED
  BY <1>2

-----------------------------------------------------------------------------
\* The parts of a name.
LEMMA NameParts ==
  ASSUME NEW r \in Seq(STRING), Len(r) \in {2, 3}, NEW n \in Nat
  PROVE  /\ Len(ZoneName(r, n)) = Len(r) + 1
         /\ SubSeq(ZoneName(r, n), 1, Len(r)) = r
         /\ ZoneName(r, n)[Len(r) + 1] = n
<1> DEFINE Parts == STRING \cup Nat
           name == Append(r, n)
<1>1. r \in Seq(Parts) /\ n \in Parts /\ Len(r) \in Nat
  BY SeqMonotonic
<1> HIDE DEF Parts
<1>2. /\ name \in Seq(Parts)
      /\ Len(name) = Len(r) + 1
      /\ \A i \in 1..Len(r) : name[i] = r[i]
      /\ name[Len(r) + 1] = n
  BY <1>1, AppendProperties
<1> HIDE DEF name
<1>3. \A i \in 1..Len(r) : name[i] \in Parts
  BY <1>1, <1>2, ElementOfSeq
<1>4. /\ SubSeq(name, 1, Len(r)) \in Seq(Parts)
      /\ Len(SubSeq(name, 1, Len(r))) = Len(r)
      /\ \A i \in 1..Len(r) : SubSeq(name, 1, Len(r))[i] = name[i]
  BY <1>1, <1>3, SubSeqProperties
<1>5. SubSeq(name, 1, Len(r)) = r
  BY <1>1, <1>2, <1>4, SeqEqual
<1> QED
  BY <1>2, <1>5 DEF ZoneName, name

\* The ID of a name is the base of its region and its number.
LEMMA IDOfName ==
  ASSUME NEW r \in Seq(STRING), Len(r) \in {2, 3}, NEW n \in Nat
  PROVE  IDFromZone(ZoneName(r, n)) =
           IF r \in Regions THEN ZoneGroups[r] + n ELSE Unknown
<1> DEFINE name == ZoneName(r, n)
<1>1. /\ Len(name) = Len(r) + 1
      /\ SubSeq(name, 1, Len(r)) = r
      /\ name[Len(r) + 1] = n
  BY NameParts
<1> HIDE DEF name
<1>2. IDFromZone(name) = IF r \in Regions THEN ZoneGroups[r] + n ELSE Unknown
  <2>1. CASE Len(r) = 2
    <3>1. Len(name) >= 3 /\ Len(name) # 4
      BY <1>1, <2>1
    <3>2. name[2 + 1] = n /\ SubSeq(name, 1, 2) = r
      BY <1>1, <2>1, Zenon
    <3> QED
      BY <3>1, <3>2, Zenon DEF IDFromZone
  <2>2. CASE Len(r) = 3
    <3>1. Len(name) >= 3 /\ Len(name) = 4
      BY <1>1, <2>2
    <3>2. name[3 + 1] = n /\ SubSeq(name, 1, 3) = r
      BY <1>1, <2>2, Zenon
    <3> QED
      BY <3>1, <3>2, Zenon DEF IDFromZone
  <2> QED
    BY <2>1, <2>2
<1> QED
  BY <1>2 DEF name

\* Whatever region a name has and whatever the order of the loop over the
\* table, the ID leads back to the name alone, or nowhere (ZoneFromID).
LEMMA NamesRoundTrip ==
  \A r \in Seq(STRING), n \in 0..1000 : Len(r) \in {2, 3} => RoundTrips(r, n)
<1> SUFFICES ASSUME NEW r \in Seq(STRING), NEW n \in 0..1000, Len(r) \in {2, 3}
             PROVE  RoundTrips(r, n)
  OBVIOUS
<1> DEFINE id == IDFromZone(ZoneName(r, n))
<1>0. n \in Nat /\ id = IF r \in Regions THEN ZoneGroups[r] + n ELSE Unknown
  BY IDOfName
<1> HIDE DEF id
<1>1. CASE r \notin Regions
  <2>1. id = Unknown
    BY <1>0, <1>1
  <2> QED
    BY <1>1, <2>1 DEF RoundTrips, ZonesFromID, id
<1>2. CASE r \in Regions
  <2>1. id = ZoneGroups[r] + n /\ id # Unknown /\ ZoneGroups[r] \in Nat
    BY <1>0, <1>2, UnknownAssumption, ZoneGroupsAssumption
  <2>2. \A q \in Regions : id > ZoneGroups[q] /\ id < ZoneGroups[q] + 1000 <=>
                           q = r /\ n \in 1..999
    <3> SUFFICES ASSUME NEW q \in Regions
                 PROVE  id > ZoneGroups[q] /\ id < ZoneGroups[q] + 1000 <=>
                          q = r /\ n \in 1..999
      OBVIOUS
    <3>1. CASE q = r
      <4> DEFINE a == ZoneGroups[r]
      <4>1. a \in Nat /\ id = a + n /\ n \in 0..1000
        BY <2>1
      <4> HIDE DEF a
      <4>2. id > a /\ id < a + 1000 <=> n \in 1..999
        BY <4>1
      <4> QED
        BY <3>1, <4>2 DEF a
    <3>2. CASE q # r
      <4>1. ZoneGroups[q] \in Nat
        BY ZoneGroupsAssumption
      <4>2. \/ ZoneGroups[r] + 1000 <= ZoneGroups[q]
            \/ ZoneGroups[q] + 1000 <= ZoneGroups[r]
        BY <1>2, <3>2, ZoneGroupsAssumption
      <4>3. ~(id > ZoneGroups[q] /\ id < ZoneGroups[q] + 1000)
        <5> DEFINE a == ZoneGroups[r]
                   b == ZoneGroups[q]
        <5>1. a \in Nat /\ b \in Nat /\ n \in 0..1000 /\ id = a + n
          BY <2>1, <4>1
        <5>2. a + 1000 <= b \/ b + 1000 <= a
          BY <4>2
        <5> HIDE DEF a, b
        <5>3. ~(id > b /\ id < b + 1000)
          BY <5>1, <5>2
        <5> QED
          BY <5>3 DEF b
      <4> QED
        BY <3>2, <4>3
    <3> QED
      BY <3>1, <3>2
  <2>3. id - ZoneGroups[r] = n
    BY <2>1
  <2>4. ZonesFromID(id) = {ZoneName(q, id - ZoneGroups[q]) :
                             q \in {p \in Regions : p = r /\ n \in 1..999}}
    BY <2>1, <2>2 DEF ZonesFromID
  <2> DEFINE inside == n \in 1..999
  <2>5. ZonesFromID(id) = IF inside THEN {ZoneName(r, n)} ELSE {}
    <3>1. CASE inside
      <4>1. {p \in Regions : p = r /\ n \in 1..999} = {r}
        BY <1>2, <3>1
      <4>2. ZonesFromID(id) = {ZoneName(r, id - ZoneGroups[r])}
        BY <2>4, <4>1
      <4>3. ZonesFromID(id) = {ZoneName(r, n)}
        BY <2>3, <4>2
      <4> HIDE DEF inside
      <4> QED
        BY <3>1, <4>3, Zenon
    <3>2. CASE ~inside
      <4>1. {p \in Regions : p = r /\ n \in 1..999} = {}
        BY <3>2
      <4>2. ZonesFromID(id) = {}
        BY <2>4, <4>1
      <4> HIDE DEF inside
      <4> QED
        BY <3>2, <4>2, Zenon
    <3> QED
      BY <3>1, <3>2
  <2> QED
    BY <1>2, <2>5 DEF RoundTrips, id
<1> QED
  BY <1>1, <1>2
=============================================================================
