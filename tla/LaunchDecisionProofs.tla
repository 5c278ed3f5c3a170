------------------------ MODULE LaunchDecisionProofs ------------------------
(***************************************************************************)
(* Proofs about LaunchDecision, for any market, zones, claims and blocks.  *)
(*                                                                         *)
(* A claim asks for the zone found from the ID of its offering's zone.  By *)
(* NamesRoundTrip that is the offering's zone, so that what is refused,    *)
(* and blocked, is what List looks for in the blacklist.                   *)
(***************************************************************************)
EXTENDS LaunchDecision, ZoneIDsProofs

\* A set of offerings for sale has a cheapest one.
LEMMA HasCheapest ==
  ASSUME TypeOK, NEW S \in SUBSET DOMAIN price, S # {}
  PROVE  \E o \in S : \A q \in S : price[o] <= price[q]
<1> DEFINE T == {price[o] : o \in S}
<1>1. T \in SUBSET Nat /\ T # {}
  BY DEF TypeOK
<1>2. PICK x \in T : \A y \in T : x <= y
  BY <1>1, HasLeast
<1> QED
  BY <1>2

\* The zone of an offering is the only zone that its ID leads to.
LEMMA ZoneIsFoundAgain ==
  ASSUME NEW z \in Zones, NEW y \in ZonesBack[z]
  PROVE  y = z
<1>1. PICK p \in ZoneParts : z = ZoneName(p[1], p[2])
  BY DEF Zones
<1>2. p[1] \in Seq(STRING) /\ Len(p[1]) \in {2, 3} /\ p[2] \in 1..999
  BY LaunchAssumption
<1>3. RoundTrips(p[1], p[2])
  <2> DEFINE Names == Seq(STRING)
             Lengths == {2, 3}
             Numbers == 0..1000
  <2>1. p[1] \in Names /\ Len(p[1]) \in Lengths /\ p[2] \in Numbers
    BY <1>2
  <2>2. \A r \in Names, n \in Numbers : Len(r) \in Lengths => RoundTrips(r, n)
    BY NamesRoundTrip
  <2> HIDE DEF Names, Lengths, Numbers
  <2> QED
    BY <2>1, <2>2
<1>4. y \in ZonesFromID(IDFromZone(ZoneName(p[1], p[2])))
  BY <1>1 DEF ZonesBack, ID
<1>5. CASE p[1] \in Regions /\ p[2] \in 1..999
  BY <1>1, <1>3, <1>4, <1>5 DEF RoundTrips
<1>6. CASE ~(p[1] \in Regions /\ p[2] \in 1..999)
  BY <1>3, <1>4, <1>6 DEF RoundTrips
<1> QED
  BY <1>5, <1>6

\* What a claim asks for is in the market, and what it was refused is blocked.
Asked == \A c \in Claims : request[c] # Nothing => request[c] \in DOMAIN price
RefusedAreBlocked == \A c \in Claims : refused[c] \subseteq blocked
IInv == TypeOK /\ Asked /\ RefusedAreBlocked /\ NoRepeat

\* A launch that asks asks for a best offering among the filtered ones.
LEMMA LaunchAsks ==
  ASSUME TypeOK, NEW c \in Claims, Launch(c), step'[c] = "asking"
  PROVE  \E o \in BestOfferings(Filtered) :
           o \in Available /\ request' = [request EXCEPT ![c] = o]
                           /\ step' = [step EXCEPT ![c] = "asking"]
<1>0. PICK o \in BestOfferings(Filtered) : \E z \in ZonesBack[o.zone] :
        /\ step' = [step EXCEPT ![c] = "asking"]
        /\ request' = [request EXCEPT ![c] = [o EXCEPT !.zone = z]]
  BY DEF Launch, Fail, TypeOK
<1>1. PICK z \in ZonesBack[o.zone] :
        /\ step' = [step EXCEPT ![c] = "asking"]
        /\ request' = [request EXCEPT ![c] = [o EXCEPT !.zone = z]]
  BY <1>0
<1>2. o \in Available
  BY DEF BestOfferings, Cheapest, Filtered, filterUnwantedSpot, Resolved
<1>3. o \in Offerings
  BY <1>2 DEF Available, TypeOK
<1>4. z = o.zone
  BY <1>3, ZoneIsFoundAgain DEF Offerings
<1>5. [o EXCEPT !.zone = z] = o
  BY <1>3, <1>4 DEF Offerings
<1> QED
  BY <1>1, <1>2, <1>5

LEMMA LaunchSteps ==
  ASSUME TypeOK, NEW c \in Claims, Launch(c)
  PROVE  \/ step'[c] = "asking"
         \/ UNCHANGED request /\ \E how \in Steps \ {"asking"} : step' = [step EXCEPT ![c] = how]
<1>1. step' = [step EXCEPT ![c] = "asking"] => step'[c] = "asking"
  BY DEF TypeOK
<1> QED
  BY <1>1 DEF Launch, Fail, Steps

LEMMA NothingIsNotSold == TypeOK => Nothing \notin DOMAIN price
BY LaunchAssumption DEF TypeOK

\* A claim's step and its request change together.
LEMMA OneClaimSteps ==
  ASSUME TypeOK, NEW c \in Claims, NEW how \in Steps, NEW o \in Offerings \cup {Nothing},
         how = "asking" <=> o # Nothing,
         step' = [step EXCEPT ![c] = how], request' = [request EXCEPT ![c] = o],
         UNCHANGED <<price, subnets, wants, expiries>>,
         blocked' \subseteq DOMAIN price, refused' \in [Claims -> SUBSET DOMAIN price]
  PROVE  TypeOK'
<1>1. step' \in [Claims -> Steps] /\ request' \in [Claims -> Offerings \cup {Nothing}]
  BY DEF TypeOK
<1>2. \A d \in Claims : step'[d] = "asking" <=> request'[d] # Nothing
  <2> SUFFICES ASSUME NEW d \in Claims
               PROVE  step'[d] = "asking" <=> request'[d] # Nothing
    OBVIOUS
  <2>1. CASE d = c
    BY <2>1 DEF TypeOK
  <2>2. CASE d # c
    BY <2>2 DEF TypeOK
  <2> QED
    BY <2>1, <2>2
<1>3. /\ DOMAIN price' \subseteq Offerings /\ \A p \in DOMAIN price' : price'[p] \in Nat
      /\ subnets' \subseteq Zones /\ wants' \in Wants /\ expiries' \in 0..MaxExpiries
  BY DEF TypeOK
<1>4. blocked' \subseteq DOMAIN price' /\ refused' \in [Claims -> SUBSET DOMAIN price']
  OBVIOUS
<1> QED
  BY <1>1, <1>2, <1>3, <1>4 DEF TypeOK

LEMMA IInvIsInductive == IInv /\ [Next]_vars => IInv'
<1> SUFFICES ASSUME IInv, [Next]_vars
             PROVE  IInv'
  OBVIOUS
<1>0. TypeOK /\ Asked /\ RefusedAreBlocked /\ NoRepeat
  BY DEF IInv
<1>a. /\ step \in [Claims -> Steps] /\ request \in [Claims -> Offerings \cup {Nothing}]
      /\ blocked \subseteq DOMAIN price /\ refused \in [Claims -> SUBSET DOMAIN price]
  BY <1>0 DEF TypeOK
<1>1. ASSUME NEW c \in Claims, Launch(c)
      PROVE  IInv'
  <2>1. UNCHANGED <<price, subnets, wants, blocked, expiries, refused>>
    BY <1>1 DEF Launch, scenario
  <2>2. CASE step'[c] = "asking"
    <3>1. PICK o \in Available : /\ request' = [request EXCEPT ![c] = o]
                                 /\ step' = [step EXCEPT ![c] = "asking"]
      BY <1>0, <1>1, <2>2, LaunchAsks
    <3>2. o \in DOMAIN price /\ o \in Offerings /\ o \notin blocked /\ o # Nothing
      BY <1>0, <3>1, LaunchAssumption DEF Available, TypeOK
    <3>3. "asking" \in Steps
      BY DEF Steps
    <3>4. TypeOK'
      BY <1>0, <1>a, <2>1, <3>1, <3>2, <3>3, OneClaimSteps
    <3>5. \A d \in Claims : request'[d] = IF d = c THEN o ELSE request[d]
      BY <1>a, <3>1
    <3>6. Asked' /\ RefusedAreBlocked'
      BY <1>0, <2>1, <3>2, <3>5 DEF Asked, RefusedAreBlocked
    <3>7. NoRepeat'
      BY <1>0, <2>1, <3>2, <3>5 DEF NoRepeat, RefusedAreBlocked
    <3> QED
      BY <3>4, <3>6, <3>7 DEF IInv
  <2>3. CASE UNCHANGED request /\ \E how \in Steps \ {"asking"} : step' = [step EXCEPT ![c] = how]
    <3>1. request[c] = Nothing
      BY <1>0, <1>1 DEF Launch, Trying, TypeOK
    <3>2. request' = [request EXCEPT ![c] = Nothing]
      BY <1>a, <2>3, <3>1
    <3>3. TypeOK'
      BY <1>0, <1>a, <2>1, <2>3, <3>2, OneClaimSteps
    <3>4. Asked' /\ RefusedAreBlocked' /\ NoRepeat'
      BY <1>0, <2>1, <2>3 DEF Asked, RefusedAreBlocked, NoRepeat
    <3> QED
      BY <3>3, <3>4 DEF IInv
  <2> QED
    BY <1>0, <1>1, <2>2, <2>3, LaunchSteps
<1>2. ASSUME NEW c \in Claims, Accept(c)
      PROVE  IInv'
  <2>1. /\ UNCHANGED <<price, subnets, wants, blocked, expiries, refused>>
        /\ step' = [step EXCEPT ![c] = "launched"]
        /\ request' = [request EXCEPT ![c] = Nothing]
    BY <1>2 DEF Accept, scenario
  <2>2. "launched" \in Steps
    BY DEF Steps
  <2>3. TypeOK'
    BY <1>0, <1>a, <2>1, <2>2, OneClaimSteps
  <2>4. \A d \in Claims : request'[d] = IF d = c THEN Nothing ELSE request[d]
    BY <1>a, <2>1
  <2>5. Asked' /\ RefusedAreBlocked'
    BY <1>0, <2>1, <2>4 DEF Asked, RefusedAreBlocked
  <2>6. NoRepeat'
    <3>1. Nothing \notin refused[c]
      BY <1>0, <1>a, NothingIsNotSold
    <3> QED
      BY <1>0, <2>1, <2>4, <3>1 DEF NoRepeat
  <2> QED
    BY <2>3, <2>5, <2>6 DEF IInv
<1>3. ASSUME NEW c \in Claims, Reject(c)
      PROVE  IInv'
  <2>1. request[c] \in DOMAIN price
    BY <1>0, <1>3 DEF Reject, TypeOK, Asked
  <2>2. /\ UNCHANGED <<price, subnets, wants, expiries>>
        /\ blocked' = blocked \cup {request[c]}
        /\ refused' = [refused EXCEPT ![c] = @ \cup {request[c]}]
        /\ step' = [step EXCEPT ![c] = "pending"]
        /\ request' = [request EXCEPT ![c] = Nothing]
    BY <1>3 DEF Reject, scenario
  <2>3. /\ "pending" \in Steps
        /\ blocked' \subseteq DOMAIN price /\ refused' \in [Claims -> SUBSET DOMAIN price]
    BY <1>a, <2>1, <2>2 DEF Steps
  <2>4. TypeOK'
    BY <1>0, <2>2, <2>3, OneClaimSteps
  <2>5. \A d \in Claims :
          /\ request'[d] = IF d = c THEN Nothing ELSE request[d]
          /\ refused'[d] = IF d = c THEN refused[d] \cup {request[c]} ELSE refused[d]
    BY <1>a, <2>2
  <2>6. Asked' /\ RefusedAreBlocked'
    BY <1>0, <2>2, <2>5 DEF Asked, RefusedAreBlocked
  <2>7. NoRepeat'
    <3>1. Nothing \notin refused'[c]
      BY <1>0, <2>3, NothingIsNotSold
    <3> QED
      BY <1>0, <2>5, <3>1 DEF NoRepeat
  <2> QED
    BY <2>4, <2>6, <2>7 DEF IInv
<1>4. ASSUME NEW o \in DOMAIN price, BlockedElsewhere(o)
      PROVE  IInv'
  <2>1. /\ UNCHANGED <<price, subnets, wants, step, request, expiries, refused>>
        /\ blocked' = blocked \cup {o}
    BY <1>4 DEF BlockedElsewhere, scenario
  <2>2. TypeOK'
    BY <1>0, <2>1 DEF TypeOK
  <2>3. Asked' /\ RefusedAreBlocked' /\ NoRepeat'
    BY <1>0, <2>1 DEF Asked, RefusedAreBlocked, NoRepeat
  <2> QED
    BY <2>2, <2>3 DEF IInv
<1>5. ASSUME NEW o \in DOMAIN price, Expire(o)
      PROVE  IInv'
  <2>1. /\ UNCHANGED <<price, subnets, wants, step, request>>
        /\ blocked' = blocked \ {o}
        /\ refused' = [c \in Claims |-> refused[c] \ {o}]
        /\ expiries < MaxExpiries /\ expiries' = expiries + 1
    BY <1>5 DEF Expire, scenario
  <2>2. expiries' \in 0..MaxExpiries
    BY <1>0, <2>1, LaunchAssumption DEF TypeOK
  <2>3. refused' \in [Claims -> SUBSET DOMAIN price]
    BY <1>a, <2>1
  <2>4. TypeOK'
    BY <1>0, <2>1, <2>2, <2>3 DEF TypeOK
  <2>5. Asked' /\ RefusedAreBlocked' /\ NoRepeat'
    BY <1>0, <2>1 DEF Asked, RefusedAreBlocked, NoRepeat
  <2> QED
    BY <2>4, <2>5 DEF IInv
<1>6. CASE UNCHANGED vars
  <2>1. UNCHANGED <<price, subnets, wants, blocked, step, request, expiries, refused>>
    BY <1>6 DEF vars, scenario
  <2>2. TypeOK'
    BY <1>0, <2>1 DEF TypeOK
  <2>3. Asked' /\ RefusedAreBlocked' /\ NoRepeat'
    BY <1>0, <2>1 DEF Asked, RefusedAreBlocked, NoRepeat
  <2> QED
    BY <2>2, <2>3 DEF IInv
<1> QED
  BY <1>1, <1>2, <1>3, <1>4, <1>5, <1>6 DEF Next

LEMMA InitImpliesIInv == Init => IInv
<1> SUFFICES ASSUME Init
             PROVE  IInv
  OBVIOUS
<1> QED
  BY LaunchAssumption DEF Init, Start, IInv, TypeOK, Asked, RefusedAreBlocked, NoRepeat, Steps

LEMMA IInvHolds == Spec => []IInv
BY InitImpliesIInv, IInvIsInductive, PTL DEF Spec

\* No block is ever for something that is not sold, and a claim holds a request
\* exactly while the API server has it (Create).
THEOREM TypeCorrect == Spec => []TypeOK
<1>1. IInv => TypeOK
  BY DEF IInv
<1> QED
  BY <1>1, IInvHolds, PTL

\* No claim asks again for what it was refused while the block stands
\* (BlockInstanceType in Create, isBlocked in List).
THEOREM RefusalsAreRemembered == Spec => []NoRepeat
<1>1. IInv => NoRepeat
  BY DEF IInv
<1> QED
  BY <1>1, IInvHolds, PTL

-----------------------------------------------------------------------------
\* Filtering leaves a type whenever one was resolved (filterUnwantedSpot).
THEOREM FilterIsSafe == Spec => []FilterLeavesAType
<1>1. TypeOK => FilterLeavesAType
  <2> SUFFICES ASSUME TypeOK, Resolved # {}
               PROVE  TypesOf(Filtered) # {}
    BY DEF FilterLeavesAType
  <2>1. Resolved \in SUBSET DOMAIN price
    BY DEF Resolved, Available
  <2>2. PICK o \in Resolved : \A q \in Resolved : price[o] <= price[q]
    BY <2>1, HasCheapest
  <2>3. o \in filterUnwantedSpot(Resolved)
    BY <2>2 DEF filterUnwantedSpot
  <2>4. o \in Filtered
    BY <2>2, <2>3 DEF Filtered
  <2> QED
    BY <2>4 DEF TypesOf
<1> QED
  BY <1>1, TypeCorrect, PTL

\* An offering that is dropped for a claim that may use it is dearer than some
\* on-demand offering; the cheapest of these is not for the claim, or the claim
\* could have it.
LEMMA DroppedForADearerOne ==
  ASSUME TypeOK, wants \in Wants, NEW o \in BestOfferings(Filtered),
         NEW q \in Available, Compatible(q), price[q] < price[o]
  PROVE  /\ wants.caps = Caps /\ wants.minTypes = 0
         /\ \E p \in Available : p.cap = "on-demand" /\ ~Compatible(p) /\ price[p] < price[q]
<1> DEFINE Dearer == {p \in Resolved : p.cap = "on-demand"}
<1>1. /\ Resolved \in SUBSET DOMAIN price /\ Resolved \subseteq Available
      /\ \A p \in Resolved : price[p] \in Nat
      /\ q \in Resolved /\ o \in Filtered /\ o \in Resolved
      /\ \A p \in Filtered : Compatible(p) => price[o] <= price[p]
  BY DEF Resolved, Available, TypeOK, BestOfferings, Cheapest, Filtered, filterUnwantedSpot
<1>2. q \notin Filtered
  BY <1>1
<1>3. /\ wants.minTypes = 0 /\ isMixedCapacityLaunch
      /\ Filtered = filterUnwantedSpot(Resolved)
  BY <1>1, <1>2 DEF Filtered
<1>4. wants.caps = Caps
  <2>1. wants.caps \subseteq Caps
    BY LaunchAssumption
  <2>2. Caps \subseteq wants.caps
    BY <1>3 DEF isMixedCapacityLaunch
  <2> QED
    BY <2>1, <2>2
<1>5. PICK r \in Dearer : ~(price[q] <= price[r])
  BY <1>1, <1>2, <1>3 DEF filterUnwantedSpot
<1>6. PICK p \in Dearer : \A s \in Dearer : price[p] <= price[s]
  <2>1. Dearer \in SUBSET DOMAIN price /\ Dearer # {}
    BY <1>1, <1>5
  <2> QED
    BY <2>1, HasCheapest
<1>7. price[p] < price[q]
  BY <1>1, <1>5, <1>6
<1>8. p \in Filtered
  BY <1>3, <1>6 DEF filterUnwantedSpot
<1>9. ~Compatible(p)
  BY <1>1, <1>7, <1>8
<1> QED
  BY <1>1, <1>3, <1>4, <1>6, <1>7, <1>9

\* A claim asks for a cheapest offering of those it may use, unless on-demand
\* offerings that it may not use made filterUnwantedSpot drop a cheaper one
\* (Create, filterUnwantedSpot).
THEOREM CheapestIsTaken == Spec => CheapestIsTried
<1> DEFINE Chosen(c) ==
      /\ request'[c] \in Available /\ Compatible(request'[c])
      /\ \A q \in Available : Compatible(q) /\ price[q] < price[request'[c]] =>
           /\ wants.caps = Caps /\ wants.minTypes = 0
           /\ \E p \in Available : p.cap = "on-demand" /\ ~Compatible(p)
                                   /\ price[p] < price[q]
<1>1. ASSUME TypeOK, [Next]_vars, NEW c \in Claims, step'[c] = "asking", step[c] # "asking"
      PROVE  Chosen(c)
  <2>1. Launch(c)
    <3>1. ASSUME NEW d \in Claims, Launch(d)
          PROVE  d = c
      <4>1. \E how \in Steps : step' = [step EXCEPT ![d] = how]
        <5>1. step'[d] = "asking" \/ \E how \in Steps \ {"asking"} : step' = [step EXCEPT ![d] = how]
          BY <1>1, <3>1, LaunchSteps
        <5>2. step'[d] = "asking" => step' = [step EXCEPT ![d] = "asking"]
          BY <1>1, <3>1, LaunchAsks
        <5> QED
          BY <5>1, <5>2 DEF Steps
      <4> QED
        BY <1>1, <4>1 DEF TypeOK
    <3>2. ASSUME NEW d \in Claims, Accept(d) \/ Reject(d)
          PROVE  FALSE
      BY <1>1, <3>2 DEF Accept, Reject, TypeOK
    <3>3. ASSUME NEW o \in DOMAIN price, BlockedElsewhere(o) \/ Expire(o)
          PROVE  FALSE
      BY <1>1, <3>3 DEF BlockedElsewhere, Expire
    <3>4. CASE UNCHANGED vars
      BY <1>1, <3>4 DEF vars
    <3> QED
      BY <1>1, <3>1, <3>2, <3>3, <3>4 DEF Next
  <2>2. PICK o \in BestOfferings(Filtered) :
          o \in Available /\ request' = [request EXCEPT ![c] = o]
    BY <1>1, <2>1, LaunchAsks
  <2>3. request'[c] = o
    BY <1>1, <2>2 DEF TypeOK
  <2>4. Compatible(o)
    BY DEF BestOfferings, Cheapest
  <2>5. wants \in Wants
    BY <1>1 DEF TypeOK
  <2> QED
    BY <1>1, <2>2, <2>3, <2>4, <2>5, DroppedForADearerOne
<1>2. TypeOK /\ [Next]_vars =>
        [\A c \in Claims : step'[c] = "asking" /\ step[c] # "asking" => Chosen(c)]_vars
  BY <1>1
<1> QED
  BY <1>2, TypeCorrect, PTL DEF Spec, CheapestIsTried
=============================================================================
