--------------------------- MODULE LaunchDecision ---------------------------
(***************************************************************************)
(* What CloudProvider.Create launches for a NodeClaim: it resolves the     *)
(* instance types, the machine provider filters and orders them, takes the *)
(* cheapest offering of the first type, finds its zone and a subnet there, *)
(* and creates a Machine.  When the API server refuses the Machine, its    *)
(* offering is blocked.  A claim whose creation fails is tried again.      *)
(*                                                                         *)
(* A market holds the offerings for sale of the types that meet the        *)
(* claims' other requirements and fit their pods (InstanceCapacity); the   *)
(* claims come from one NodePool and require the same.  How offerings get  *)
(* blocked after the launch, and for how long, is in OfferingBlacklist;    *)
(* what becomes of the Machine in MachineLifecycle.  Truncate keeps the 60 *)
(* cheapest types, among them the first, and is left out but for its check *)
(* of minValues.                                                           *)
(***************************************************************************)
EXTENDS ZoneIDs, FiniteSets

CONSTANTS
  Claims,       \* NodeClaims of one NodePool
  Types,        \* instance types: numbers, in the order of their names
  ZoneParts,    \* zones that the cloud offers: region and number
  Nothing,      \* no request
  AnyZone,      \* no required zone
  Markets,      \* offerings for sale, with their prices
  SubnetSets,   \* zones in which the class has subnets; at least one, List
                \*   fails otherwise
  Wants,        \* what the claims may require
  MaxExpiries   \* bound on the blocks that expire

Caps == {"on-demand", "spot"}
Zones == {ZoneName(p[1], p[2]) : p \in ZoneParts}
Offerings == [type : Types, zone : Zones, cap : Caps]
ID == [z \in Zones |-> IDFromZone(z)]
ZonesBack == [z \in Zones |-> ZonesFromID(ID[z])]
KnownIDs == {ID[z] : z \in Zones} \ {Unknown}

ASSUME LaunchAssumption ==
  /\ Types \subseteq Nat /\ MaxExpiries \in Nat
  /\ Nothing \notin Offerings
  /\ \A p \in ZoneParts : p[1] \in Seq(STRING) /\ Len(p[1]) \in {2, 3} /\ p[2] \in 1..999
  /\ SubnetSets \subseteq (SUBSET Zones) \ {{}}
  /\ \A m \in Markets : DOMAIN m \subseteq Offerings /\ \A o \in DOMAIN m : m[o] \in Nat
  /\ \A w \in Wants : /\ w.caps \in (SUBSET Caps) \ {{}}
                      /\ w.zones \in SUBSET KnownIDs \cup {AnyZone}
                      /\ w.minTypes \in Nat

VARIABLES
  price,      \* the market: the price of every offering for sale
  subnets,    \* the zones that have a subnet of the class
  wants,      \* what the claims require
  blocked,    \* the blacklist
  step,       \* per claim: where its launch stands
  request,    \* per claim: the Machine it asks the API server for
  expiries,   \* blocks that expired
  refused     \* history, per claim: offerings the API server refused it
              \*   whose block has not expired since

scenario == <<price, subnets, wants>>
vars == <<scenario, blocked, step, request, expiries, refused>>

Steps == {"pending", "asking", "launched", "insufficient",
          "no types left", "no such zone", "no subnet"}

TypeOK ==
  /\ DOMAIN price \subseteq Offerings /\ \A o \in DOMAIN price : price[o] \in Nat
  /\ subnets \subseteq Zones
  /\ wants \in Wants
  /\ blocked \subseteq DOMAIN price
  /\ step \in [Claims -> Steps]
  /\ request \in [Claims -> Offerings \cup {Nothing}]
  /\ \A c \in Claims : step[c] = "asking" <=> request[c] # Nothing
  /\ expiries \in 0..MaxExpiries
  /\ refused \in [Claims -> SUBSET DOMAIN price]

-----------------------------------------------------------------------------
\* Offerings sold and not blocked.
Available == DOMAIN price \ blocked

\* An offering in a zone without ID has an empty one.
Compatible(o) ==
  o.cap \in wants.caps /\ (wants.zones = AnyZone \/ ID[o.zone] \in wants.zones)

Cheapest(S) == {o \in S : \A q \in S : price[o] <= price[q]}

\* Types with a compatible offering, by all their available offerings.
Resolved == {o \in Available : \E q \in Available : q.type = o.type /\ Compatible(q)}

TypesOf(S) == {o.type : o \in S}

isMixedCapacityLaunch ==
  \A cap \in Caps : cap \in wants.caps /\ \E o \in Resolved : Compatible(o) /\ o.cap = cap

\* A type is judged by its first offering, whichever it is.
FaultyFilterUnwantedSpot(S) ==
  {o \in S : \A q \in S : q.cap = "on-demand" => price[o] < price[q]}

\* Types whose cheapest offering costs no more than any on-demand offering,
\* whether the claim may use these offerings or not.
filterUnwantedSpot(S) ==
  {o \in S : \E b \in S : b.type = o.type
                          /\ \A q \in S : q.cap = "on-demand" => price[b] <= price[q]}

Filtered ==
  IF wants.minTypes = 0 /\ isMixedCapacityLaunch
  THEN filterUnwantedSpot(Resolved) ELSE Resolved

\* The order ignores what the claim may use.
FaultyBestOfferings(S) == {o \in Cheapest(S) : \A q \in Cheapest(S) : o.type <= q.type}

\* The cheapest compatible offerings of the type that comes first by price
\* and name.
BestOfferings(S) ==
  LET cheapest == Cheapest({o \in S : Compatible(o)})
  IN  {o \in cheapest : \A q \in cheapest : o.type <= q.type}

Enough == Filtered # {} /\ Cardinality(TypesOf(Filtered)) >= wants.minTypes

Trying(c) == step[c] \in Steps \ {"asking", "launched", "insufficient"}

Fail(c, how) ==
  step' = [step EXCEPT ![c] = how] /\ UNCHANGED request

\* Create, up to the creation of the Machine.
Launch(c) ==
  /\ Trying(c)
  /\ \/ Resolved = {} /\ Fail(c, "insufficient")
     \/ Resolved # {} /\ ~Enough /\ Fail(c, "no types left")
     \/ /\ Resolved # {} /\ Enough
        /\ \E o \in BestOfferings(Filtered) :
             \/ ZonesBack[o.zone] = {} /\ Fail(c, "no such zone")
             \/ \E z \in ZonesBack[o.zone] :
                  \/ z \notin subnets /\ Fail(c, "no subnet")
                  \/ /\ z \in subnets
                     /\ step' = [step EXCEPT ![c] = "asking"]
                     /\ request' = [request EXCEPT ![c] = [o EXCEPT !.zone = z]]
  /\ UNCHANGED <<scenario, blocked, expiries, refused>>

\* The claim keeps its request.
FaultyAccept(c) ==
  /\ step[c] = "asking"
  /\ step' = [step EXCEPT ![c] = "launched"]
  /\ UNCHANGED <<scenario, blocked, request, expiries, refused>>

Accept(c) ==
  /\ step[c] = "asking"
  /\ step' = [step EXCEPT ![c] = "launched"]
  /\ request' = [request EXCEPT ![c] = Nothing]
  /\ UNCHANGED <<scenario, blocked, expiries, refused>>

\* The block misses the capacity type.
FaultyReject(c) ==
  /\ step[c] = "asking"
  /\ blocked' = blocked \cup ({[request[c] EXCEPT !.cap = "on-demand"]} \cap DOMAIN price)
  /\ refused' = [refused EXCEPT ![c] = @ \cup {request[c]}]
  /\ step' = [step EXCEPT ![c] = "pending"]
  /\ request' = [request EXCEPT ![c] = Nothing]
  /\ UNCHANGED <<scenario, expiries>>

\* The API server refuses the Machine; its offering is blocked.
Reject(c) ==
  /\ step[c] = "asking"
  /\ blocked' = blocked \cup {request[c]}
  /\ refused' = [refused EXCEPT ![c] = @ \cup {request[c]}]
  /\ step' = [step EXCEPT ![c] = "pending"]
  /\ request' = [request EXCEPT ![c] = Nothing]
  /\ UNCHANGED <<scenario, expiries>>

\* The failure controller blocks an offering, whatever goes on here.
BlockedElsewhere(o) ==
  /\ o \in DOMAIN price \ blocked
  /\ blocked' = blocked \cup {o}
  /\ UNCHANGED <<scenario, step, request, expiries, refused>>

Expire(o) ==
  /\ o \in blocked /\ expiries < MaxExpiries
  /\ blocked' = blocked \ {o}
  /\ refused' = [c \in Claims |-> refused[c] \ {o}]
  /\ expiries' = expiries + 1
  /\ UNCHANGED <<scenario, step, request>>

Start ==
  /\ blocked = {}
  /\ step = [c \in Claims |-> "pending"]
  /\ request = [c \in Claims |-> Nothing]
  /\ expiries = 0
  /\ refused = [c \in Claims |-> {}]

Init ==
  /\ price \in Markets
  /\ wants \in Wants
  /\ subnets \in SubnetSets
  /\ Start

Next ==
  \/ \E c \in Claims : Launch(c) \/ Accept(c) \/ Reject(c)
  \/ \E o \in DOMAIN price : BlockedElsewhere(o) \/ Expire(o)

Spec == Init /\ [][Next]_vars

\* Karpenter's core tries a claim again; the API server answers.
Fairness ==
  \A c \in Claims : WF_vars(Launch(c)) /\ WF_vars(Accept(c) \/ Reject(c))

FairSpec == Spec /\ Fairness

-----------------------------------------------------------------------------
(* Properties.                                                             *)

\* A claim asks for a cheapest offering of those it may use, unless on-demand
\* offerings that it may not use made filterUnwantedSpot drop a cheaper one
\* (Create, filterUnwantedSpot).
CheapestIsTried ==
  [][\A c \in Claims : step'[c] = "asking" /\ step[c] # "asking" =>
       /\ request'[c] \in Available /\ Compatible(request'[c])
       /\ \A q \in Available : Compatible(q) /\ price[q] < price[request'[c]] =>
            /\ wants.caps = Caps /\ wants.minTypes = 0
            /\ \E p \in Available : p.cap = "on-demand" /\ ~Compatible(p)
                                    /\ price[p] < price[q]]_vars

\* No claim asks again for what it was refused while that block stands, be it
\* named by the cloud's zone or by the zone found from its ID
\* (BlockInstanceType in Create, isBlocked in List).
NoRepeat ==
  \A c \in Claims : request[c] \notin refused[c]

\* Filtering leaves a type whenever one was resolved (filterUnwantedSpot,
\* "no instance types available"); only minValues may ask for more.
FilterLeavesAType ==
  Resolved # {} => TypesOf(Filtered) # {}

\* A usable offering in a zone that cannot be launched into.
DeadEnd ==
  \E o \in Available : Compatible(o) /\ ZonesBack[o.zone] \cap subnets = {}

\* Every claim ends launched or short of capacity, unless an offering lies in
\* a zone without a subnet or ID, which nothing blocks, or the claim asks for
\* more types than there are (Create, "subnet for %s not found").
EveryClaimSettles ==
  <>[](\A c \in Claims :
         \/ step[c] \in {"launched", "insufficient"}
         \/ step[c] \in {"no subnet", "no such zone"} /\ DeadEnd
         \/ step[c] = "no types left" /\ Cardinality(TypesOf(Resolved)) < wants.minTypes)
=============================================================================
