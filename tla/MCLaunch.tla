------------------------------ MODULE MCLaunch ------------------------------
(***************************************************************************)
(* Model checking of LaunchDecision and of the calculations it rests on.   *)
(* Markets: two zones of a region and one that has no identifier, up to    *)
(* three offerings with prices in any order.  Where nothing is sold and    *)
(* the claims have given up, one question is put to Calculations.          *)
(***************************************************************************)
EXTENDS LaunchDecision, Calculations

(* Markets.                                                                *)
G3 == <<<<"ap", "guangzhou">>, 3>>
G4 == <<<<"ap", "guangzhou">>, 4>>
Foreign == <<<<"ap", "nowhere">>, 1>>
MCZoneParts == {G3, G4, Foreign}
Near == {ZoneName(G3[1], G3[2]), ZoneName(G4[1], G4[2])}

\* Prices without gaps: any comparison of up to Cardinality(S) prices.
Ranked(S) ==
  {m \in [S -> 1..Cardinality(S)] : \A o \in S : m[o] > 1 => \E q \in S : m[q] = m[o] - 1}
MCMarkets ==
  UNION {Ranked(S) : S \in UNION {kSubset(n, Offerings) : n \in 0..2}
                           \cup kSubset(3, {o \in Offerings : o.zone \in Near})}
MCSubnetSets == {{ZoneName(G3[1], G3[2])}, Near}
MCWants ==
  [caps : (SUBSET Caps) \ {{}}, zones : {{ID[ZoneName(G3[1], G3[2])]}, AnyZone}, minTypes : {0}]
    \cup [caps : {Caps}, zones : {AnyZone}, minTypes : {2}]

(* Questions: every region of the table and one out of it; up to eleven    *)
(* IDs, the size of three batches, with or without a term of tags; items   *)
(* around every level.                                                     *)
ZoneQuestions ==
  [about : {"zone"}, region : Regions \cup {Foreign[1]}, number : {0, 1, 7, 999, 1000}]

Keyed(n) == [i \in 1..n |-> [id |-> i, tags |-> {}]]
Tagged == {<<>>} \cup {<<[id |-> NoID, tags |-> T]>> : T \in (SUBSET Conditions) \ {{}}}
TagSets ==
  {[r \in Resources |->
      {c \in Conditions : r % 3 = 0 \/ (c = "a" /\ r % d = 0)}
        \cup (IF r = e THEN {} ELSE {InVPC})] : d \in {1, 2}, e \in {0, 5, 6}}
SelectorQuestions ==
  [about : {"selector"}, kind : {"subnet", "other"},
   terms : {t \o k : k \in {Keyed(n) : n \in 0..11}, t \in Tagged}, tags : TagSets]

Items == [cpus : {1, 2, 3, 4, 47, 48, 64, 128, 200},
          gb : (1..17) \cup {63, 64, 65} \cup (126..130) \cup {1024}, gpus : {0, 1}]
Clusters ==
  {None} \cup [vpcCNI : BOOLEAN, vpcCNIAdded : BOOLEAN, maxNodePodNum : {0, 64, 256}]
Limits ==
  {None, <<>>, [eniip |-> 9, directeni |-> 4], [eniip |-> 300, directeni |-> 4, subeni |-> 8]}
DiskSets ==
  {<<>>, <<[size |-> 20, holdsPods |-> TRUE], [size |-> 3, holdsPods |-> TRUE],
           [size |-> 90, holdsPods |-> FALSE]>>}
CapacityQuestions ==
  {q \in [about : {"capacity"}, item : {i \in Items : i.gpus = 0 \/ i.gb = 16}, disks : DiskSets,
          newer : BOOLEAN, cluster : Clusters, limits : Limits] :
     q.disks = <<>> <=> q.item.gpus = 0}

MCQuestions == ZoneQuestions \cup SelectorQuestions \cup CapacityQuestions

\* Claims that name no resource, one of the capacity, and one that is reserved.
MCMetas ==
  LET none == [g \in Groups |-> <<>>]
  IN  {none, [none EXCEPT !.capacity = [Pods |-> 1]],
       [none EXCEPT !.kubeReserved = [EphemeralStorage |-> 1]]}

\* Questions do not depend on the launch: one scenario is enough for them.
GivenUp ==
  /\ price = <<>> /\ subnets = Near /\ wants.minTypes = 2
  /\ \A c \in Claims : step[c] = "insufficient"

MCInit == Init /\ Unasked
MCNext == (Next /\ UNCHANGED question) \/ (GivenUp /\ Ask /\ UNCHANGED vars)
MCSpec == MCInit /\ [][MCNext]_<<vars, question>> /\ Fairness
=============================================================================
