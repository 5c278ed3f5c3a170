------------------------- MODULE InstanceTypeCache --------------------------
(***************************************************************************)
(* Concurrent calls of instancetype.DefaultProvider.List and the cache     *)
(* they share.  A List looks up four parts one after the other: on-demand  *)
(* types, spot types, pod limits of the zones, and the cluster record.  A  *)
(* part that is not cached is fetched from the cloud and then stored; any  *)
(* other List may run between a fetch and its store.  The failure          *)
(* controller's Lists flush the whole cache first.                         *)
(*                                                                         *)
(* Data is the version of the world (inventory, prices, NodeClaims, pod    *)
(* limits, cluster) it tells of, and the class it was fetched for: types   *)
(* are asked for in the zones of the class's subnets and of its            *)
(* NodeClaims, but cached under the subnets' zones only.  The cloud keeps  *)
(* a cache of the inventory itself, which only a refreshing List passes    *)
(* by.  A part that takes several requests, one for each architecture or   *)
(* zone, counts as old as the oldest answer.  What a List computes from    *)
(* its parts is in LaunchDecision and InstanceCapacity; the blacklist it   *)
(* applies is in OfferingBlacklist.                                        *)
(***************************************************************************)
EXTENDS Naturals

CONSTANTS
  Lists,       \* calls that may run at the same time
  Classes,     \* the TKEMachineNodeClasses
  SubnetZones, \* the set of zones that the subnets of each class lie in
  Nothing,     \* no data
  TTL,         \* ticks an entry lives: 10 minutes
  MaxVersion   \* bound on the versions of the world

ASSUME CacheAssumption ==
  /\ TTL \in Nat \ {0} /\ MaxVersion \in Nat
  /\ Nothing \notin Classes
  /\ Nothing \notin [version : Nat, class : Classes]
                     \cup [version : Nat, class : Classes, age : Nat]
                     \cup [at : Nat, disturbed : SUBSET {"od", "spot", "eni", "cluster"}]

VARIABLES
  world,     \* the present version
  cache,     \* what is cached under each key, with its age
  step,      \* per List: the part it is at, or "idle" or "answered"
  class,     \* per List: the class it is called for
  fetched,   \* per List: data fetched and not stored yet
  got,       \* per List: the parts it will answer with
  flushed,   \* per List that refreshes: the version at its flush, and the
             \*   parts that other Lists disturb it in (both history)
  recordSeen \* Lists during which the cluster record was always cached (history)

listVars == <<step, class, fetched, got, flushed, recordSeen>>
vars == <<world, cache, listVars>>

Parts == {"od", "spot", "eni", "cluster"}
NextPart(p) ==
  CASE p = "od" -> "spot" [] p = "spot" -> "eni" [] p = "eni" -> "cluster"
    [] p = "cluster" -> "answered"

\* The parts that DescribeZoneInstanceConfigInfos answers.
Inventory == {"od", "spot"}

\* The cluster record is cached under one key, the other parts under the zones
\* of the subnets of the class.
Keys == ({"od", "spot", "eni"} \X {SubnetZones[c] : c \in Classes})
          \cup {<<"cluster", Nothing>>}

\* The hash of the zones is left out of the key.
FaultyKey(p, c) == <<p, IF p = "cluster" THEN Nothing
                        ELSE SubnetZones[CHOOSE d \in Classes : TRUE]>>

Key(p, c) == <<p, IF p = "cluster" THEN Nothing ELSE SubnetZones[c]>>

Versions == 0..MaxVersion
Data == [version : Versions, class : Classes]
Entries == [version : Versions, class : Classes, age : 0..TTL - 1] \cup {Nothing}
Cached(k) == cache[k] # Nothing
Empty == [k \in Keys |-> Nothing]
NoParts == [p \in Parts |-> Nothing]
Running(l) == step[l] \in Parts
Refreshes(l) == flushed[l] # Nothing
KeyOf(l) == Key(step[l], class[l])

TypeOK ==
  /\ world \in Versions
  /\ cache \in [Keys -> Entries]
  /\ step \in [Lists -> Parts \cup {"idle", "answered"}]
  /\ class \in [Lists -> Classes \cup {Nothing}]
  /\ \A l \in Lists : Running(l) => class[l] \in Classes
  /\ fetched \in [Lists -> Data \cup {Nothing}]
  /\ \A l \in Lists : fetched[l] # Nothing => Running(l)
  /\ got \in [Lists -> [Parts -> Data \cup {Nothing}]]
  /\ flushed \in [Lists -> [at : Versions, disturbed : SUBSET Parts] \cup {Nothing}]
  /\ recordSeen \subseteq Lists

Init ==
  /\ world = 0
  /\ cache = Empty
  /\ step = [l \in Lists |-> "idle"]
  /\ class = [l \in Lists |-> Nothing]
  /\ fetched = [l \in Lists |-> Nothing]
  /\ got = [l \in Lists |-> NoParts]
  /\ flushed = [l \in Lists |-> Nothing]
  /\ recordSeen = {}

\* History: no List sees the record any longer when the entry goes.
Seeing(lists) == IF Cached(Key("cluster", Nothing))' THEN lists ELSE {}

\* Only the parts of the List's own zones are flushed.
FaultyFlush(c) == [k \in Keys |-> IF k[2] = SubnetZones[c] THEN Nothing ELSE cache[k]]

\* The whole cache is flushed, whatever the class.
Flush(c) == Empty

\* List begins; with refresh it flushes.
Start(l, c, refresh) ==
  /\ ~Running(l)
  /\ cache' = IF refresh THEN Flush(c) ELSE cache
  /\ step' = [step EXCEPT ![l] = "od"]
  /\ class' = [class EXCEPT ![l] = c]
  /\ got' = [got EXCEPT ![l] = NoParts]
  /\ flushed' = [flushed EXCEPT ![l] =
       IF refresh
       THEN [at |-> world,
             disturbed |-> {p \in Parts : \E m \in Lists :
                              fetched[m] # Nothing /\ KeyOf(m) = Key(p, c)}]
       ELSE Nothing]
  /\ recordSeen' = Seeing(recordSeen \cup {l})
  /\ UNCHANGED <<world, fetched>>

\* What a List reads of an entry.
Read(k) == [version |-> cache[k].version, class |-> cache[k].class]

\* An entry that is read lives on.
FaultyHit(l) ==
  /\ Running(l) /\ Cached(KeyOf(l)) /\ fetched[l] = Nothing
  /\ got' = [got EXCEPT ![l][step[l]] = Read(KeyOf(l))]
  /\ cache' = [cache EXCEPT ![KeyOf(l)].age = 0]
  /\ step' = [step EXCEPT ![l] = NextPart(step[l])]
  /\ UNCHANGED <<world, class, fetched, flushed, recordSeen>>

\* The part is cached.
Hit(l) ==
  /\ Running(l) /\ Cached(KeyOf(l)) /\ fetched[l] = Nothing
  /\ got' = [got EXCEPT ![l][step[l]] = Read(KeyOf(l))]
  /\ step' = [step EXCEPT ![l] = NextPart(step[l])]
  /\ UNCHANGED <<world, cache, class, fetched, flushed, recordSeen>>

\* The parameter refresh does not reach the request.
FaultyOffered(l) == IF step[l] \in Inventory THEN 0..world ELSE {world}

\* The versions that the cloud may answer with: of the inventory any one it
\* still has in its cache, unless the request refreshes that.
Offered(l) ==
  IF step[l] \in Inventory /\ ~Refreshes(l) THEN 0..world ELSE {world}

\* History: a List asks for inventory without a refresh, and one that refreshes
\* and has not come to this part may find the answer in the cache.
Disturbs(l, m) ==
  /\ Refreshes(m) /\ ~Refreshes(l)
  /\ step[l] \in Inventory /\ KeyOf(l) = Key(step[l], class[m])
  /\ got[m][step[l]] = Nothing

\* The part is not cached: the cloud is asked.
Fetch(l) ==
  /\ Running(l) /\ ~Cached(KeyOf(l)) /\ fetched[l] = Nothing
  /\ \E v \in Offered(l) :
       fetched' = [fetched EXCEPT ![l] = [version |-> v, class |-> class[l]]]
  /\ flushed' = [m \in Lists |->
       IF Disturbs(l, m) THEN [flushed[m] EXCEPT !.disturbed = @ \cup {step[l]}]
       ELSE flushed[m]]
  /\ UNCHANGED <<world, cache, step, class, got, recordSeen>>

\* List returns an error: a request failed, or, before the first part, the
\* version of the server is not to be had.  The flush and what is cached stay.
Fails(l) ==
  /\ \/ Running(l) /\ (fetched[l] # Nothing \/ ~Cached(KeyOf(l)))
     \/ step[l] = "od"
  /\ step' = [step EXCEPT ![l] = "idle"]
  /\ fetched' = [fetched EXCEPT ![l] = Nothing]
  /\ got' = [got EXCEPT ![l] = NoParts]
  /\ flushed' = [flushed EXCEPT ![l] = Nothing]
  /\ recordSeen' = recordSeen \ {l}
  /\ UNCHANGED <<world, cache, class>>

\* No part is used by the List that fetched it.
FaultyUsed(p, data) == Nothing

\* What a List uses of a part it fetched itself.  It caches the cluster record
\* but computes with an empty one.
Used(p, data) == IF p = "cluster" THEN Nothing ELSE data

\* What was fetched replaces what another List stored in the meantime.
Store(l) ==
  /\ Running(l) /\ fetched[l] # Nothing
  /\ cache' = [cache EXCEPT ![KeyOf(l)] =
       [version |-> fetched[l].version, class |-> fetched[l].class, age |-> 0]]
  /\ got' = [got EXCEPT ![l][step[l]] = Used(step[l], fetched[l])]
  /\ fetched' = [fetched EXCEPT ![l] = Nothing]
  /\ step' = [step EXCEPT ![l] = NextPart(step[l])]
  /\ UNCHANGED <<world, class, flushed, recordSeen>>

\* An entry outlives its lifetime by a tick.
FaultyTick ==
  /\ cache' = [k \in Keys |->
                 IF Cached(k) /\ cache[k].age <= TTL - 1
                 THEN [cache[k] EXCEPT !.age = @ + 1] ELSE Nothing]
  /\ recordSeen' = Seeing(recordSeen)
  /\ UNCHANGED <<world, step, class, fetched, got, flushed>>

\* Time passes: an entry that reaches its lifetime is gone.
Tick ==
  /\ cache' = [k \in Keys |->
                 IF Cached(k) /\ cache[k].age < TTL - 1
                 THEN [cache[k] EXCEPT !.age = @ + 1] ELSE Nothing]
  /\ recordSeen' = Seeing(recordSeen)
  /\ UNCHANGED <<world, step, class, fetched, got, flushed>>

Change ==
  /\ world < MaxVersion /\ world' = world + 1
  /\ UNCHANGED <<cache, listVars>>

Next ==
  \/ \E l \in Lists :
       \/ \E c \in Classes, refresh \in BOOLEAN : Start(l, c, refresh)
       \/ Hit(l) \/ Fetch(l) \/ Fails(l) \/ Store(l)
  \/ Tick
  \/ Change

Spec == Init /\ [][Next]_vars

\* The cloud answers with data that is out of date.
FetchStale(l) == Fetch(l) /\ fetched'[l].version # world

\* A List that began goes on to its end; time passes; and the cloud's cache
\* follows the inventory when that stops changing.
Fairness ==
  /\ \A l \in Lists : WF_vars(Hit(l) \/ Fetch(l) \/ Fails(l) \/ Store(l))
  /\ WF_vars(Tick)
  /\ <>[][\A l \in Lists : ~FetchStale(l)]_vars

FairSpec == Spec /\ Fairness

-----------------------------------------------------------------------------
(* Properties.                                                             *)

\* A List that refreshed answers with nothing older than its flush, whatever
\* was cached (List, providerCache.Flush and the filter refresh-cache), except
\* for a part that another List disturbed: that one had fetched it but not yet
\* stored at the flush, or, of the inventory, fetched it without a refresh
\* before this List came to it.
RefreshIsFresh ==
  \A l \in Lists : step[l] = "answered" /\ Refreshes(l) =>
    \A p \in Parts \ flushed[l].disturbed :
      got[l][p] # Nothing => got[l][p].version >= flushed[l].at

\* An answer has every part, but the cluster record may be missing; it never
\* is when the record was cached from the List's beginning to its end.
OnlyARecordIsMissing ==
  \A l \in Lists : step[l] = "answered" =>
    \A p \in Parts : got[l][p] = Nothing => p = "cluster" /\ l \notin recordSeen

\* The types and limits of an answer were asked for in the zones of the class's
\* subnets, whichever class put them in the cache.  The zones of NodeClaims
\* that were asked for as well may be those of another class.
SubnetsAreAskedFor ==
  \A l \in Lists : step[l] = "answered" =>
    \A p \in Parts \ {"cluster"} : got[l][p] # Nothing =>
      SubnetZones[got[l][p].class] = SubnetZones[class[l]]

\* When the world stops changing, the cache becomes and stays up to date,
\* although a late store may put older data over newer (SetDefault after a
\* concurrent refresh) and Lists keep reading what is cached.
CacheCatchesUp ==
  <>[](\A k \in Keys : Cached(k) => cache[k].version = world)
=============================================================================
