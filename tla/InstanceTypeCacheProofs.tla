---------------------- MODULE InstanceTypeCacheProofs -----------------------
(***************************************************************************)
(* Proofs about InstanceTypeCache, for any number of Lists and classes,    *)
(* any zones, versions and lifetime.                                       *)
(*                                                                         *)
(* The inductive invariant says of a List that flushed what RefreshIsFresh *)
(* says of its answer, already of the parts it has, of the entries it may  *)
(* still hit, and of the data that other Lists may still store over them,  *)
(* for the parts it has not come to yet.                                   *)
(***************************************************************************)
EXTENDS InstanceTypeCache, TLAPS

RecordKey == Key("cluster", Nothing)

LEMMA KeyTypes ==
  ASSUME NEW p \in Parts, NEW c \in Classes
  PROVE  Key(p, c) \in Keys
BY DEF Parts, Keys, Key

LEMMA TypeIsInductive == TypeOK /\ [Next]_vars => TypeOK'
<1> SUFFICES ASSUME TypeOK, [Next]_vars
             PROVE  TypeOK'
  OBVIOUS
<1> USE CacheAssumption DEF TypeOK, Running
<1>1. ASSUME NEW l \in Lists, NEW c \in Classes, NEW r \in BOOLEAN, Start(l, c, r)
      PROVE  TypeOK'
  BY <1>1 DEF Start, Flush, Empty, Entries, NoParts, Parts, Versions, Seeing
<1>2. ASSUME NEW l \in Lists, Running(l)
      PROVE  /\ KeyOf(l) \in Keys
             /\ NextPart(step[l]) \in Parts \cup {"answered"}
  BY <1>2, KeyTypes DEF KeyOf, NextPart, Parts
<1>3. ASSUME NEW l \in Lists, Hit(l)
      PROVE  TypeOK'
  <2>1. Read(KeyOf(l)) \in Data
    BY <1>2, <1>3 DEF Hit, Cached, Entries, Read, Data
  <2> QED
    BY <1>2, <1>3, <2>1 DEF Hit
<1>4. ASSUME NEW l \in Lists, Fetch(l)
      PROVE  TypeOK'
  <2>1. \A v \in Offered(l) : [version |-> v, class |-> class[l]] \in Data
    BY <1>4 DEF Fetch, Offered, Data, Versions
  <2>2. ASSUME NEW m \in Lists, Disturbs(l, m)
        PROVE  [flushed[m] EXCEPT !.disturbed = @ \cup {step[l]}]
                 \in [at : Versions, disturbed : SUBSET Parts]
    <3>1. flushed[m] \in [at : Versions, disturbed : SUBSET Parts] /\ step[l] \in Parts
      BY <1>4, <2>2 DEF Fetch, Disturbs, Refreshes
    <3> QED
      BY <3>1
  <2>3. flushed' \in [Lists -> [at : Versions, disturbed : SUBSET Parts] \cup {Nothing}]
    BY <1>4, <2>2 DEF Fetch
  <2>4. fetched' \in [Lists -> Data \cup {Nothing}]
    BY <1>4, <2>1 DEF Fetch
  <2>5. \A m \in Lists : fetched'[m] # Nothing => step[m] \in Parts
    BY <1>4 DEF Fetch
  <2> QED
    BY <1>4, <2>3, <2>4, <2>5 DEF Fetch
<1>5. ASSUME NEW l \in Lists, Fails(l)
      PROVE  TypeOK'
  BY <1>5 DEF Fails, NoParts
<1>6. ASSUME NEW l \in Lists, Store(l)
      PROVE  TypeOK'
  <2>1. /\ fetched[l] \in Data
        /\ [version |-> fetched[l].version, class |-> fetched[l].class, age |-> 0]
             \in Entries
    BY <1>6 DEF Store, Entries, Data
  <2>2. Used(step[l], fetched[l]) \in Data \cup {Nothing}
    BY <2>1 DEF Used
  <2> QED
    BY <1>2, <1>6, <2>1, <2>2 DEF Store
<1>7. CASE Tick
  <2>1. ASSUME NEW k \in Keys, Cached(k), cache[k].age < TTL - 1
        PROVE  [cache[k] EXCEPT !.age = @ + 1] \in Entries
    BY <2>1 DEF Cached, Entries
  <2>2. cache' \in [Keys -> Entries]
    BY <1>7, <2>1 DEF Tick, Entries
  <2> QED
    BY <1>7, <2>2 DEF Tick, Seeing
<1>8. CASE Change
  BY <1>8 DEF Change, listVars, Versions
<1>9. CASE UNCHANGED vars
  BY <1>9 DEF vars, listVars
<1> QED
  BY <1>1, <1>3, <1>4, <1>5, <1>6, <1>7, <1>8, <1>9 DEF Next

\* Whatever Lists do at the same time, entries stay in their lifetime and no
\* List holds fetched data once it has ended.
THEOREM TypeCorrect == Spec => []TypeOK
<1>1. Init => TypeOK
  BY CacheAssumption DEF Init, TypeOK, Empty, Entries, NoParts, Running, Parts, Versions
<1> QED
  BY <1>1, TypeIsInductive, PTL DEF Spec

-----------------------------------------------------------------------------
\* The parts that a List has still to look up; it has nothing of them yet.
Ahead(l) ==
  CASE step[l] = "od" -> Parts [] step[l] = "spot" -> Parts \ {"od"}
    [] step[l] = "eni" -> {"eni", "cluster"} [] step[l] = "cluster" -> {"cluster"}
    [] OTHER -> {}

NothingAhead == \A l \in Lists : \A p \in Ahead(l) : got[l][p] = Nothing

\* Of a List that flushed: what it has, and, of what it has not come to, what
\* it may hit and what may be stored there.
Fresh(l) ==
  flushed[l] # Nothing =>
    /\ class[l] \in Classes
    /\ \A p \in Parts \ flushed[l].disturbed :
         /\ got[l][p] # Nothing => got[l][p].version >= flushed[l].at
         /\ p \in Ahead(l) =>
              /\ Cached(Key(p, class[l])) =>
                   cache[Key(p, class[l])].version >= flushed[l].at
              /\ \A m \in Lists : fetched[m] # Nothing /\ KeyOf(m) = Key(p, class[l])
                   => fetched[m].version >= flushed[l].at

NoFuture ==
  \A l \in Lists : flushed[l] # Nothing => flushed[l].at <= world

\* The parts that a List has looked up.
Passed(l) ==
  CASE step[l] = "spot" -> {"od"} [] step[l] = "eni" -> {"od", "spot"}
    [] step[l] = "cluster" -> {"od", "spot", "eni"} [] step[l] = "answered" -> Parts
    [] OTHER -> {}

Complete(l) ==
  \A p \in Passed(l) : got[l][p] = Nothing => p = "cluster" /\ l \notin recordSeen

RecordIsSeen ==
  recordSeen # {} => Cached(RecordKey)

\* What is cached, fetched and had was asked for in the zones it is used for.
ZonesFit ==
  /\ \A k \in Keys : Cached(k) /\ k[1] # "cluster" => SubnetZones[cache[k].class] = k[2]
  /\ \A l \in Lists : fetched[l] # Nothing => fetched[l].class = class[l]
  /\ \A l \in Lists : \A p \in Parts \ {"cluster"} : got[l][p] # Nothing =>
       SubnetZones[got[l][p].class] = SubnetZones[class[l]]

IInv ==
  /\ TypeOK
  /\ NoFuture
  /\ NothingAhead
  /\ \A l \in Lists : Fresh(l)
  /\ \A l \in Lists : Complete(l)
  /\ \A l \in Lists : fetched[l] # Nothing /\ step[l] = "cluster" => l \notin recordSeen
  /\ RecordIsSeen
  /\ ZonesFit

LEMMA TickKeepsData ==
  ASSUME TypeOK, Tick, NEW k \in Keys, cache'[k] # Nothing
  PROVE  /\ cache[k] # Nothing
         /\ cache'[k].version = cache[k].version /\ cache'[k].class = cache[k].class
<1>1. cache[k] # Nothing /\ cache'[k] = [cache[k] EXCEPT !.age = @ + 1]
  BY DEF Tick, Cached
<1>2. cache[k] \in [version : Versions, class : Classes, age : 0..TTL - 1]
  BY <1>1 DEF TypeOK, Entries
<1> QED
  BY <1>1, <1>2

LEMMA StepsAhead ==
  ASSUME NEW l \in Lists, step[l] \in Parts, TypeOK,
         step' = [step EXCEPT ![l] = NextPart(step[l])]
  PROVE  /\ step[l] \in Ahead(l)
         /\ Ahead(l)' = Ahead(l) \ {step[l]}
         /\ \A n \in Lists \ {l} : Ahead(n)' = Ahead(n)
<1>1. step'[l] = NextPart(step[l])
  BY DEF TypeOK
<1>2. \A n \in Lists \ {l} : step'[n] = step[n]
  BY DEF TypeOK
<1>3. Ahead(l)' = Ahead(l) \ {step[l]}
  BY <1>1 DEF Ahead, NextPart, Parts
<1> QED
  BY <1>2, <1>3 DEF Ahead, Parts

LEMMA AheadIsInductive ==
  ASSUME TypeOK, NothingAhead, [Next]_vars
  PROVE  NothingAhead'
<1>1. ASSUME NEW l \in Lists, NEW c \in Classes, NEW r \in BOOLEAN, Start(l, c, r)
      PROVE  NothingAhead'
  <2>1. ASSUME NEW n \in Lists, NEW p \in Ahead(n)'
        PROVE  got'[n][p] = Nothing
    <3>1. CASE n = l
      <4>1. p \in Parts /\ got'[n] = NoParts
        BY <1>1, <2>1, <3>1 DEF Start, TypeOK, Ahead, Parts
      <4> QED
        BY <4>1 DEF NoParts
    <3>2. CASE n # l
      BY <1>1, <2>1, <3>2 DEF Start, TypeOK, Ahead, NothingAhead
    <3> QED
      BY <3>1, <3>2
  <2> QED
    BY <2>1 DEF NothingAhead
<1>2. ASSUME NEW l \in Lists, Hit(l) \/ Store(l)
      PROVE  NothingAhead'
  <2>1. /\ step[l] \in Parts
        /\ step' = [step EXCEPT ![l] = NextPart(step[l])]
        /\ \A n \in Lists, p \in Parts : n # l \/ p # step[l] => got'[n][p] = got[n][p]
    BY <1>2 DEF Hit, Store, Running, TypeOK
  <2>a. /\ Ahead(l)' \subseteq Ahead(l)
        /\ \A n \in Lists \ {l} : Ahead(n)' = Ahead(n)
    BY <2>1, StepsAhead
  <2>b. \A n \in Lists : Ahead(n) \subseteq Parts
    BY DEF Ahead, Parts
  <2>2. \A n \in Lists : Ahead(n)' \subseteq Ahead(n) /\ Ahead(n) \subseteq Parts
    BY <2>a, <2>b
  <2>3. step[l] \notin Ahead(l)'
    BY <2>1, StepsAhead
  <2> QED
    BY <2>1, <2>2, <2>3 DEF NothingAhead
<1>3. ASSUME NEW l \in Lists, Fails(l)
      PROVE  NothingAhead'
  <2>1. step' = [step EXCEPT ![l] = "idle"] /\ got' = [got EXCEPT ![l] = NoParts]
    BY <1>3 DEF Fails
  <2> QED
    BY <2>1 DEF NothingAhead, TypeOK, Ahead
<1>4. ASSUME NEW l \in Lists, Fetch(l)
      PROVE  NothingAhead'
  BY <1>4 DEF Fetch, NothingAhead, Ahead
<1>5. CASE Tick \/ Change \/ UNCHANGED vars
  BY <1>5 DEF Tick, Change, vars, listVars, NothingAhead, Ahead
<1> QED
  BY <1>1, <1>2, <1>3, <1>4, <1>5 DEF Next

LEMMA FreshIsInductive ==
  ASSUME TypeOK, TypeOK', NoFuture, NothingAhead, \A l \in Lists : Fresh(l), [Next]_vars
  PROVE  NoFuture' /\ \A l \in Lists : Fresh(l)'
<1> USE CacheAssumption DEF Running, Versions, Data
<1>0. /\ \A p \in Parts, c \in Classes : Key(p, c) \in Keys
      /\ \A l \in Lists : Ahead(l) \subseteq Parts
  BY KeyTypes DEF Ahead, Parts
<1>1. ASSUME NEW l \in Lists, NEW c \in Classes, NEW r \in BOOLEAN, Start(l, c, r)
      PROVE  NoFuture' /\ \A n \in Lists : Fresh(n)'
  <2>1. NoFuture'
    BY <1>1 DEF Start, NoFuture, TypeOK
  <2>2. ASSUME NEW n \in Lists
        PROVE  Fresh(n)'
    <3>1. \A m \in Lists : fetched[m] # Nothing => m # l /\ KeyOf(m)' = KeyOf(m)
      BY <1>1 DEF Start, TypeOK, KeyOf
    <3>2. CASE n = l
      <4>1. SUFFICES ASSUME flushed'[l] # Nothing
                     PROVE  Fresh(l)'
        BY <3>2 DEF Fresh
      <4>2. /\ cache' = Empty /\ class'[l] = c /\ got'[l] = NoParts
            /\ flushed'[l].disturbed = {p \in Parts : \E m \in Lists :
                                          fetched[m] # Nothing /\ KeyOf(m) = Key(p, c)}
            /\ fetched' = fetched
        BY <1>1, <4>1 DEF Start, TypeOK, Flush
      <4> QED
        BY <1>0, <3>1, <4>2 DEF Fresh, Empty, Cached, NoParts
    <3>3. CASE n # l
      <4>1. /\ flushed'[n] = flushed[n] /\ class'[n] = class[n] /\ got'[n] = got[n]
            /\ Ahead(n)' = Ahead(n) /\ fetched' = fetched
            /\ \A k \in Keys : cache'[k] = cache[k] \/ cache'[k] = Nothing
        BY <1>1, <3>3 DEF Start, TypeOK, Ahead, Flush, Empty
      <4> QED
        BY <1>0, <3>1, <4>1 DEF Fresh, Cached
    <3> QED
      BY <3>2, <3>3
  <2> QED
    BY <2>1, <2>2
<1>2. ASSUME NEW l \in Lists, Hit(l)
      PROVE  NoFuture' /\ \A n \in Lists : Fresh(n)'
  <2>1. NoFuture'
    BY <1>2 DEF Hit, NoFuture
  <2>2. ASSUME NEW n \in Lists
        PROVE  Fresh(n)'
    <3>1. \A m \in Lists : fetched[m] # Nothing => m # l /\ KeyOf(m)' = KeyOf(m)
      BY <1>2 DEF Hit, TypeOK, KeyOf
    <3>2. CASE n = l
      <4>1. /\ got' = [got EXCEPT ![l][step[l]] = Read(KeyOf(l))]
            /\ Cached(Key(step[l], class[l])) /\ step[l] \in Parts
            /\ step' = [step EXCEPT ![l] = NextPart(step[l])]
        BY <1>2 DEF Hit, KeyOf
      <4>2. step[l] \in Ahead(l) /\ Ahead(l)' \subseteq Ahead(l)
        BY <4>1, StepsAhead
      <4>3. Read(KeyOf(l)).version = cache[Key(step[l], class[l])].version
        BY DEF Read, KeyOf
      <4>4. \A p \in Parts : got'[l][p] = IF p = step[l] THEN Read(KeyOf(l)) ELSE got[l][p]
        BY <4>1 DEF TypeOK
      <4> QED
        BY <1>2, <3>1, <3>2, <4>1, <4>2, <4>3, <4>4 DEF Hit, Fresh, Cached
    <3>3. CASE n # l
      <4>1. Ahead(n)' = Ahead(n) /\ got'[n] = got[n]
        BY <1>2, <3>3, StepsAhead DEF Hit, TypeOK
      <4> QED
        BY <1>2, <3>1, <4>1 DEF Hit, Fresh, Cached
    <3> QED
      BY <3>2, <3>3
  <2> QED
    BY <2>1, <2>2
<1>3. ASSUME NEW l \in Lists, Fetch(l)
      PROVE  NoFuture' /\ \A n \in Lists : Fresh(n)'
  <2>1. /\ world' = world /\ cache' = cache /\ step' = step /\ class' = class
        /\ got' = got /\ step[l] \in Parts /\ class[l] \in Classes
    BY <1>3 DEF Fetch, TypeOK
  <2>2. ASSUME NEW n \in Lists
        PROVE  flushed'[n] = IF Disturbs(l, n)
                             THEN [flushed[n] EXCEPT !.disturbed = @ \cup {step[l]}]
                             ELSE flushed[n]
    BY <1>3 DEF Fetch
  <2>3. ASSUME NEW n \in Lists, flushed'[n] # Nothing
        PROVE  /\ flushed[n] # Nothing /\ flushed'[n].at = flushed[n].at
               /\ flushed'[n].disturbed
                    = flushed[n].disturbed \cup (IF Disturbs(l, n) THEN {step[l]} ELSE {})
    <3>1. flushed[n] # Nothing
      BY <2>2, <2>3 DEF Disturbs, Refreshes
    <3>2. flushed[n] \in [at : Versions, disturbed : SUBSET Parts]
      BY <3>1 DEF TypeOK
    <3> QED
      BY <2>2, <3>1, <3>2
  <2>4. NoFuture'
    BY <2>1, <2>3 DEF NoFuture
  <2>5. PICK v \in Offered(l) :
          fetched' = [fetched EXCEPT ![l] = [version |-> v, class |-> class[l]]]
    BY <1>3 DEF Fetch
  <2>6. fetched'[l].version = v
    BY <2>5 DEF TypeOK
  <2>7. ASSUME NEW n \in Lists, flushed'[n] # Nothing,
               NEW p \in Parts \ flushed'[n].disturbed, p \in Ahead(n),
               KeyOf(l) = Key(p, class[n])
        PROVE  v >= flushed[n].at
    \* What is fetched now is as new as the flush, or disturbs this List.
    <3>1. p = step[l] /\ got[n][p] = Nothing
      BY <2>7 DEF KeyOf, Key, NothingAhead
    <3>2. ~Disturbs(l, n) /\ Refreshes(n)
      BY <2>3, <2>7, <3>1 DEF Refreshes
    <3>3. v = world
      BY <2>5, <2>7, <3>1, <3>2 DEF Disturbs, Offered
    <3> QED
      BY <2>3, <2>7, <3>3 DEF NoFuture, TypeOK
  <2>8. ASSUME NEW n \in Lists
        PROVE  Fresh(n)'
    <3>1. SUFFICES ASSUME flushed'[n] # Nothing
                   PROVE  Fresh(n)'
      BY DEF Fresh
    <3>2. SUFFICES ASSUME NEW p \in Parts \ flushed'[n].disturbed, p \in Ahead(n),
                          NEW m \in Lists, fetched'[m] # Nothing, KeyOf(m) = Key(p, class[n])
                   PROVE  fetched'[m].version >= flushed[n].at
      <4>1. Ahead(n)' = Ahead(n) /\ \A m \in Lists : KeyOf(m)' = KeyOf(m)
        BY <2>1 DEF Ahead, KeyOf
      <4> QED
        BY <2>1, <2>3, <3>1, <3>2, <4>1 DEF Fresh, Cached
    <3>3. CASE m = l
      BY <2>6, <2>7, <3>1, <3>2, <3>3
    <3>4. CASE m # l
      BY <2>3, <2>5, <3>1, <3>2, <3>4 DEF Fresh, TypeOK
    <3> QED
      BY <3>3, <3>4
  <2> QED
    BY <2>4, <2>8
<1>4. ASSUME NEW l \in Lists, Fails(l)
      PROVE  NoFuture' /\ \A n \in Lists : Fresh(n)'
  <2>1. \A m \in Lists : fetched'[m] # Nothing =>
          m # l /\ fetched'[m] = fetched[m] /\ KeyOf(m)' = KeyOf(m)
    BY <1>4 DEF Fails, TypeOK, KeyOf
  <2>2. flushed'[l] = Nothing /\ \A n \in Lists \ {l} :
          flushed'[n] = flushed[n] /\ got'[n] = got[n] /\ Ahead(n)' = Ahead(n)
    BY <1>4 DEF Fails, TypeOK, Ahead
  <2> QED
    BY <1>4, <2>1, <2>2 DEF Fails, NoFuture, Fresh, Cached
<1>5. ASSUME NEW l \in Lists, Store(l)
      PROVE  NoFuture' /\ \A n \in Lists : Fresh(n)'
  <2>1. NoFuture'
    BY <1>5 DEF Store, NoFuture
  <2>a. /\ step[l] \in Ahead(l) /\ \A n \in Lists : Ahead(n)' \subseteq Ahead(n)
    BY <1>5, StepsAhead DEF Store
  <2>2. ASSUME NEW n \in Lists
        PROVE  Fresh(n)'
    <3>1. \A m \in Lists : fetched'[m] # Nothing =>
            m # l /\ fetched'[m] = fetched[m] /\ KeyOf(m)' = KeyOf(m)
      BY <1>5 DEF Store, TypeOK, KeyOf
    <3>2. KeyOf(l) \in Keys
      BY <1>0, <1>5 DEF Store, TypeOK, KeyOf
    <3>3. SUFFICES ASSUME flushed[n] # Nothing, NEW p \in Parts \ flushed[n].disturbed
                   PROVE  /\ got'[n][p] # Nothing => got'[n][p].version >= flushed[n].at
                          /\ p \in Ahead(n) /\ cache'[Key(p, class[n])] # Nothing
                               => cache'[Key(p, class[n])].version >= flushed[n].at
      BY <1>5, <2>a, <3>1 DEF Store, Fresh, Cached
    <3>4. class[n] \in Classes /\ Key(p, class[n]) \in Keys
      BY <1>0, <3>3 DEF Fresh
    <3>5. p \in Ahead(n) /\ cache'[Key(p, class[n])] # Nothing
            => cache'[Key(p, class[n])].version >= flushed[n].at
      <4>1. cache'[Key(p, class[n])]
              = IF Key(p, class[n]) = KeyOf(l)
                THEN [version |-> fetched[l].version, class |-> fetched[l].class, age |-> 0]
                ELSE cache[Key(p, class[n])]
        BY <1>5, <3>2, <3>4 DEF Store, TypeOK
      <4>2. CASE Key(p, class[n]) = KeyOf(l)
        BY <1>5, <3>3, <4>1, <4>2 DEF Store, Fresh
      <4>3. CASE Key(p, class[n]) # KeyOf(l)
        BY <3>3, <4>1, <4>3 DEF Fresh, Cached
      <4> QED
        BY <4>2, <4>3
    <3>6. got'[n][p] # Nothing => got'[n][p].version >= flushed[n].at
      <4>1. CASE n = l /\ p = step[l]
        BY <1>5, <2>a, <3>3, <4>1 DEF Store, TypeOK, Fresh, Used, KeyOf
      <4>2. CASE ~(n = l /\ p = step[l])
        <5>1. got'[n][p] = got[n][p]
          BY <1>5, <4>2 DEF Store, TypeOK
        <5> QED
          BY <3>3, <5>1 DEF Fresh
      <4> QED
        BY <4>1, <4>2
    <3> QED
      BY <3>5, <3>6
  <2> QED
    BY <2>1, <2>2
<1>6. CASE Tick
  <2>1. \A k \in Keys : cache'[k] # Nothing =>
          cache[k] # Nothing /\ cache'[k].version = cache[k].version
    BY <1>6, TickKeepsData
  <2>2. \A m \in Lists : KeyOf(m)' = KeyOf(m) /\ Ahead(m)' = Ahead(m)
    BY <1>6 DEF Tick, KeyOf, Ahead
  <2> QED
    BY <1>0, <1>6, <2>1, <2>2 DEF Tick, NoFuture, Fresh, Cached
<1>7. CASE Change
  BY <1>7 DEF Change, listVars, NoFuture, TypeOK, Fresh, Cached, KeyOf, Ahead
<1>8. CASE UNCHANGED vars
  BY <1>8 DEF vars, listVars, NoFuture, Fresh, Cached, KeyOf, Ahead
<1> QED
  BY <1>1, <1>2, <1>3, <1>4, <1>5, <1>6, <1>7, <1>8 DEF Next

LEMMA CompleteIsInductive ==
  ASSUME TypeOK, \A l \in Lists : Complete(l), RecordIsSeen,
         \A l \in Lists : fetched[l] # Nothing /\ step[l] = "cluster" => l \notin recordSeen,
         [Next]_vars
  PROVE  /\ \A l \in Lists : Complete(l)'
         /\ RecordIsSeen'
         /\ (\A l \in Lists : fetched[l] # Nothing /\ step[l] = "cluster"
               => l \notin recordSeen)'
<1> USE CacheAssumption DEF Running, Versions, RecordKey
<1>0. RecordKey \in Keys
  BY DEF Keys, Key
<1>a. \A y : Key("cluster", y) = RecordKey
  BY DEF Key
<1>1. ASSUME NEW l \in Lists, NEW c \in Classes, NEW r \in BOOLEAN, Start(l, c, r)
      PROVE  /\ \A n \in Lists : Complete(n)'
             /\ RecordIsSeen'
             /\ \A n \in Lists : fetched'[n] # Nothing /\ step'[n] = "cluster"
                  => n \notin recordSeen'
  <2>1. recordSeen' \subseteq recordSeen \cup {l} /\ RecordIsSeen'
    BY <1>1 DEF Start, Seeing, RecordIsSeen
  <2>2. /\ step'[l] = "od" /\ fetched'[l] = Nothing
        /\ \A n \in Lists \ {l} :
             step'[n] = step[n] /\ fetched'[n] = fetched[n] /\ got'[n] = got[n]
    BY <1>1 DEF Start, TypeOK
  <2>3. ASSUME NEW n \in Lists
        PROVE  Complete(n)'
    <3>1. CASE n = l
      BY <2>2, <3>1 DEF Complete, Passed
    <3>2. CASE n # l
      BY <2>1, <2>2, <3>2 DEF Complete, Passed, Parts
    <3> QED
      BY <3>1, <3>2
  <2>4. ASSUME NEW n \in Lists, fetched'[n] # Nothing, step'[n] = "cluster"
        PROVE  n \notin recordSeen'
    BY <2>1, <2>2, <2>4
  <2> QED
    BY <2>1, <2>3, <2>4
<1>2. ASSUME NEW l \in Lists, Hit(l)
      PROVE  /\ \A n \in Lists : Complete(n)'
             /\ RecordIsSeen'
             /\ \A n \in Lists : fetched'[n] # Nothing /\ step'[n] = "cluster"
                  => n \notin recordSeen'
  <2>1. got'[l][step[l]] # Nothing
    <3>1. KeyOf(l) \in Keys
      BY <1>2, KeyTypes DEF Hit, TypeOK, KeyOf
    <3>2. Read(KeyOf(l)) \in Data
      BY <1>2, <3>1 DEF Hit, TypeOK, Cached, Entries, Read, Data
    <3>3. Nothing \notin Data
      BY DEF Data
    <3> QED
      BY <1>2, <3>2, <3>3 DEF Hit, TypeOK
  <2>2. \A p \in Parts \ {step[l]} : got'[l][p] = got[l][p]
    BY <1>2 DEF Hit, TypeOK
  <2>3. step' = [step EXCEPT ![l] = NextPart(step[l])] /\ step[l] \in Parts
        /\ recordSeen' = recordSeen
    BY <1>2 DEF Hit
  <2>4. Complete(l)'
    BY <2>1, <2>2, <2>3 DEF Complete, Passed, Parts, NextPart, TypeOK
  <2>5. \A n \in Lists \ {l} : Complete(n)'
    BY <1>2, <2>3 DEF Hit, Complete, Passed, TypeOK
  <2> QED
    BY <1>2, <2>4, <2>5 DEF Hit, RecordIsSeen, Cached, TypeOK
<1>3. ASSUME NEW l \in Lists, Fetch(l)
      PROVE  /\ \A n \in Lists : Complete(n)'
             /\ RecordIsSeen'
             /\ \A n \in Lists : fetched'[n] # Nothing /\ step'[n] = "cluster"
                  => n \notin recordSeen'
  <2>1. step[l] = "cluster" => recordSeen = {}
    BY <1>3, <1>a DEF Fetch, KeyOf, RecordIsSeen
  <2> QED
    BY <1>3, <2>1 DEF Fetch, Complete, Passed, RecordIsSeen, Cached, TypeOK
<1>4. ASSUME NEW l \in Lists, Fails(l)
      PROVE  /\ \A n \in Lists : Complete(n)'
             /\ RecordIsSeen'
             /\ \A n \in Lists : fetched'[n] # Nothing /\ step'[n] = "cluster"
                  => n \notin recordSeen'
  BY <1>4 DEF Fails, Complete, Passed, RecordIsSeen, Cached, TypeOK, Parts
<1>5. ASSUME NEW l \in Lists, Store(l)
      PROVE  /\ \A n \in Lists : Complete(n)'
             /\ RecordIsSeen'
             /\ \A n \in Lists : fetched'[n] # Nothing /\ step'[n] = "cluster"
                  => n \notin recordSeen'
  <2>1. got'[l][step[l]] = Nothing => step[l] = "cluster" /\ l \notin recordSeen
    BY <1>5 DEF Store, TypeOK, Used
  <2>2. \A p \in Parts \ {step[l]} : got'[l][p] = got[l][p]
    BY <1>5 DEF Store, TypeOK
  <2>3. step' = [step EXCEPT ![l] = NextPart(step[l])] /\ step[l] \in Parts
        /\ recordSeen' = recordSeen
    BY <1>5 DEF Store
  <2>4. Complete(l)'
    BY <2>1, <2>2, <2>3 DEF Complete, Passed, Parts, NextPart, TypeOK
  <2>5. \A n \in Lists \ {l} : Complete(n)'
    BY <1>5, <2>3 DEF Store, Complete, Passed, TypeOK
  <2>6. RecordIsSeen'
    <3>1. [version |-> fetched[l].version, class |-> fetched[l].class, age |-> 0] # Nothing
      BY <1>5 DEF Store, TypeOK, Data
    <3> QED
      BY <1>0, <1>5, <3>1 DEF Store, RecordIsSeen, Cached, TypeOK
  <2> QED
    BY <1>5, <2>4, <2>5, <2>6 DEF Store, TypeOK
<1>6. CASE Tick
  <2>1. recordSeen' \subseteq recordSeen /\ RecordIsSeen'
    BY <1>6 DEF Tick, Seeing, RecordIsSeen
  <2> QED
    BY <1>6, <2>1 DEF Tick, Complete, Passed
<1>7. CASE Change \/ UNCHANGED vars
  BY <1>7 DEF Change, vars, listVars, Complete, Passed, RecordIsSeen, Cached
<1> QED
  BY <1>1, <1>2, <1>3, <1>4, <1>5, <1>6, <1>7 DEF Next

LEMMA ZonesIsInductive ==
  ASSUME TypeOK, TypeOK', ZonesFit, [Next]_vars
  PROVE  ZonesFit'
<1> USE CacheAssumption DEF Running
<1>a. \A l \in Lists : Running(l) => KeyOf(l) \in Keys
  BY KeyTypes DEF TypeOK, KeyOf
<1>b. \A l \in Lists : step[l] # "cluster" => KeyOf(l)[2] = SubnetZones[class[l]]
  BY DEF KeyOf, Key
<1>c. \A l \in Lists : KeyOf(l)[1] = step[l]
  BY DEF KeyOf, Key
<1>1. ASSUME NEW l \in Lists, NEW c \in Classes, NEW r \in BOOLEAN, Start(l, c, r)
      PROVE  ZonesFit'
  <2>1. /\ fetched' = fetched /\ fetched[l] = Nothing /\ got'[l] = NoParts
        /\ \A k \in Keys : cache'[k] = cache[k] \/ cache'[k] = Nothing
        /\ \A n \in Lists \ {l} : class'[n] = class[n] /\ got'[n] = got[n]
    BY <1>1 DEF Start, TypeOK, Flush, Empty
  <2>2. \A p \in Parts : got'[l][p] = Nothing
    BY <2>1 DEF NoParts
  <2> QED
    BY <2>1, <2>2 DEF ZonesFit, Cached
<1>2. ASSUME NEW l \in Lists, Hit(l)
      PROVE  ZonesFit'
  <2>1. Read(KeyOf(l)).class = cache[KeyOf(l)].class
    BY DEF Read
  <2>2. \A n \in Lists, p \in Parts : got'[n][p] =
          IF n = l /\ p = step[l] THEN Read(KeyOf(l)) ELSE got[n][p]
    BY <1>2 DEF Hit, TypeOK
  <2>3. step[l] # "cluster" =>
          SubnetZones[cache[KeyOf(l)].class] = SubnetZones[class[l]]
    BY <1>2, <1>a, <1>b, <1>c DEF Hit, ZonesFit
  <2> QED
    BY <1>2, <2>1, <2>2, <2>3 DEF Hit, ZonesFit, Cached
<1>3. ASSUME NEW l \in Lists, Fetch(l)
      PROVE  ZonesFit'
  <2>1. PICK v \in Offered(l) :
          fetched' = [fetched EXCEPT ![l] = [version |-> v, class |-> class[l]]]
    BY <1>3 DEF Fetch
  <2> QED
    BY <1>3, <2>1 DEF Fetch, TypeOK, ZonesFit, Cached
<1>4. ASSUME NEW l \in Lists, Fails(l)
      PROVE  ZonesFit'
  BY <1>4 DEF Fails, TypeOK, ZonesFit, Cached, NoParts
<1>5. ASSUME NEW l \in Lists, Store(l)
      PROVE  ZonesFit'
  <2>1. fetched[l].class = class[l] /\ \A n \in Lists : fetched'[n] # Nothing =>
          fetched'[n] = fetched[n]
    BY <1>5 DEF Store, TypeOK, ZonesFit
  <2>2. \A n \in Lists, p \in Parts : got'[n][p] =
          IF n = l /\ p = step[l] THEN Used(step[l], fetched[l]) ELSE got[n][p]
    BY <1>5 DEF Store, TypeOK
  <2>3. \A k \in Keys : cache'[k] = IF k = KeyOf(l)
          THEN [version |-> fetched[l].version, class |-> fetched[l].class, age |-> 0]
          ELSE cache[k]
    BY <1>5, <1>a DEF Store, TypeOK
  <2>4. \A k \in Keys : Cached(k)' /\ k[1] # "cluster" =>
          SubnetZones[cache'[k].class] = k[2]
    BY <1>b, <1>c, <2>1, <2>3 DEF ZonesFit, Cached
  <2> QED
    BY <1>5, <2>1, <2>2, <2>4 DEF Store, ZonesFit, Used
<1>6. CASE Tick
  <2>1. \A k \in Keys : cache'[k] # Nothing =>
          cache[k] # Nothing /\ cache'[k].class = cache[k].class
    BY <1>6, TickKeepsData
  <2> QED
    BY <1>6, <2>1 DEF Tick, ZonesFit, Cached
<1>7. CASE Change \/ UNCHANGED vars
  BY <1>7 DEF Change, vars, listVars, ZonesFit, Cached
<1> QED
  BY <1>1, <1>2, <1>3, <1>4, <1>5, <1>6, <1>7 DEF Next

LEMMA Invariance == Spec => []IInv
<1>1. Init => IInv
  BY CacheAssumption
  DEF Init, IInv, TypeOK, NoFuture, NothingAhead, Ahead, Fresh, Complete, Passed,
      RecordIsSeen, ZonesFit, Cached, Empty, Entries, NoParts, Running, Parts, Versions
<1>2. IInv /\ TypeOK' /\ [Next]_vars => IInv'
  BY AheadIsInductive, FreshIsInductive, CompleteIsInductive, ZonesIsInductive DEF IInv
<1> QED
  BY <1>1, <1>2, TypeCorrect, PTL DEF Spec

\* However many Lists run, fail, refresh and store late, and however stale the
\* cloud's cache is, a List that refreshed answers with no data older than its
\* flush, except in a part that another List held fetched and unstored at that
\* moment or fetched from that cache before this List came to it.
THEOREM RefreshAnswersFresh == Spec => []RefreshIsFresh
<1>1. IInv => RefreshIsFresh
  BY DEF IInv, Fresh, Refreshes, RefreshIsFresh
<1> QED
  BY <1>1, Invariance, PTL

\* Every answer has all parts but perhaps the cluster record, and has that too
\* when the record was cached from the beginning of the List to its end.
THEOREM AnswersAreComplete == Spec => []OnlyARecordIsMissing
<1>1. IInv => OnlyARecordIsMissing
  BY DEF IInv, Complete, Passed, OnlyARecordIsMissing
<1> QED
  BY <1>1, Invariance, PTL

\* However classes with different and with equal zones share the cache, the
\* types and limits of an answer were asked for in the zones of the subnets of
\* its own class.
THEOREM SubnetsAreAnswered == Spec => []SubnetsAreAskedFor
<1>1. IInv => SubnetsAreAskedFor
  BY DEF IInv, ZonesFit, SubnetsAreAskedFor
<1> QED
  BY <1>1, Invariance, PTL
=============================================================================
