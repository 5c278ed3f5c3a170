----------------------- MODULE OfferingBlacklistProofs ----------------------
(***************************************************************************)
(* Theorems about OfferingBlacklist, for every catalogue of offerings, any *)
(* number of launches, all limits and lifetimes, and Machines that outlive *)
(* the pass that deletes them.                                             *)
(***************************************************************************)
EXTENDS OfferingBlacklist, FiniteSetTheorems, TLAPS

\* While failures are counted, what was found insufficient is still listed, so
\* that the second classification looks at it again.
PassInv == phase = "count" => toDelete \subseteq listed

IInv == TypeOK /\ PassInv

-----------------------------------------------------------------------------
\* An offering and its wildcard are keys.
LEMMA KeysOfOfferings ==
  ASSUME NEW o \in Offerings
  PROVE  o \in Keys /\ AnyTypeOf(o) \in Keys
BY DEF Keys

\* A Machine without an offering is in no failed state.
LEMMA FailedMachineType ==
  ASSUME TypeOK, NEW s \in Slots, HasFailed(s)
  PROVE  FailedMachine(s) \in FailedMachines
<1>1. slot[s] \in SlotStates
  BY DEF TypeOK
<1>2. slot[s].state \in {"failed", "terminating"}
  BY DEF HasFailed
<1>3. slot[s].offering \in Offerings /\ slot[s].kind \in FailureKinds
  BY <1>1, <1>2 DEF SlotStates, Free
<1> QED
  BY <1>3 DEF FailedMachine, FailedMachines

\* A launch that is under way has an offering and has not failed.
LEMMA LaunchType ==
  ASSUME TypeOK, NEW s \in Slots, slot[s].state \in {"listed", "running"}
  PROVE  slot[s] \in [state : {"listed", "running"}, offering : Offerings,
                      kind : {"none"}]
<1>1. slot[s] \in SlotStates
  BY DEF TypeOK
<1> QED
  BY <1>1 DEF SlotStates, Free

\* BlockInstanceType, with any set of keys, keeps lifetimes within bounds.
LEMMA BlockedType ==
  ASSUME TypeOK, NEW B
  PROVE  Blocked(B) \in [Keys -> 0..BlockTTL]
BY BlacklistAssumption DEF TypeOK, Blocked

\* AddInsufficientFailure, with any set of keys, yields counts and lifetimes.
LEMMA AddedType ==
  ASSUME TypeOK, NEW B
  PROVE  Added(B) \in [Keys -> [count : Nat, left : 0..FailureTTL]]
<1> SUFFICES ASSUME NEW k \in Keys
             PROVE  Added(B)[k] \in [count : Nat, left : 0..FailureTTL]
  BY DEF Added
<1>1. failures[k] \in [count : Nat, left : 0..FailureTTL]
  BY DEF TypeOK
<1>2. CASE k \in B
  BY <1>1, <1>2, BlacklistAssumption DEF Added, Count
<1>3. CASE k \notin B
  BY <1>1, <1>3 DEF Added
<1> QED
  BY <1>2, <1>3

\* A slot that takes one of the states keeps the slots well typed.
LEMMA SlotUpdate ==
  ASSUME TypeOK, NEW s \in Slots, NEW x \in SlotStates
  PROVE  [slot EXCEPT ![s] = x] \in [Slots -> SlotStates]
BY DEF TypeOK

\* A failed Machine that starts to terminate keeps its offering and its kind.
LEMMA TerminatingType ==
  ASSUME TypeOK, NEW s \in Slots, slot[s].state = "failed"
  PROVE  [slot EXCEPT ![s].state = "terminating"] \in [Slots -> SlotStates]
<1>1. slot[s] \in [state : {"failed", "terminating"}, offering : Offerings,
                   kind : FailureKinds]
  BY DEF TypeOK, SlotStates, Free
<1>2. [slot[s] EXCEPT !.state = "terminating"] \in SlotStates
  BY <1>1 DEF SlotStates
<1>3. [slot EXCEPT ![s].state = "terminating"]
        = [slot EXCEPT ![s] = [slot[s] EXCEPT !.state = "terminating"]]
  BY DEF TypeOK
<1> QED
  BY <1>2, <1>3, SlotUpdate

-----------------------------------------------------------------------------
\* The initial state: empty caches, no launch, no pass.
LEMMA InitInvariant == Init => IInv
<1> SUFFICES ASSUME Init PROVE IInv
  OBVIOUS
<1> USE BlacklistAssumption DEF Init
<1>1. slot \in [Slots -> SlotStates]
  BY DEF SlotStates
<1>2. failures \in [Keys -> [count : Nat, left : 0..FailureTTL]]
  BY DEF NoFailures
<1>3. blockLeft \in [Keys -> 0..BlockTTL]
  OBVIOUS
<1> QED
  BY <1>1, <1>2, <1>3 DEF IInv, TypeOK, PassInv

\* Launches touch their slot, and the blacklist when a Machine is refused.
LEMMA LaunchingInvariant == IInv /\ Launching => IInv'
<1> SUFFICES ASSUME IInv, NEW s \in Slots,
                    \/ \E o \in Offerings : ListOfferings(s, o)
                    \/ CreateMachine(s)
                    \/ CreateRejected(s)
                    \/ CreateAborted(s)
             PROVE  IInv'
  BY DEF Launching
<1>t. TypeOK
  BY DEF IInv
<1>f. Free \in SlotStates
  BY DEF SlotStates
<1>1. ASSUME NEW o \in Offerings, ListOfferings(s, o) PROVE IInv'
  <2>1. [state |-> "listed", offering |-> o, kind |-> "none"] \in SlotStates
    BY DEF SlotStates
  <2>2. slot' \in [Slots -> SlotStates]
    BY <1>1, <1>t, <2>1, SlotUpdate DEF ListOfferings
  <2> QED
    BY <1>1, <2>2 DEF ListOfferings, IInv, TypeOK, PassInv, cacheVars, passVars
<1>2. CASE CreateMachine(s)
  <2>1. slot[s].state \in {"listed", "running"}
    BY <1>2 DEF CreateMachine
  <2>2. [slot[s] EXCEPT !.state = "running"] \in SlotStates
    <3>1. slot[s] \in [state : {"listed", "running"}, offering : Offerings,
                       kind : {"none"}]
      BY <1>t, <2>1, LaunchType
    <3> QED
      BY <3>1 DEF SlotStates
  <2>3. slot' = [slot EXCEPT ![s] = [slot[s] EXCEPT !.state = "running"]]
    BY <1>2, <1>t DEF CreateMachine, TypeOK
  <2>4. slot' \in [Slots -> SlotStates]
    BY <1>t, <2>2, <2>3, SlotUpdate
  <2> QED
    BY <1>2, <2>4 DEF CreateMachine, IInv, TypeOK, PassInv, cacheVars, passVars
<1>3. CASE CreateRejected(s)
  <2>1. slot' \in [Slots -> SlotStates]
    BY <1>3, <1>t, <1>f, SlotUpdate DEF CreateRejected
  <2>2. blockLeft' \in [Keys -> 0..BlockTTL]
    BY <1>3, <1>t, BlockedType DEF CreateRejected
  <2> QED
    BY <1>3, <2>1, <2>2 DEF CreateRejected, IInv, TypeOK, PassInv, passVars
<1>4. CASE CreateAborted(s)
  <2>1. slot' \in [Slots -> SlotStates]
    BY <1>4, <1>t, <1>f, SlotUpdate DEF CreateAborted
  <2> QED
    BY <1>4, <2>1 DEF CreateAborted, IInv, TypeOK, PassInv, cacheVars, passVars
<1> QED
  BY <1>1, <1>2, <1>3, <1>4

\* The actuator and those who delete Machines touch slots only.
LEMMA ActuatorInvariant == IInv /\ Actuator => IInv'
<1> SUFFICES ASSUME IInv, NEW s \in Slots,
                    \/ Leave(s)
                    \/ \E kind \in FailureKinds : Fail(s, kind)
                    \/ Release(s)
                    \/ DeletedElsewhere(s)
             PROVE  IInv'
  BY DEF Actuator
<1>t. TypeOK
  BY DEF IInv
<1>f. Free \in SlotStates
  BY DEF SlotStates
<1>1. slot' \in [Slots -> SlotStates] /\ UNCHANGED <<cacheVars, passVars>>
  <2>1. CASE Leave(s)
    BY <2>1, <1>t, <1>f, SlotUpdate DEF Leave
  <2>2. ASSUME NEW kind \in FailureKinds, Fail(s, kind)
        PROVE  slot' \in [Slots -> SlotStates] /\ UNCHANGED <<cacheVars, passVars>>
    <3> DEFINE x == [slot[s] EXCEPT !.state = "failed", !.kind = kind]
    <3>1. slot[s].state \in {"listed", "running"}
      BY <2>2 DEF Fail
    <3>2. slot[s] \in [state : {"listed", "running"}, offering : Offerings,
                       kind : {"none"}]
      BY <1>t, <3>1, LaunchType
    <3>3. x \in SlotStates
      BY <2>2, <3>2 DEF SlotStates
    <3>4. slot' = [slot EXCEPT ![s] = x]
      BY <2>2, <1>t DEF Fail, TypeOK
    <3> QED
      BY <2>2, <1>t, <3>3, <3>4, SlotUpdate DEF Fail
  <2>3. CASE Release(s)
    BY <2>3, <1>t, <1>f, SlotUpdate DEF Release
  <2>4. CASE DeletedElsewhere(s)
    BY <2>4, <1>t, TerminatingType DEF DeletedElsewhere
  <2> QED
    BY <2>1, <2>2, <2>3, <2>4
<1> QED
  BY <1>1 DEF IInv, TypeOK, PassInv, cacheVars, passVars

\* The pass of the failure controller.
LEMMA PassInvariant == IInv /\ Pass => IInv'
<1> SUFFICES ASSUME IInv, Pass PROVE IInv'
  OBVIOUS
<1>t. TypeOK
  BY DEF IInv
<1>1. CASE FCList
  <2>1. listed' \subseteq FailedMachines
    BY <1>1, <1>t, FailedMachineType DEF FCList
  <2>2. toCount' \subseteq listed' /\ toDelete' = toCount'
    BY <1>1 DEF FCList
  <2> QED
    BY <1>1, <2>1, <2>2 DEF FCList, IInv, TypeOK, PassInv, cacheVars
<1>2. ASSUME NEW f \in toCount, CountFailure(f) PROVE IInv'
  <2>1. failures' \in [Keys -> [count : Nat, left : 0..FailureTTL]]
    BY <1>2, <1>t, AddedType DEF CountFailure
  <2> QED
    BY <1>2, <2>1 DEF CountFailure, IInv, TypeOK, PassInv
<1>3. ASSUME NEW f \in toCount, SkipFailure(f) PROVE IInv'
  BY <1>3 DEF SkipFailure, IInv, TypeOK, PassInv, cacheVars
<1>4. CASE BlockUnknown
  <2>1. blockLeft' \in [Keys -> 0..BlockTTL]
    BY <1>4, <1>t, BlockedType DEF BlockUnknown
  <2>2. toDelete' \subseteq FailedMachines
    BY <1>4 DEF BlockUnknown, IInv, TypeOK
  <2> QED
    BY <1>4, <2>1, <2>2 DEF BlockUnknown, IInv, TypeOK, PassInv
<1>5. ASSUME NEW f \in toDelete, DeleteFailed(f) PROVE IInv'
  <2>1. f.slot \in Slots
    BY DEF IInv, TypeOK, FailedMachines
  <2>2. slot' \in [Slots -> SlotStates]
    BY <1>5, <1>t, <2>1, TerminatingType DEF DeleteFailed, TypeOK
  <2> QED
    BY <1>5, <2>2 DEF DeleteFailed, IInv, TypeOK, PassInv, cacheVars
<1>6. ASSUME NEW f \in toDelete, DeleteFails(f) PROVE IInv'
  BY <1>6 DEF DeleteFails, IInv, TypeOK, PassInv, cacheVars
<1>7. CASE EndPass
  BY <1>7 DEF EndPass, IInv, TypeOK, PassInv, cacheVars
<1> QED
  BY <1>1, <1>2, <1>3, <1>4, <1>5, <1>6, <1>7 DEF Pass, Counting, Deleting

\* Entries that expire and a process that restarts.
LEMMA TimeInvariant == IInv /\ (Tick \/ Crash) => IInv'
<1> SUFFICES ASSUME IInv, Tick \/ Crash PROVE IInv'
  OBVIOUS
<1> USE BlacklistAssumption
<1>1. CASE Tick
  <2>1. failures' \in [Keys -> [count : Nat, left : 0..FailureTTL]]
    <3> SUFFICES ASSUME NEW k \in Keys
                 PROVE  (IF failures[k].left <= 1 THEN NoFailures
                         ELSE [failures[k] EXCEPT !.left = @ - 1])
                          \in [count : Nat, left : 0..FailureTTL]
      BY <1>1 DEF Tick
    <3>1. failures[k] \in [count : Nat, left : 0..FailureTTL]
      BY DEF IInv, TypeOK
    <3> QED
      BY <3>1 DEF NoFailures
  <2>2. blockLeft' \in [Keys -> 0..BlockTTL]
    <3> SUFFICES ASSUME NEW k \in Keys
                 PROVE  (IF blockLeft[k] = 0 THEN 0 ELSE blockLeft[k] - 1)
                          \in 0..BlockTTL
      BY <1>1 DEF Tick
    <3>1. blockLeft[k] \in 0..BlockTTL
      BY DEF IInv, TypeOK
    <3> QED
      BY <3>1
  <2> QED
    BY <1>1, <2>1, <2>2 DEF Tick, IInv, TypeOK, PassInv, passVars
<1>2. CASE Crash
  <2>1. slot' \in [Slots -> SlotStates]
    BY <1>2 DEF Crash, IInv, TypeOK, SlotStates
  <2> QED
    BY <1>2, <2>1 DEF Crash, IInv, TypeOK, PassInv, NoFailures
<1> QED
  BY <1>1, <1>2

\* Every step keeps the invariant.
LEMMA NextInvariant == IInv /\ [Next]_vars => IInv'
<1> SUFFICES ASSUME IInv, [Next]_vars PROVE IInv'
  OBVIOUS
<1>1. CASE UNCHANGED vars
  BY <1>1 DEF vars, IInv, TypeOK, PassInv
<1> QED
  BY <1>1, LaunchingInvariant, ActuatorInvariant, PassInvariant, TimeInvariant
     DEF Next

\* Every variable stays in its domain, whatever fails and whenever the process
\* restarts: the caches of the blacklist never hold a stale lifetime.
THEOREM TypeCorrect == Spec => []TypeOK
<1>1. IInv => TypeOK
  BY DEF IInv
<1> QED
  BY <1>1, InitInvariant, NextInvariant, PTL DEF Spec

\* What blocked has a block of its own key is hidden from List.
LEMMA BlockHides ==
  ASSUME NEW o \in Offerings, (blockLeft[o] > 0)'
  PROVE  IsBlocked(o)'
BY KeysOfOfferings DEF IsBlocked, Covers

\* The step at which a pass ends its counting: an insufficient Machine whose
\* offering is over a limit is classified anew and its offering blocked.
LEMMA BlockUnknownBlocks ==
  ASSUME IInv, BlockUnknown, NEW f \in toDelete',
         f.kind = "insufficient", TypeOver(f.offering) \/ SpotOver(f.offering)
  PROVE  IsBlocked(f.offering)'
<1> DEFINE unknown == {g \in listed : ~Insufficient(g)}
<1>1. f \in listed
  BY DEF BlockUnknown, IInv, PassInv
<1>2. f \in unknown
  BY <1>1 DEF Insufficient
<1>3. f.offering \in Offerings
  BY <1>1 DEF IInv, TypeOK, FailedMachines
<1>4. f.offering \in Keys
  BY <1>3, KeysOfOfferings
<1>5. BlockKeys(f) = {f.offering}
  BY DEF BlockKeys
<1>6. f.offering \in UNION {BlockKeys(g) : g \in unknown}
  BY <1>2, <1>5
<1>7. blockLeft' = Blocked(UNION {BlockKeys(g) : g \in unknown})
  BY DEF BlockUnknown
<1>8. blockLeft'[f.offering] = BlockTTL
  BY <1>4, <1>6, <1>7 DEF Blocked
<1>9. BlockTTL > 0
  BY BlacklistAssumption
<1> QED
  BY <1>3, <1>8, <1>9, BlockHides

\* A type is blocked in the very pass whose failures take it over the limit,
\* for any limits, although its Machines were found insufficient at first.
THEOREM BlockedInTheSamePass == Spec => BlockedOnceOverLimit
<1> DEFINE A == phase = "count" /\ phase' = "delete" =>
                  \A f \in toDelete' :
                    f.kind = "insufficient"
                      /\ (TypeOver(f.offering) \/ SpotOver(f.offering))
                    => IsBlocked(f.offering)'
<1>1. IInv /\ [Next]_vars => [A]_vars
  <2> SUFFICES ASSUME IInv, Next, phase = "count", phase' = "delete"
               PROVE  A
    OBVIOUS
  <2>1. BlockUnknown
    BY DEF Next, Launching, ListOfferings, CreateMachine, CreateRejected,
           CreateAborted, Actuator, Leave, Fail, Release, DeletedElsewhere,
           Pass, FCList, Counting, CountFailure, SkipFailure, Deleting,
           DeleteFailed, DeleteFails, EndPass, Tick, Crash, passVars
  <2> QED
    BY <2>1, BlockUnknownBlocks
<1> QED
  BY <1>1, InitInvariant, NextInvariant, PTL DEF Spec, BlockedOnceOverLimit

-----------------------------------------------------------------------------
(* Counting stops.  While a count is within its limit, this pass may still *)
(* add to it what it has listed, and it lists one Machine of a slot only.  *)
KeyLimit(k) == IF k.type = AnyValue THEN SpotLimit ELSE TypeLimit

\* Room is left for all Machines still to be counted under a key.
CountInv ==
  /\ IsFiniteSet(toCount)
  /\ \A k \in Keys :
       /\ Count(k) <= KeyLimit(k) + Cardinality(Slots)
       /\ (\E f \in toCount : k \in CountKeys(f.offering)) =>
            Count(k) + Cardinality(toCount) <= KeyLimit(k) + Cardinality(Slots)

\* The limit of an offering and of its wildcard.
LEMMA KeyLimits ==
  ASSUME NEW o \in Offerings
  PROVE  KeyLimit(o) = TypeLimit /\ KeyLimit(AnyTypeOf(o)) = SpotLimit
<1>1. DOMAIN o = {"type", "cap", "zone"} /\ o.type # AnyValue
  BY BlacklistAssumption
<1>2. AnyTypeOf(o).type = AnyValue
  BY <1>1 DEF AnyTypeOf
<1> QED
  BY <1>1, <1>2 DEF KeyLimit

\* Limits, counts and the number of slots are numbers.
LEMMA CountTypes ==
  ASSUME TypeOK, NEW k \in Keys
  PROVE  /\ Count(k) \in Nat /\ KeyLimit(k) \in Nat
         /\ Cardinality(Slots) \in Nat
<1>1. failures[k] \in [count : Nat, left : 0..FailureTTL]
  BY DEF TypeOK
<1>2. Cardinality(Slots) \in Nat
  BY BlacklistAssumption, FS_CardinalityType
<1> QED
  BY <1>1, <1>2, BlacklistAssumption DEF Count, KeyLimit

\* What is found insufficient is within the limits of all its keys.
LEMMA InsufficientWithinLimits ==
  ASSUME TypeOK, NEW f \in FailedMachines, Insufficient(f),
         NEW k \in CountKeys(f.offering)
  PROVE  Count(k) <= KeyLimit(k)
<1>1. f.offering \in Offerings
  BY DEF FailedMachines
<1>2. f.offering \in Keys /\ AnyTypeOf(f.offering) \in Keys
  BY <1>1, KeysOfOfferings
<1>3. k \in Keys
  BY <1>2 DEF CountKeys
<1>4. Count(k) \in Nat /\ KeyLimit(k) \in Nat
  BY <1>3, CountTypes
<1>5. CASE k = f.offering
  BY <1>1, <1>4, <1>5, KeyLimits DEF Insufficient, TypeOver
<1>6. CASE k = AnyTypeOf(f.offering) /\ f.offering.cap = "spot"
  BY <1>1, <1>4, <1>6, KeyLimits DEF Insufficient, SpotOver
<1> QED
  BY <1>5, <1>6 DEF CountKeys

\* A pass lists at most one Machine of each slot.
LEMMA ListedAtMostSlots ==
  ASSUME FCList
  PROVE  /\ IsFiniteSet(toCount')
         /\ Cardinality(toCount') <= Cardinality(Slots)
<1> DEFINE S == {x \in Slots : HasFailed(x)}
           L == {FailedMachine(s) : s \in S}
<1>1. IsFiniteSet(Slots)
  BY BlacklistAssumption
<1>2. IsFiniteSet(S) /\ Cardinality(S) <= Cardinality(Slots)
  BY <1>1, FS_Subset
<1>3. toCount' \subseteq L
  BY DEF FCList
<1>4. IsFiniteSet(L) /\ Cardinality(L) <= Cardinality(S)
  <2> DEFINE g == [s \in S |-> FailedMachine(s)]
  <2>1. g \in Surjection(S, L)
    BY DEF Surjection
  <2> HIDE DEF g, S, L
  <2> QED
    BY <1>2, <2>1, FS_Surjection
<1>5. IsFiniteSet(toCount') /\ Cardinality(toCount') <= Cardinality(L)
  BY <1>3, <1>4, FS_Subset
<1>6. /\ Cardinality(toCount') \in Nat /\ Cardinality(L) \in Nat
      /\ Cardinality(S) \in Nat /\ Cardinality(Slots) \in Nat
  BY <1>1, <1>2, <1>4, <1>5, FS_CardinalityType
<1> QED
  BY <1>2, <1>4, <1>5, <1>6

\* Counting a Machine takes as much room as it leaves to those still waiting.
LEMMA CountFailureCounts ==
  ASSUME IInv, CountInv, NEW f \in toCount, CountFailure(f)
  PROVE  CountInv'
<1>t. TypeOK
  BY DEF IInv
<1> DEFINE n == Cardinality(toCount)
<1>1. toCount' = toCount \ {f}
  BY DEF CountFailure
<1>2. /\ IsFiniteSet(toCount') /\ n \in Nat /\ Cardinality(toCount') = n - 1
      /\ Cardinality(toCount') \in Nat
  BY <1>1, FS_RemoveElement, FS_CardinalityType DEF CountInv
<1>3. ASSUME NEW k \in Keys
      PROVE  /\ Count(k)' <= KeyLimit(k) + Cardinality(Slots)
             /\ (\E g \in toCount' : k \in CountKeys(g.offering)) =>
                  Count(k)' + Cardinality(toCount')
                    <= KeyLimit(k) + Cardinality(Slots)
  <2>1. Count(k) \in Nat /\ KeyLimit(k) \in Nat /\ Cardinality(Slots) \in Nat
    BY <1>t, CountTypes
  <2>2. CASE k \in CountKeys(f.offering)
    <3>1. Count(k)' = Count(k) + 1
      BY <2>2 DEF CountFailure, Added, Count
    <3>2. Count(k) + n <= KeyLimit(k) + Cardinality(Slots)
      BY <2>2 DEF CountInv
    <3> QED
      BY <1>2, <2>1, <3>1, <3>2
  <2>3. CASE k \notin CountKeys(f.offering)
    <3>1. Count(k)' = Count(k)
      BY <2>3 DEF CountFailure, Added, Count
    <3>2. /\ Count(k) <= KeyLimit(k) + Cardinality(Slots)
          /\ (\E g \in toCount' : k \in CountKeys(g.offering)) =>
               Count(k) + n <= KeyLimit(k) + Cardinality(Slots)
      BY <1>1 DEF CountInv
    <3> QED
      BY <1>2, <2>1, <3>1, <3>2
  <2> QED
    BY <2>2, <2>3
<1> QED
  BY <1>2, <1>3 DEF CountInv, KeyLimit, CountKeys, AnyTypeOf, Keys

\* A step that adds to no count and lists nothing new keeps the room.
LEMMA CountInvKept ==
  ASSUME IInv, CountInv, toCount' \subseteq toCount,
         \A k \in Keys : Count(k)' \in Nat /\ Count(k)' <= Count(k)
  PROVE  CountInv'
<1>t. TypeOK
  BY DEF IInv
<1>1. /\ IsFiniteSet(toCount')
      /\ Cardinality(toCount') <= Cardinality(toCount)
      /\ Cardinality(toCount') \in Nat /\ Cardinality(toCount) \in Nat
  BY FS_Subset, FS_CardinalityType DEF CountInv
<1>2. ASSUME NEW k \in Keys
      PROVE  /\ Count(k)' <= KeyLimit(k) + Cardinality(Slots)
             /\ (\E g \in toCount' : k \in CountKeys(g.offering)) =>
                  Count(k)' + Cardinality(toCount')
                    <= KeyLimit(k) + Cardinality(Slots)
  <2>1. Count(k) \in Nat /\ KeyLimit(k) \in Nat /\ Cardinality(Slots) \in Nat
    BY <1>t, CountTypes
  <2>2. /\ Count(k) <= KeyLimit(k) + Cardinality(Slots)
        /\ (\E g \in toCount' : k \in CountKeys(g.offering)) =>
             Count(k) + Cardinality(toCount) <= KeyLimit(k) + Cardinality(Slots)
    BY DEF CountInv
  <2> QED
    BY <1>1, <2>1, <2>2
<1> QED
  BY <1>1, <1>2 DEF CountInv, KeyLimit, CountKeys, AnyTypeOf, Keys

\* Every step leaves room for what this pass has still to count.
LEMMA CountInvStep == IInv /\ CountInv /\ [Next]_vars => CountInv'
<1> SUFFICES ASSUME IInv, CountInv, [Next]_vars PROVE CountInv'
  OBVIOUS
<1>t. TypeOK
  BY DEF IInv
<1>1. CASE FCList
  <2>1. /\ IsFiniteSet(toCount')
        /\ Cardinality(toCount') <= Cardinality(Slots)
        /\ Cardinality(toCount') \in Nat
    BY <1>1, ListedAtMostSlots, FS_CardinalityType
  <2>2. \A f \in toCount' : f \in FailedMachines /\ Insufficient(f)
    BY <1>1, <1>t, FailedMachineType DEF FCList
  <2>3. failures' = failures
    BY <1>1 DEF FCList, cacheVars
  <2>4. ASSUME NEW k \in Keys
        PROVE  /\ Count(k)' <= KeyLimit(k) + Cardinality(Slots)
               /\ (\E g \in toCount' : k \in CountKeys(g.offering)) =>
                    Count(k)' + Cardinality(toCount')
                      <= KeyLimit(k) + Cardinality(Slots)
    <3>1. Count(k)' = Count(k)
      BY <2>3 DEF Count
    <3>2. Count(k) \in Nat /\ KeyLimit(k) \in Nat /\ Cardinality(Slots) \in Nat
      BY <1>t, CountTypes
    <3>3. Count(k) <= KeyLimit(k) + Cardinality(Slots)
      BY DEF CountInv
    <3>4. (\E g \in toCount' : k \in CountKeys(g.offering)) =>
            Count(k) <= KeyLimit(k)
      BY <1>t, <2>2, InsufficientWithinLimits
    <3> QED
      BY <2>1, <3>1, <3>2, <3>3, <3>4
  <2> QED
    BY <2>1, <2>4 DEF CountInv, KeyLimit, CountKeys, AnyTypeOf, Keys
<1>2. ASSUME NEW f \in toCount, CountFailure(f) PROVE CountInv'
  BY <1>2, CountFailureCounts
<1>3. ASSUME UNCHANGED failures, toCount' \subseteq toCount PROVE CountInv'
  <2>1. \A k \in Keys : Count(k)' = Count(k) /\ Count(k) \in Nat
    BY <1>3, <1>t, CountTypes DEF Count
  <2> QED
    BY <1>3, <2>1, CountInvKept
<1>4. CASE Tick
  <2>1. ASSUME NEW k \in Keys
        PROVE  Count(k)' \in Nat /\ Count(k)' <= Count(k)
    <3>1. failures[k] \in [count : Nat, left : 0..FailureTTL]
      BY <1>t DEF TypeOK
    <3> QED
      BY <1>4, <3>1 DEF Tick, Count, NoFailures
  <2> QED
    BY <1>4, <2>1, CountInvKept DEF Tick, passVars
<1>5. CASE Crash
  <2>1. ASSUME NEW k \in Keys
        PROVE  Count(k)' \in Nat /\ Count(k)' <= Count(k)
    <3>1. failures[k] \in [count : Nat, left : 0..FailureTTL]
      BY <1>t DEF TypeOK
    <3> QED
      BY <1>5, <3>1 DEF Crash, Count, NoFailures
  <2> QED
    BY <1>5, <2>1, CountInvKept DEF Crash
<1>6. CASE Launching
  BY <1>3, <1>6 DEF Launching, ListOfferings, CreateMachine, CreateRejected,
                    CreateAborted, cacheVars, passVars
<1>7. CASE Actuator
  BY <1>3, <1>7 DEF Actuator, Leave, Fail, Release, DeletedElsewhere,
                    cacheVars, passVars
<1>8. CASE \/ \E f \in toCount : SkipFailure(f)
           \/ BlockUnknown \/ Deleting \/ EndPass
  BY <1>3, <1>8 DEF SkipFailure, BlockUnknown, Deleting, DeleteFailed,
                    DeleteFails, EndPass, cacheVars
<1>9. CASE UNCHANGED vars
  BY <1>3, <1>9 DEF vars
<1> QED
  BY <1>1, <1>2, <1>4, <1>5, <1>6, <1>7, <1>8, <1>9 DEF Next, Pass, Counting

\* Counting stops at the limits, whatever they are: a count exceeds its limit
\* by no more than the Machines of one pass.
THEOREM CountingStops == Spec => []CountsStop
<1>1. Init => CountInv
  <2> SUFFICES ASSUME Init PROVE CountInv
    OBVIOUS
  <2>1. TypeOK
    BY InitInvariant DEF IInv
  <2>2. toCount = {} /\ IsFiniteSet(toCount)
    BY FS_EmptySet DEF Init
  <2>3. \A k \in Keys : Count(k) = 0
    BY DEF Init, Count, NoFailures
  <2>4. \A k \in Keys : Count(k) <= KeyLimit(k) + Cardinality(Slots)
    BY <2>1, <2>3, CountTypes
  <2> QED
    BY <2>2, <2>4 DEF CountInv
<1>2. IInv /\ CountInv => CountsStop
  <2> SUFFICES ASSUME IInv, CountInv, NEW o \in Offerings
               PROVE  /\ Count(o) <= TypeLimit + Cardinality(Slots)
                      /\ Count(AnyTypeOf(o)) <= SpotLimit + Cardinality(Slots)
    BY DEF CountsStop
  <2> QED
    BY KeysOfOfferings, KeyLimits DEF CountInv
<1> QED
  BY <1>1, <1>2, InitInvariant, NextInvariant, CountInvStep, PTL DEF Spec
=============================================================================
