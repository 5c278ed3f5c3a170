-------------------- MODULE OfferingBlacklistHistoryProofs -------------------
(***************************************************************************)
(* A theorem about OfferingBlacklistHistory: what is blocked failed.  It   *)
(* needs that a failure keeps its cause from the Machine over the list of  *)
(* a pass to the block.                                                    *)
(***************************************************************************)
EXTENDS OfferingBlacklistHistory, OfferingBlacklistProofs

\* Histories change nothing: each step is one of OfferingBlacklist.
LEMMA HistoryStep == [HistoryNext]_<<vars, historyVars>> => [Next]_vars
<1> SUFFICES ASSUME HistoryNext
             PROVE  Next
  BY DEF historyVars
<1> QED
  BY DEF HistoryNext, RecordFailure, RecordRejection, RecordCount, RecordTick,
     Next, Launching, Actuator, Pass, Counting

LEMMA HistoryHasTypes == HistorySpec => []TypeOK
<1>1. HistoryInit => TypeOK
  BY InitInvariant DEF HistoryInit, IInv
<1>2. IInv /\ [HistoryNext]_<<vars, historyVars>> => IInv'
  BY HistoryStep, NextInvariant
<1>3. HistoryInit => IInv
  BY InitInvariant DEF HistoryInit
<1>4. IInv => TypeOK
  BY DEF IInv
<1> QED
  BY <1>2, <1>3, <1>4, PTL DEF HistorySpec

-----------------------------------------------------------------------------
\* The key whose block a failure justifies.
CauseKey(o, kind) == IF kind = "quota" THEN AnyTypeOf(o) ELSE o

\* What failed, is about to be blocked or is blocked has its cause; a wildcard
\* is for spot.
CauseInv ==
  /\ caused \subseteq Keys
  /\ \A k \in caused : k.type = AnyValue => k.cap = "spot"
  /\ \A s \in Slots : HasFailed(s) => CauseKey(slot[s].offering, slot[s].kind) \in caused
  /\ \A f \in listed : CauseKey(f.offering, f.kind) \in caused
  /\ \A k \in Keys : blockLeft[k] > 0 => k \in caused

LEMMA WildcardFields ==
  ASSUME NEW o \in Offerings
  PROVE  /\ o = [type |-> o.type, cap |-> o.cap, zone |-> o.zone]
         /\ o.cap \in {"spot", "on-demand"} /\ AnyValue \notin {o.type, o.cap, o.zone}
         /\ AnyTypeOf(o) = [type |-> AnyValue, cap |-> o.cap, zone |-> o.zone]
<1>1. /\ o = [type |-> o.type, cap |-> o.cap, zone |-> o.zone]
      /\ o.cap \in {"spot", "on-demand"} /\ AnyValue \notin {o.type, o.cap, o.zone}
  BY BlacklistAssumption
<1> DEFINE t == o.type
           c == o.cap
           z == o.zone
<1>2. [[type |-> t, cap |-> c, zone |-> z] EXCEPT !.type = AnyValue]
        = [type |-> AnyValue, cap |-> c, zone |-> z]
  OBVIOUS
<1>3. o = [type |-> t, cap |-> c, zone |-> z]
  BY <1>1
<1> HIDE DEF t, c, z
<1>4. AnyTypeOf(o) = [type |-> AnyValue, cap |-> c, zone |-> z]
  BY <1>2, <1>3 DEF AnyTypeOf
<1> QED
  BY <1>1, <1>4 DEF c, z

\* Only two keys cover an offering: itself and the wildcard of its type.
LEMMA CoveredByTwo ==
  ASSUME NEW o \in Offerings, NEW k \in Keys, Covers(k, o)
  PROVE  k \in {o, AnyTypeOf(o)}
<1>1. /\ o = [type |-> o.type, cap |-> o.cap, zone |-> o.zone]
      /\ AnyTypeOf(o) = [type |-> AnyValue, cap |-> o.cap, zone |-> o.zone]
  BY WildcardFields
<1>2. k.type \in {o.type, AnyValue} /\ k.cap \in {o.cap, AnyValue} /\ k.zone \in {o.zone, AnyValue}
  BY DEF Covers
<1>3. CASE k \in Offerings
  <2>1. /\ k = [type |-> k.type, cap |-> k.cap, zone |-> k.zone]
        /\ AnyValue \notin {k.type, k.cap, k.zone}
    BY <1>3, WildcardFields
  <2>2. k.type = o.type /\ k.cap = o.cap /\ k.zone = o.zone
    BY <1>2, <2>1
  <2> QED
    BY <1>1, <2>1, <2>2
<1>4. ASSUME NEW q \in Offerings, k = AnyTypeOf(q)
      PROVE  k = AnyTypeOf(o)
  <2>1. /\ k = [type |-> AnyValue, cap |-> q.cap, zone |-> q.zone]
        /\ AnyValue \notin {q.type, q.cap, q.zone}
    BY <1>4, WildcardFields
  <2>2. k.cap = q.cap /\ k.zone = q.zone
    BY <2>1
  <2>3. q.cap = o.cap /\ q.zone = o.zone
    BY <1>2, <2>1, <2>2
  <2> QED
    BY <1>1, <2>1, <2>3
<1> QED
  BY <1>3, <1>4 DEF Keys

\* A failed Machine has an offering, and so its cause is a key.
LEMMA CauseKeys ==
  ASSUME NEW o \in Offerings, NEW kind
  PROVE  CauseKey(o, kind) \in Keys
BY KeysOfOfferings DEF CauseKey

\* What is blocked for a Machine is what its failure justifies.
LEMMA BlocksForCause ==
  ASSUME NEW f, NEW k \in BlockKeys(f)
  PROVE  k = CauseKey(f.offering, f.kind)
BY DEF BlockKeys, CauseKey

\* Steps that cause nothing, and list nothing and block nothing new.
LEMMA CauseKept ==
  ASSUME CauseInv, caused' = caused,
         \A s \in Slots : HasFailed(s)' =>
           HasFailed(s) /\ slot'[s].offering = slot[s].offering /\ slot'[s].kind = slot[s].kind,
         listed' \subseteq listed,
         \A k \in Keys : blockLeft'[k] > 0 => blockLeft[k] > 0
  PROVE  CauseInv'
<1>1. \A k \in caused' : k \in Keys /\ (k.type = AnyValue => k.cap = "spot")
  BY DEF CauseInv
<1>2. \A s \in Slots : HasFailed(s)' => CauseKey(slot[s].offering, slot[s].kind)' \in caused'
  BY DEF CauseInv, CauseKey, AnyTypeOf
<1>3. \A f \in listed' : CauseKey(f.offering, f.kind) \in caused'
  BY DEF CauseInv
<1>4. \A k \in Keys : blockLeft'[k] > 0 => k \in caused'
  BY DEF CauseInv
<1> QED
  BY <1>1, <1>2, <1>3, <1>4 DEF CauseInv, CauseKey, AnyTypeOf, Keys

\* Slots that change one of them to something that has not failed.
LEMMA NotFailed ==
  ASSUME TypeOK, NEW s \in Slots, NEW x, slot' = [slot EXCEPT ![s] = x],
         x.state \notin {"failed", "terminating"}
  PROVE  \A q \in Slots : HasFailed(q)' => HasFailed(q) /\ slot'[q] = slot[q]
<1> SUFFICES ASSUME NEW q \in Slots, HasFailed(q)'
             PROVE  HasFailed(q) /\ slot'[q] = slot[q]
  OBVIOUS
<1>1. q # s
  BY DEF TypeOK, HasFailed
<1>2. slot'[q] = slot[q]
  BY <1>1 DEF TypeOK
<1> QED
  BY <1>2 DEF HasFailed

\* A failed Machine that starts to terminate keeps its offering and its kind.
LEMMA TerminatesAlike ==
  ASSUME TypeOK, NEW s \in Slots, slot[s].state = "failed",
         slot' = [slot EXCEPT ![s].state = "terminating"]
  PROVE  /\ slot'[s].state = "terminating"
         /\ slot'[s].offering = slot[s].offering /\ slot'[s].kind = slot[s].kind
         /\ \A q \in Slots : q # s => slot'[q] = slot[q]
<1>1. slot[s] \in [state : {"failed", "terminating"}, offering : Offerings,
                   kind : FailureKinds]
  BY DEF TypeOK, SlotStates, Free
<1>2. slot'[s] = [slot[s] EXCEPT !.state = "terminating"]
  BY DEF TypeOK
<1>3. /\ slot'[s].state = "terminating"
      /\ slot'[s].offering = slot[s].offering /\ slot'[s].kind = slot[s].kind
  BY <1>1, <1>2
<1>4. \A q \in Slots : q # s => slot'[q] = slot[q]
  BY DEF TypeOK
<1> QED
  BY <1>3, <1>4

\* A failure is its own cause.
LEMMA FailureHasCause ==
  ASSUME TypeOK, CauseInv, NEW s \in Slots, NEW kind \in FailureKinds, RecordFailure(s, kind)
  PROVE  CauseInv'
<1> DEFINE o == slot[s].offering
           x == [slot[s] EXCEPT !.state = "failed", !.kind = kind]
<1>1. /\ slot[s] \in [state : {"listed", "running"}, offering : Offerings, kind : {"none"}]
      /\ kind = "quota" => o.cap = "spot"
      /\ slot' = [slot EXCEPT ![s] = x] /\ UNCHANGED <<cacheVars, passVars>>
      /\ caused' = caused \cup {CauseKey(o, kind)}
  BY LaunchType DEF RecordFailure, Fail, CauseKey, TypeOK
<1>2. x.offering = o /\ x.kind = kind
  BY <1>1
<1>3. \A q \in Slots : slot'[q] = IF q = s THEN x ELSE slot[q]
  BY <1>1 DEF TypeOK
<1> HIDE DEF o, x
<1>4. o \in Offerings
  BY <1>1 DEF o
<1>5. ASSUME NEW k \in caused'
      PROVE  k \in Keys /\ (k.type = AnyValue => k.cap = "spot")
  <2>1. CASE k \in caused
    BY <2>1 DEF CauseInv
  <2>2. CASE k = CauseKey(o, kind)
    <3>1. AnyTypeOf(o).cap = o.cap /\ o.type # AnyValue
      BY <1>4, WildcardFields
    <3>2. k \in Keys
      BY <1>4, <2>2, CauseKeys
    <3> QED
      BY <1>1, <2>2, <3>1, <3>2 DEF CauseKey
  <2> QED
    BY <1>1, <1>5, <2>1, <2>2
<1>6. ASSUME NEW q \in Slots, HasFailed(q)'
      PROVE  CauseKey(slot'[q].offering, slot'[q].kind) \in caused'
  <2>1. CASE q = s
    BY <1>1, <1>2, <1>3, <2>1
  <2>2. CASE q # s
    BY <1>1, <1>3, <1>6, <2>2 DEF CauseInv, HasFailed
  <2> QED
    BY <2>1, <2>2
<1>7. listed' = listed /\ blockLeft' = blockLeft /\ caused \subseteq caused'
  BY <1>1 DEF cacheVars, passVars
<1>8. \A f \in listed' : CauseKey(f.offering, f.kind) \in caused'
  BY <1>7 DEF CauseInv
<1>9. \A k \in Keys : blockLeft'[k] > 0 => k \in caused'
  BY <1>7 DEF CauseInv
<1> QED
  BY <1>5, <1>6, <1>8, <1>9 DEF CauseInv, CauseKey, AnyTypeOf, Keys

\* A launch that is refused is the cause of its block.
LEMMA RejectionHasCause ==
  ASSUME TypeOK, CauseInv, NEW s \in Slots, RecordRejection(s)
  PROVE  CauseInv'
<1> DEFINE o == slot[s].offering
<1>1. /\ slot[s] \in [state : {"listed", "running"}, offering : Offerings, kind : {"none"}]
      /\ slot' = [slot EXCEPT ![s] = Free] /\ blockLeft' = Blocked({o})
      /\ caused' = caused \cup {o} /\ listed' = listed
  BY LaunchType DEF RecordRejection, CreateRejected, passVars
<1>2. \A q \in Slots : HasFailed(q)' => HasFailed(q) /\ slot'[q] = slot[q]
  BY <1>1, NotFailed DEF Free
<1>3. o \in Offerings
  BY <1>1
<1> HIDE DEF o
<1>4. o \in Keys /\ o.type # AnyValue
  BY <1>3, KeysOfOfferings, WildcardFields
<1>5. \A k \in caused' : k \in Keys /\ (k.type = AnyValue => k.cap = "spot")
  BY <1>1, <1>4 DEF CauseInv
<1>6. \A q \in Slots : HasFailed(q)' => CauseKey(slot'[q].offering, slot'[q].kind) \in caused'
  BY <1>1, <1>2 DEF CauseInv
<1>7. \A f \in listed' : CauseKey(f.offering, f.kind) \in caused'
  BY <1>1 DEF CauseInv
<1>8. \A k \in Keys : blockLeft'[k] > 0 => k \in caused'
  BY <1>1 DEF CauseInv, Blocked
<1> QED
  BY <1>5, <1>6, <1>7, <1>8 DEF CauseInv, CauseKey, AnyTypeOf, Keys

\* The pass lists what failed and blocks what it listed.
LEMMA PassKeepsCauses ==
  ASSUME TypeOK, CauseInv, caused' = caused, Pass
  PROVE  CauseInv'
<1>1. CASE FCList
  <2>1. /\ listed' = {FailedMachine(s) : s \in {x \in Slots : HasFailed(x)}}
        /\ slot' = slot /\ blockLeft' = blockLeft
    BY <1>1 DEF FCList, cacheVars
  <2>2. \A f \in listed' : CauseKey(f.offering, f.kind) \in caused'
    BY <2>1 DEF CauseInv, FailedMachine
  <2> QED
    BY <2>1, <2>2 DEF CauseInv, CauseKey, AnyTypeOf, Keys, HasFailed
<1>2. CASE BlockUnknown
  <2> DEFINE B == UNION {BlockKeys(f) : f \in {g \in listed : ~Insufficient(g)}}
  <2>1. /\ listed' = {} /\ slot' = slot
        /\ \A k \in Keys : blockLeft'[k] = IF k \in B THEN BlockTTL ELSE blockLeft[k]
    BY <1>2 DEF BlockUnknown, Blocked
  <2>2. \A k \in B : k \in caused
    BY BlocksForCause DEF CauseInv
  <2> HIDE DEF B
  <2>3. \A k \in Keys : blockLeft'[k] > 0 => k \in caused'
    BY <2>1, <2>2 DEF CauseInv
  <2> QED
    BY <2>1, <2>3 DEF CauseInv, CauseKey, AnyTypeOf, Keys, HasFailed
<1>3. CASE Counting \/ EndPass
  BY <1>3, CauseKept DEF Counting, CountFailure, SkipFailure, EndPass, cacheVars, HasFailed
<1>4. CASE Deleting
  <2>1. PICK f \in toDelete :
          /\ UNCHANGED <<cacheVars, listed>>
          /\ \/ slot' = slot
             \/ /\ slot[f.slot].state = "failed"
                /\ slot' = [slot EXCEPT ![f.slot].state = "terminating"]
    BY <1>4 DEF Deleting, DeleteFailed, DeleteFails, cacheVars
  <2>2. f.slot \in Slots
    BY DEF TypeOK, FailedMachines
  <2>3. \A s \in Slots : HasFailed(s)' =>
          HasFailed(s) /\ slot'[s].offering = slot[s].offering /\ slot'[s].kind = slot[s].kind
    BY <2>1, <2>2, TerminatesAlike DEF HasFailed
  <2> QED
    BY <2>1, <2>3, CauseKept DEF cacheVars
<1> QED
  BY <1>1, <1>2, <1>3, <1>4 DEF Pass

LEMMA CauseInductive ==
  ASSUME TypeOK, CauseInv, [HistoryNext]_<<vars, historyVars>>
  PROVE  CauseInv'
<1>1. ASSUME NEW s \in Slots, caused' = caused,
             \/ \E o \in Offerings : ListOfferings(s, o)
             \/ CreateMachine(s) \/ CreateAborted(s) \/ Leave(s) \/ Release(s)
      PROVE  CauseInv'
  <2>1. UNCHANGED <<cacheVars, passVars>> /\ \E x :
          slot' = [slot EXCEPT ![s] = x] /\ x.state \notin {"failed", "terminating"}
    <3>1. CASE CreateMachine(s)
      <4> DEFINE x == [slot[s] EXCEPT !.state = "running"]
      <4>1. slot[s] \in [state : {"listed", "running"}, offering : Offerings, kind : {"none"}]
        BY <3>1, LaunchType DEF CreateMachine
      <4>2. x.state = "running" /\ slot' = [slot EXCEPT ![s] = x]
        BY <3>1, <4>1 DEF CreateMachine, TypeOK
      <4> HIDE DEF x
      <4> QED
        BY <3>1, <4>2 DEF CreateMachine
    <3> QED
      BY <1>1, <3>1 DEF ListOfferings, CreateAborted, Leave, Release, Free
  <2>2. \A q \in Slots : HasFailed(q)' => HasFailed(q) /\ slot'[q] = slot[q]
    BY <2>1, NotFailed
  <2> QED
    BY <1>1, <2>1, <2>2, CauseKept DEF cacheVars, passVars
<1>2. ASSUME NEW s \in Slots, caused' = caused, DeletedElsewhere(s)
      PROVE  CauseInv'
  <2>1. \A q \in Slots : HasFailed(q)' =>
          HasFailed(q) /\ slot'[q].offering = slot[q].offering /\ slot'[q].kind = slot[q].kind
    BY <1>2, TerminatesAlike DEF DeletedElsewhere, HasFailed
  <2> QED
    BY <1>2, <2>1, CauseKept DEF DeletedElsewhere, cacheVars, passVars
<1>3. CASE Tick /\ caused' = caused
  <2>1. \A k \in Keys : blockLeft'[k] > 0 => blockLeft[k] > 0
    BY <1>3 DEF Tick, TypeOK
  <2> QED
    BY <1>3, <2>1, CauseKept DEF Tick, passVars, HasFailed
<1>4. CASE Crash /\ caused' = caused
  <2>1. \A q \in Slots : HasFailed(q)' => HasFailed(q) /\ slot'[q] = slot[q]
    BY <1>4 DEF Crash, HasFailed, Free
  <2> QED
    BY <1>4, <2>1, CauseKept DEF Crash
<1>5. CASE UNCHANGED <<vars, historyVars>>
  BY <1>5, CauseKept DEF vars, historyVars, HasFailed
<1>6. ASSUME NEW f \in toCount, RecordCount(f)
      PROVE  CauseInv'
  BY <1>6, PassKeepsCauses DEF RecordCount, Pass, Counting
<1>7. CASE (FCList \/ BlockUnknown \/ Deleting \/ EndPass) /\ UNCHANGED historyVars
  BY <1>7, PassKeepsCauses DEF Pass, historyVars
<1>8. ASSUME NEW f \in toCount, SkipFailure(f), UNCHANGED historyVars
      PROVE  CauseInv'
  BY <1>8, PassKeepsCauses DEF Pass, Counting, historyVars
<1> QED
  BY <1>1, <1>2, <1>3, <1>4, <1>5, <1>6, <1>7, <1>8, FailureHasCause, RejectionHasCause
     DEF HistoryNext, RecordTick, historyVars

\* Only what failed is blocked, over any number of passes, restarts and lapsed
\* blocks: what hides an offering was caused by a failure or a refusal of that
\* offering or, for spot, by the user's quota.
THEOREM BlocksHaveCauses == HistorySpec => []BlockedForCause
<1>1. HistoryInit => CauseInv
  BY DEF HistoryInit, Init, CauseInv, HasFailed, Free
<1>2. CauseInv => BlockedForCause
  <2> SUFFICES ASSUME CauseInv, NEW o \in Offerings, IsBlocked(o)
               PROVE  o \in caused \/ (o.cap = "spot" /\ AnyTypeOf(o) \in caused)
    BY DEF BlockedForCause
  <2>1. PICK k \in Keys : blockLeft[k] > 0 /\ Covers(k, o)
    BY DEF IsBlocked
  <2>2. k \in caused /\ k \in {o, AnyTypeOf(o)}
    BY <2>1, CoveredByTwo DEF CauseInv
  <2>3. AnyTypeOf(o).type = AnyValue /\ AnyTypeOf(o).cap = o.cap
    BY WildcardFields
  <2> QED
    BY <2>2, <2>3 DEF CauseInv
<1> QED
  BY <1>1, <1>2, CauseInductive, HistoryHasTypes, PTL DEF HistorySpec

=============================================================================
