-------------------------- MODULE OfferingBlacklist -------------------------
(***************************************************************************)
(* What the provider remembers about offerings that could not be launched: *)
(* for each instance type, capacity type and zone a count of insufficient  *)
(* capacity (kept one hour after the last failure) and a block (kept half  *)
(* an hour), and the pass of the failure controller that keeps both:       *)
(*                                                                         *)
(*   list and classify -> count the insufficient -> classify again         *)
(*     -> block the others -> delete them all                              *)
(*                                                                         *)
(* next to launches that read the blacklist in List and use the answer     *)
(* later, and to Machines that fail and disappear at any time.             *)
(*                                                                         *)
(* Simplifications.  A slot stands for one launch at a time, from List to  *)
(* the end of its Machine; it is used again only when nobody remembers its *)
(* Machine, as names are never reused.  Only Tick takes time: entries are  *)
(* kept for a number of ticks.  Which offering a launch chooses among the  *)
(* unblocked ones, and what else List returns, is left out.                *)
(*                                                                         *)
(* Definitions named Faulty... are mistakes the code does not make; each   *)
(* is refuted by the property that guards against it.                      *)
(***************************************************************************)
EXTENDS Naturals, FiniteSets

CONSTANTS
  Offerings,    \* records of an instance type, a capacity type and a zone
  Slots,        \* launches and Machines at one time
  AnyValue,     \* "*" in a key of the blacklist
  NoOffering,   \* the offering of a slot that is free
  TypeLimit,    \* insufficient failures of a type that are tolerated: 3
  SpotLimit,    \* insufficient failures of spot in a zone: 50
  FailureTTL,   \* ticks for which a count is kept: one hour
  BlockTTL      \* ticks for which a block is kept: half an hour

ASSUME BlacklistAssumption ==
  /\ \A o \in Offerings : /\ o = [type |-> o.type, cap |-> o.cap, zone |-> o.zone]
                          /\ o.cap \in {"spot", "on-demand"}
                          /\ AnyValue \notin {o.type, o.cap, o.zone}
  /\ NoOffering \notin Offerings
  /\ IsFiniteSet(Slots)
  /\ TypeLimit \in Nat /\ SpotLimit \in Nat
  /\ FailureTTL \in Nat \ {0} /\ BlockTTL \in Nat \ {0}

VARIABLES
  slot,       \* the launches: state, offering and kind of failure
  failures,   \* failure-ins-...: count, and the ticks it has left
  blockLeft,  \* blocked-ins-...: the ticks the block has left, or 0
  phase,      \* the failure controller: "idle", "count" or "delete"
  listed,     \* the failed Machines of this pass, until they are blocked
  toCount,    \* insufficient ones not yet counted in this pass
  toDelete    \* Machines this pass has still to delete

passVars == <<phase, listed, toCount, toDelete>>
cacheVars == <<failures, blockLeft>>
vars == <<slot, failures, blockLeft, phase, listed, toCount, toDelete>>

-----------------------------------------------------------------------------
(* "insufficient": out of stock, by reason and message; "quota": the       *)
(* user's spot quota; "garbled": out of stock by its message, but with a   *)
(* provider spec that cannot be decoded; "other": any other message.       *)
FailureKinds == {"insufficient", "quota", "garbled", "other"}

AnyTypeOf(o) == [o EXCEPT !.type = AnyValue]
Keys == Offerings \cup {AnyTypeOf(o) : o \in Offerings}

NoFailures == [count |-> 0, left |-> 0]
Free == [state |-> "free", offering |-> NoOffering, kind |-> "none"]

\* The capacity type is left out of the key.
FaultyCovers(k, o) ==
  /\ k.type \in {o.type, AnyValue}
  /\ k.zone \in {o.zone, AnyValue}

\* isBlocked: the key itself, or any key with "*" in some places.
Covers(k, o) ==
  /\ k.type \in {o.type, AnyValue}
  /\ k.cap \in {o.cap, AnyValue}
  /\ k.zone \in {o.zone, AnyValue}
IsBlocked(o) == \E k \in Keys : blockLeft[k] > 0 /\ Covers(k, o)

\* A block that is still there is prolonged by a whole lifetime.
FaultyBlocked(B) ==
  [k \in Keys |-> IF k \in B THEN blockLeft[k] + BlockTTL ELSE blockLeft[k]]

\* BlockInstanceType for a set of keys.
Blocked(B) == [k \in Keys |-> IF k \in B THEN BlockTTL ELSE blockLeft[k]]

\* GetInsufficientFailureCount and AddInsufficientFailure.
Count(k) == failures[k].count
Added(B) ==
  [k \in Keys |-> IF k \in B
                  THEN [count |-> Count(k) + 1, left |-> FailureTTL]
                  ELSE failures[k]]

TypeOver(o) == Count(o) > TypeLimit
SpotOver(o) == o.cap = "spot" /\ Count(AnyTypeOf(o)) > SpotLimit

\* The limit of the type is forgotten.
FaultyInsufficient(f) == f.kind = "insufficient" /\ ~SpotOver(f.offering)

\* isFailureWithInsufficientResources.
Insufficient(f) ==
  /\ f.kind = "insufficient"
  /\ ~SpotOver(f.offering)
  /\ ~TypeOver(f.offering)

\* The keys that the failure of one Machine is counted under.
CountKeys(o) == {o} \cup {k \in {AnyTypeOf(o)} : o.cap = "spot"}

\* Spot that is out of stock is blocked for all types.
FaultyBlockKeys(f) ==
  IF f.kind = "insufficient" /\ f.offering.cap = "spot"
  THEN {AnyTypeOf(f.offering)} ELSE {f.offering}

\* The key that blockInstanceTypes blocks for a Machine; none when the
\* provider spec cannot be decoded.
BlockKeys(f) ==
  CASE f.kind = "quota" -> {AnyTypeOf(f.offering)}
    [] f.kind = "garbled" -> {}
    [] OTHER -> {f.offering}

\* A Machine with a failure message and no provider ID; one that is being
\* deleted is not treated differently.
HasFailed(s) == slot[s].state \in {"failed", "terminating"}
FailedMachine(s) ==
  [slot |-> s, offering |-> slot[s].offering, kind |-> slot[s].kind]
FailedMachines ==
  [slot : Slots, offering : Offerings, kind : FailureKinds]

Remembered(s) == \E f \in listed \cup toCount \cup toDelete : f.slot = s

SlotStates ==
  {Free} \cup [state : {"listed", "running"}, offering : Offerings, kind : {"none"}]
         \cup [state : {"failed", "terminating"}, offering : Offerings,
               kind : FailureKinds]

TypeOK ==
  /\ slot \in [Slots -> SlotStates]
  /\ failures \in [Keys -> [count : Nat, left : 0..FailureTTL]]
  /\ blockLeft \in [Keys -> 0..BlockTTL]
  /\ phase \in {"idle", "count", "delete"}
  /\ listed \subseteq FailedMachines
  /\ toCount \subseteq FailedMachines
  /\ toDelete \subseteq FailedMachines

Init ==
  /\ slot = [s \in Slots |-> Free]
  /\ failures = [k \in Keys |-> NoFailures]
  /\ blockLeft = [k \in Keys |-> 0]
  /\ phase = "idle"
  /\ listed = {} /\ toCount = {} /\ toDelete = {}

-----------------------------------------------------------------------------
(* Launches.  resolveInstanceTypes reads the blacklist and the launch uses *)
(* what it read, while the failure controller may block that very offering.*)
ListOfferings(s, o) ==
  /\ slot[s] = Free
  /\ ~Remembered(s)
  /\ ~IsBlocked(o)
  /\ slot' = [slot EXCEPT ![s] =
                [state |-> "listed", offering |-> o, kind |-> "none"]]
  /\ UNCHANGED <<cacheVars, passVars>>

CreateMachine(s) ==
  /\ slot[s].state = "listed"
  /\ slot' = [slot EXCEPT ![s].state = "running"]
  /\ UNCHANGED <<cacheVars, passVars>>

\* The API server refuses the Machine: its offering is blocked.
CreateRejected(s) ==
  /\ slot[s].state = "listed"
  /\ blockLeft' = Blocked({slot[s].offering})
  /\ slot' = [slot EXCEPT ![s] = Free]
  /\ UNCHANGED <<failures, passVars>>

\* Create fails before it has chosen an offering and a subnet.
CreateAborted(s) ==
  /\ slot[s].state = "listed"
  /\ slot' = [slot EXCEPT ![s] = Free]
  /\ UNCHANGED <<cacheVars, passVars>>

(* The machine actuator (external).  A Machine that gets its instance, or  *)
(* is deleted before it fails, leaves this story.                          *)
Leave(s) ==
  /\ slot[s].state = "running"
  /\ slot' = [slot EXCEPT ![s] = Free]
  /\ UNCHANGED <<cacheVars, passVars>>

Fail(s, kind) ==
  /\ slot[s].state = "running"
  /\ kind = "quota" => slot[s].offering.cap = "spot"
  /\ slot' = [slot EXCEPT ![s] = [@ EXCEPT !.state = "failed", !.kind = kind]]
  /\ UNCHANGED <<cacheVars, passVars>>

Release(s) ==
  /\ slot[s].state = "terminating"
  /\ slot' = [slot EXCEPT ![s] = Free]
  /\ UNCHANGED <<cacheVars, passVars>>

\* A user, core or the garbage collector deletes a failed Machine.
DeletedElsewhere(s) ==
  /\ slot[s].state = "failed"
  /\ slot' = [slot EXCEPT ![s].state = "terminating"]
  /\ UNCHANGED <<cacheVars, passVars>>

-----------------------------------------------------------------------------
(* The failure controller.                                                 *)
\* Machines short of capacity are left to be deleted by somebody else.
FaultyFCListForgets ==
  /\ phase = "idle"
  /\ listed' = {FailedMachine(s) : s \in {x \in Slots : HasFailed(x)}}
  /\ toCount' = {f \in listed' : Insufficient(f)}
  /\ toDelete' = {}
  /\ phase' = "count"
  /\ UNCHANGED <<slot, cacheVars>>

\* Reconcile lists the failed Machines and picks those that failed for lack
\* of capacity, the ones it deleted before and that still terminate among
\* them.  They will be deleted whatever is decided later.
FCList ==
  /\ phase = "idle"
  /\ listed' = {FailedMachine(s) : s \in {x \in Slots : HasFailed(x)}}
  /\ toCount' = {f \in listed' : Insufficient(f)}
  /\ toDelete' = toCount'
  /\ phase' = "count"
  /\ UNCHANGED <<slot, cacheVars>>

\* refreshInstanceTypes, one Machine: it is counted, and for spot counted
\* for its zone too, before the instance types are fetched again.
CountFailure(f) ==
  /\ f \in toCount
  /\ failures' = Added(CountKeys(f.offering))
  /\ toCount' = toCount \ {f}
  /\ UNCHANGED <<slot, blockLeft, phase, listed, toDelete>>

\* ... without a NodeClass label, or with a NodeClass that cannot be read,
\* it is not counted.
SkipFailure(f) ==
  /\ f \in toCount
  /\ toCount' = toCount \ {f}
  /\ UNCHANGED <<slot, cacheVars, phase, listed, toDelete>>

\* Failures are classified once, before they are counted.
FaultyBlockUnknownStale ==
  /\ phase = "count"
  /\ toCount = {}
  /\ blockLeft' = Blocked(UNION {BlockKeys(f) : f \in listed \ toDelete})
  /\ toDelete' = toDelete \cup listed
  /\ listed' = {}
  /\ phase' = "delete"
  /\ UNCHANGED <<slot, failures, toCount>>

\* A block renews the count as well.
FaultyBlockUnknownTouches ==
  /\ phase = "count"
  /\ toCount = {}
  /\ LET unknown == {f \in listed : ~Insufficient(f)} IN
       /\ blockLeft' = Blocked(UNION {BlockKeys(f) : f \in unknown})
       /\ failures' = [k \in Keys |->
            IF Count(k) > 0 /\ k \in {f.offering : f \in unknown}
            THEN [failures[k] EXCEPT !.left = FailureTTL] ELSE failures[k]]
       /\ toDelete' = toDelete \cup unknown
  /\ listed' = {}
  /\ phase' = "delete"
  /\ UNCHANGED <<slot, toCount>>

\* The listed Machines are classified again, now with the counts of this
\* pass; what is not insufficient is blocked and will be deleted.
BlockUnknown ==
  /\ phase = "count"
  /\ toCount = {}
  /\ LET unknown == {f \in listed : ~Insufficient(f)} IN
       /\ blockLeft' = Blocked(UNION {BlockKeys(f) : f \in unknown})
       /\ toDelete' = toDelete \cup unknown
  /\ listed' = {}
  /\ phase' = "delete"
  /\ UNCHANGED <<slot, failures, toCount>>

DeleteFailed(f) ==
  /\ phase = "delete"
  /\ f \in toDelete
  /\ toDelete' = toDelete \ {f}
  /\ slot' = IF slot[f.slot].state = "failed"
             THEN [slot EXCEPT ![f.slot].state = "terminating"] ELSE slot
  /\ UNCHANGED <<cacheVars, phase, listed, toCount>>

\* The API server refuses, or the NodeClaim is gone already: then
\* deleteFailureMachine returns in this and in every later pass, and the
\* Machine is left to others.
DeleteFails(f) ==
  /\ phase = "delete"
  /\ f \in toDelete
  /\ toDelete' = toDelete \ {f}
  /\ UNCHANGED <<slot, cacheVars, phase, listed, toCount>>

EndPass ==
  /\ phase = "delete"
  /\ toDelete = {}
  /\ phase' = "idle"
  /\ UNCHANGED <<slot, cacheVars, listed, toCount, toDelete>>

-----------------------------------------------------------------------------
\* Blocks are stored without expiration.
FaultyTick ==
  /\ failures' = [k \in Keys |-> IF failures[k].left <= 1 THEN NoFailures
                                 ELSE [failures[k] EXCEPT !.left = @ - 1]]
  /\ UNCHANGED <<slot, blockLeft, passVars>>

\* Time passes and entries of the cache expire.
Tick ==
  /\ failures' = [k \in Keys |-> IF failures[k].left <= 1 THEN NoFailures
                                 ELSE [failures[k] EXCEPT !.left = @ - 1]]
  /\ blockLeft' = [k \in Keys |-> IF blockLeft[k] = 0 THEN 0 ELSE blockLeft[k] - 1]
  /\ UNCHANGED <<slot, passVars>>

\* The process restarts: caches, pass and unfinished launches are lost.
Crash ==
  /\ failures' = [k \in Keys |-> NoFailures]
  /\ blockLeft' = [k \in Keys |-> 0]
  /\ slot' = [s \in Slots |-> IF slot[s].state = "listed" THEN Free ELSE slot[s]]
  /\ phase' = "idle"
  /\ listed' = {} /\ toCount' = {} /\ toDelete' = {}

Launching ==
  \E s \in Slots :
    \/ \E o \in Offerings : ListOfferings(s, o)
    \/ CreateMachine(s)
    \/ CreateRejected(s)
    \/ CreateAborted(s)

Actuator ==
  \E s \in Slots :
    \/ Leave(s)
    \/ \E kind \in FailureKinds : Fail(s, kind)
    \/ Release(s)
    \/ DeletedElsewhere(s)

Counting == \E f \in toCount : CountFailure(f) \/ SkipFailure(f)
Deleting == \E f \in toDelete : DeleteFailed(f) \/ DeleteFails(f)
Pass == FCList \/ Counting \/ BlockUnknown \/ Deleting \/ EndPass

Next == Launching \/ Actuator \/ Pass \/ Tick \/ Crash

Spec == Init /\ [][Next]_vars

\* The failure controller requeues itself after success and failure, deleted
\* Machines are released in the end, time passes, and the process does not
\* restart for ever.  That a deletion ever succeeds is not assumed.
Fairness ==
  /\ WF_vars(FCList) /\ WF_vars(Counting) /\ WF_vars(BlockUnknown)
  /\ WF_vars(Deleting) /\ WF_vars(EndPass) /\ WF_vars(Tick)
  /\ \A s \in Slots : WF_vars(Release(s))
  /\ <>[][~Crash]_vars

FairSpec == Spec /\ Fairness

-----------------------------------------------------------------------------
\* A type is blocked in the very pass whose failures take it over the limit:
\* when BlockUnknown ends, no insufficient Machine that is about to be
\* deleted has an offering over its limit that can still be launched.
BlockedOnceOverLimit ==
  [][phase = "count" /\ phase' = "delete" =>
       \A f \in toDelete' :
         f.kind = "insufficient" /\ (TypeOver(f.offering) \/ SpotOver(f.offering))
           => IsBlocked(f.offering)']_vars

\* Counting stops at the limit: a count exceeds it by no more than the
\* Machines of one pass, because isFailureWithInsufficientResources turns
\* away what is over the limit before it is counted.
CountsStop ==
  \A o \in Offerings :
    /\ Count(o) <= TypeLimit + Cardinality(Slots)
    /\ o.cap = "spot" => Count(AnyTypeOf(o)) <= SpotLimit + Cardinality(Slots)

\* A Machine that nobody ever deletes: passes block its offering again and again.
NeverDeleted(s, o) ==
  <>[](/\ slot[s].state = "failed"
       /\ \E k \in BlockKeys(FailedMachine(s)) : Covers(k, o))

\* No offering is blocked for good: every block of isBlocked lapses, although
\* passes may block again what lingers and launches under way may fail.  Only
\* a failed Machine that nobody ever deletes keeps its offering blocked.
OfferingReturns ==
  \A o \in Offerings :
    []<>(~IsBlocked(o)) \/ \E s \in Slots : NeverDeleted(s, o)

\* No stock-out is remembered for good: a count over its limit is not
\* refreshed by the failures that follow and expires.
StockOutForgotten ==
  /\ \A o \in Offerings : []<>(~TypeOver(o))
  /\ \A o \in Offerings : []<>(~SpotOver(o))

\* The deletion of a failed Machine is tried again and again until somebody
\* deletes it: the two classifications of a pass may disagree and pass it
\* over, but not in every pass, although counts grow and expire between them.
FailuresAreTried ==
  \A s \in Slots :
    []<>(slot[s].state = "failed" => \E f \in toDelete : f.slot = s)
=============================================================================
