---------------------- MODULE OfferingBlacklistHistory ----------------------
(***************************************************************************)
(* OfferingBlacklist with two history variables, for the properties that   *)
(* compare the caches with what really happened.  They change nothing: a   *)
(* step of this specification is a step of OfferingBlacklist.              *)
(***************************************************************************)
EXTENDS OfferingBlacklist, FiniteSetsExt

CONSTANT HourCap   \* bound of the counts told apart in each tick of an hour;
                   \*   0 keeps no account of the hour

VARIABLES
  caused,   \* the keys for whose block there was a reason
  hits,     \* insufficient failures of each offering, up to MaxCount
  hour      \* what was counted for each offering in each tick of the last hour

historyVars == <<caused, hits, hour>>

MaxCount == TypeLimit + Cardinality(Slots)
Capped(n, cap) == IF n > cap THEN cap ELSE n

HistoryInit ==
  /\ Init
  /\ caused = {}
  /\ hits = [o \in Offerings |-> 0]
  /\ hour = [o \in Offerings |-> [age \in 0..(FailureTTL - 1) |-> 0]]

\* A failure is a reason to block, and an insufficient one is a hit.
RecordFailure(s, kind) ==
  /\ Fail(s, kind)
  /\ LET o == slot[s].offering IN
       /\ caused' = caused \cup {IF kind = "quota" THEN AnyTypeOf(o) ELSE o}
       /\ hits' = IF kind = "insufficient"
                  THEN [hits EXCEPT ![o] = Capped(@ + 1, MaxCount)] ELSE hits
  /\ UNCHANGED hour

RecordRejection(s) ==
  /\ CreateRejected(s)
  /\ caused' = caused \cup {slot[s].offering}
  /\ UNCHANGED <<hits, hour>>

RecordCount(f) ==
  /\ CountFailure(f)
  /\ hour' = [hour EXCEPT ![f.offering][0] = Capped(@ + 1, HourCap)]
  /\ UNCHANGED <<caused, hits>>

RecordTick ==
  /\ Tick
  /\ hour' = [o \in Offerings |-> [age \in 0..(FailureTTL - 1) |->
                IF age = 0 THEN 0 ELSE hour[o][age - 1]]]
  /\ UNCHANGED <<caused, hits>>

HistoryNext ==
  \/ \E s \in Slots :
       \/ \E o \in Offerings : ListOfferings(s, o) /\ UNCHANGED historyVars
       \/ \E kind \in FailureKinds : RecordFailure(s, kind)
       \/ RecordRejection(s)
       \/ /\ \/ CreateMachine(s) \/ CreateAborted(s)
             \/ Leave(s) \/ Release(s) \/ DeletedElsewhere(s)
          /\ UNCHANGED historyVars
  \/ \E f \in toCount : \/ RecordCount(f)
                        \/ SkipFailure(f) /\ UNCHANGED historyVars
  \/ (FCList \/ BlockUnknown \/ Deleting \/ EndPass) /\ UNCHANGED historyVars
  \/ RecordTick
  \/ Crash /\ UNCHANGED historyVars

HistorySpec == HistoryInit /\ [][HistoryNext]_<<vars, historyVars>>

-----------------------------------------------------------------------------
\* Only what failed is blocked: a block that hides an offering was caused by
\* a failure or a refusal of that very offering or, for spot, by the user's
\* quota in that zone.  Nothing hides an on-demand offering but its own type.
BlockedForCause ==
  \A o \in Offerings : IsBlocked(o) =>
    \/ o \in caused
    \/ o.cap = "spot" /\ AnyTypeOf(o) \in caused

\* A type is held to be out of stock only after more Machines of it failed
\* than isFailureWithInsufficientResources tolerates ("3 times"): no failure
\* counts twice.
OverLimitAfterFailures ==
  \A o \in Offerings : TypeOver(o) => hits[o] > TypeLimit

\* The comment on that limit says "3 times(1h)": what takes a type over the
\* limit was counted within one hour.
OverLimitWithinTheHour ==
  [][\A o \in Offerings : ~TypeOver(o) /\ TypeOver(o)' =>
       MapThenSumSet(LAMBDA age : hour'[o][age], 0..(FailureTTL - 1)) > TypeLimit
    ]_<<vars, historyVars>>
=============================================================================
