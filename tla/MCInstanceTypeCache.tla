------------------------- MODULE MCInstanceTypeCache ------------------------
(* Model checking of InstanceTypeCache: only the failure controller, which *)
(* runs one reconcile at a time, refreshes; other Lists do not.            *)
(*                                                                         *)
(* Either the world changes, for one class whose on-demand types alone may *)
(* be stale in the cloud's cache, or three classes, two of them with the   *)
(* same zones, meet while nothing changes and nothing is refreshed.  A     *)
(* List that answered waits for the other one to answer or fail before     *)
(* either begins again.                                                    *)
EXTENDS InstanceTypeCache

CONSTANTS
  Refresher,   \* the failure controller's List
  c1, c2, c3   \* the classes

VARIABLE changing   \* which of the two it is

ZonesOfSubnets == [c \in {c1, c2, c3} |-> IF c = c3 THEN {"z2"} ELSE {"z1"}]

\* The Lists that refresh, and the classes and failures of Lists.
Refreshing(l) == changing /\ l = Refresher
MayBeFor(l, c) == changing \/ l = Refresher => c = c1
MayFail(l) == changing => l = Refresher

MCInit == Init /\ changing \in BOOLEAN
MCNext ==
  /\ \/ \E l \in Lists :
          \/ /\ \A m \in Lists : step[m] = "answered" => step[l] = "answered"
             /\ \E c \in Classes : MayBeFor(l, c) /\ Start(l, c, Refreshing(l))
          \/ Hit(l)
          \/ Fetch(l) /\ (step[l] = "spot" => ~FetchStale(l))
          \/ Fails(l) /\ MayFail(l)
          \/ Store(l)
     \/ changing /\ Tick
     \/ changing /\ Change
  /\ UNCHANGED changing
MCSpec == MCInit /\ [][MCNext]_<<vars, changing>> /\ Fairness
=============================================================================
