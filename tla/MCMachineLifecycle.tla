------------------------- MODULE MCMachineLifecycle -------------------------
(* Model checking of MachineLifecycle: NodeClaims and Machines are model   *)
(* values that the specification treats alike.                             *)
EXTENDS MachineLifecycle, TLC

Symmetry == Permutations(NodeClaims) \cup Permutations(Machines)

\* The steps of core that no run bounds.
CoreKeepsOn(c) ==
  \/ CreateNodeClaim(c) \/ PatchOwnedMachine(c) \/ PatchLaunched(c)
  \/ FinalizerDelete(c) \/ RemoveFinalizer(c)

\* Bounds of the safety run: one claim ends, the others may be in use all
\* along; one claim at a time is launched, until the cache shows its
\* annotation; and one claim at a time waits for the patch of its provider ID.
EndsAlone(c) == \A d \in NodeClaims \ {c} : claimPhase[d] \notin {"deleting", "gone"}
LaunchesAlone(c) ==
  \A d \in NodeClaims \ {c} :
    launchCache[d] = NoMachine /\ shown[d] = Annotation(d)
ReadsAlone(c) == \A d \in NodeClaims \ {c} : pidRead[d] = NoID
SafetyNext ==
  \/ \E c \in NodeClaims :
       \/ CoreKeepsOn(c)
       \/ EndsAlone(c) /\ DeleteNodeClaim(c)
       \/ LaunchesAlone(c) /\ \E m \in Machines : Launch(c, m) \/ LaunchFailsLate(c, m)
       \/ ReadsAlone(c) /\ ReadMachine(c)
       \/ PatchProviderID(c)
  \/ FCList
  \/ \E m \in Machines :
       \/ ReconcileMachine(m)
       \/ EndsAlone(owner[m]) /\ FCDeleteClaim(m)
       \/ FCDeleteMachine(m) \/ FCDeleteFails(m)
  \/ GarbageCollection \/ Environment
SafetySpec == Init /\ [][SafetyNext]_vars

\* Without symmetry, which liveness does not allow: Machines are alike until
\* they are created, and may be named in the order of their creation.
First == CHOOSE m \in Machines : TRUE
NextName(m) == m # First => mstate[First] # "absent"
\* ... one Machine fails, and while the cache lags the collector alone runs,
\* but for edits of Machines.
Lagging == \E c \in NodeClaims : shown[c] # Annotation(c)
LiveEnvironment ==
  \/ \E m \in Machines :
       \/ Provision(m) \/ (failed = {} /\ Fail(m)) \/ Release(m)
       \/ CollectDangling(m) \/ Age(m)
  \/ Crash
LiveNext ==
  \/ GarbageCollection \/ \E m \in Machines : Corrupt(m)
  \/ /\ ~Lagging
     /\ \/ \E c \in NodeClaims :
             \/ CoreKeepsOn(c) \/ DeleteNodeClaim(c)
             \/ \E m \in Machines :
                  NextName(m) /\ (Launch(c, m) \/ LaunchFailsLate(c, m))
        \/ ProviderIDControllers \/ Failure \/ LiveEnvironment
LiveSpec == Init /\ [][LiveNext]_vars /\ Fairness
=============================================================================
