----------------------- MODULE MachineLifecycleProofs -----------------------
(***************************************************************************)
(* Proofs about MachineLifecycle, for any sets of NodeClaims and Machines  *)
(* and any number of faults.                                               *)
(*                                                                         *)
(* TypeOK is inductive.  The other properties follow from IInv, which adds *)
(* what the provider ID, the annotation and the launch cache of a claim    *)
(* refer to, and, for the case that the 30 seconds suffice, that no old    *)
(* Machine of an active claim can be taken for abandoned.                  *)
(***************************************************************************)
EXTENDS MachineLifecycle, TLAPS

-----------------------------------------------------------------------------
(* Type correctness.                                                       *)

LEMMA CoreKeepsTypes ==
  ASSUME TypeOK, NEW c \in NodeClaims, Core(c)
  PROVE  TypeOK'
<1> USE ConstantsAssumption DEF TypeOK, claimVars, machineVars, gcVars, fcVars
<1>1. CASE CreateNodeClaim(c)
  BY <1>1 DEF CreateNodeClaim
<1>2. CASE DeleteNodeClaim(c)
  BY <1>2 DEF DeleteNodeClaim, ClaimDeleted
<1>3. ASSUME NEW m \in Machines, Launch(c, m)
      PROVE  TypeOK'
  BY <1>3 DEF Launch, CreateMachine
<1>4. ASSUME NEW m \in Machines, LaunchFailsLate(c, m)
      PROVE  TypeOK'
  BY <1>4 DEF LaunchFailsLate, CreateMachine
<1>5. CASE PatchOwnedMachine(c)
  BY <1>5 DEF PatchOwnedMachine
<1>6. CASE PatchLaunched(c)
  BY <1>6 DEF PatchLaunched
<1>7. CASE FinalizerDelete(c)
  BY <1>7 DEF FinalizerDelete, FoundByID, Terminated
<1>8. CASE RemoveFinalizer(c)
  BY <1>8 DEF RemoveFinalizer
<1> QED
  BY <1>1, <1>2, <1>3, <1>4, <1>5, <1>6, <1>7, <1>8 DEF Core

LEMMA ProviderIDControllersKeepTypes ==
  ASSUME TypeOK, ProviderIDControllers
  PROVE  TypeOK'
<1> USE ConstantsAssumption DEF TypeOK, claimVars, machineVars, gcVars, fcVars
<1>1. ASSUME NEW c \in NodeClaims, ReadMachine(c)
      PROVE  TypeOK'
  BY <1>1 DEF ReadMachine, MachinesOf, Real, Placeholder, ProviderIDs
<1>2. ASSUME NEW c \in NodeClaims, PatchProviderID(c)
      PROVE  TypeOK'
  BY <1>2 DEF PatchProviderID, NoID, ProviderIDs
<1>3. ASSUME NEW m \in Machines, ReconcileMachine(m)
      PROVE  TypeOK'
  BY <1>3 DEF ReconcileMachine, Real, ProviderIDs
<1> QED
  BY <1>1, <1>2, <1>3 DEF ProviderIDControllers

LEMMA GarbageCollectionKeepsTypes ==
  ASSUME TypeOK, GarbageCollection
  PROVE  TypeOK'
<1> USE ConstantsAssumption DEF TypeOK, claimVars, machineVars, gcVars, fcVars
<1>1. CASE GCList
  BY <1>1 DEF GCList, OwnedMachines
<1>2. CASE GCListClaims
  BY <1>2 DEF GCListClaims
<1>3. ASSUME NEW m \in Machines, GCDelete(m)
      PROVE  TypeOK'
  BY <1>3 DEF GCDelete, Terminated
<1>4. ASSUME NEW m \in Machines, GCSpare(m) \/ GCDeleteFails(m)
      PROVE  TypeOK'
  BY <1>4 DEF GCSpare, GCDeleteFails
<1>5. ASSUME NEW c \in NodeClaims, InformerCatchesUp(c)
      PROVE  TypeOK'
  BY <1>5 DEF InformerCatchesUp, Annotation
<1> QED
  BY <1>1, <1>2, <1>3, <1>4, <1>5 DEF GarbageCollection, GCPass

LEMMA FailureKeepsTypes ==
  ASSUME TypeOK, Failure
  PROVE  TypeOK'
<1> USE ConstantsAssumption DEF TypeOK, claimVars, machineVars, gcVars, fcVars
<1>1. CASE FCList
  BY <1>1 DEF FCList, OwnedMachines
<1>2. ASSUME NEW m \in Machines, FCDeleteClaim(m)
      PROVE  TypeOK'
  BY <1>2 DEF FCDeleteClaim, ClaimDeleted
<1>3. ASSUME NEW m \in Machines, FCDeleteMachine(m)
      PROVE  TypeOK'
  BY <1>3 DEF FCDeleteMachine, Terminated
<1>4. ASSUME NEW m \in Machines, FCDeleteFails(m)
      PROVE  TypeOK'
  BY <1>4 DEF FCDeleteFails
<1> QED
  BY <1>1, <1>2, <1>3, <1>4 DEF Failure, FCPass

LEMMA EnvironmentKeepsTypes ==
  ASSUME TypeOK, Environment
  PROVE  TypeOK'
<1> USE ConstantsAssumption DEF TypeOK, claimVars, machineVars, gcVars, fcVars
<1>1. ASSUME NEW m \in Machines, Provision(m) \/ Fail(m)
      PROVE  TypeOK'
  BY <1>1 DEF Provision, Fail
<1>2. ASSUME NEW m \in Machines, Release(m)
      PROVE  TypeOK'
  BY <1>2 DEF Release
<1>3. ASSUME NEW m \in Machines, CollectDangling(m)
      PROVE  TypeOK'
  BY <1>3 DEF CollectDangling, Terminated
<1>4. ASSUME NEW m \in Machines, Age(m) \/ Corrupt(m)
      PROVE  TypeOK'
  BY <1>4 DEF Age, Corrupt
<1>5. CASE Crash
  BY <1>5 DEF Crash, Annotation, NoID, ProviderIDs
<1> QED
  BY <1>1, <1>2, <1>3, <1>4, <1>5 DEF Environment

LEMMA StutterKeepsTypes ==
  ASSUME TypeOK, UNCHANGED vars
  PROVE  TypeOK'
BY DEF TypeOK, vars, claimVars, machineVars, gcVars, fcVars

\* Type correctness of the whole system: every variable stays in its domain,
\* in particular the status of a claim always holds a provider ID record.
THEOREM TypeCorrect == Spec => []TypeOK
<1>1. Init => TypeOK
  BY ConstantsAssumption DEF Init, TypeOK, NoID, ProviderIDs
<1>2. TypeOK /\ [Next]_vars => TypeOK'
  BY CoreKeepsTypes, ProviderIDControllersKeepTypes, GarbageCollectionKeepsTypes,
     FailureKeepsTypes, EnvironmentKeepsTypes, StutterKeepsTypes DEF Next
<1> QED
  BY <1>1, <1>2, PTL DEF Spec

-----------------------------------------------------------------------------
(* The inductive invariant.                                                *)

\* What a claim refers to was created for it, and a claim that does not exist
\* yet refers to nothing.
References ==
  \A c \in NodeClaims :
    /\ owned[c] # NoMachine => owner[owned[c]] = c
    /\ launchCache[c] # NoMachine => owner[launchCache[c]] = c
    /\ claimPhase[c] = "absent" =>
         /\ owned[c] = NoMachine /\ launchCache[c] = NoMachine
         /\ claimID[c] = NoID /\ pidRead[c] = NoID

\* A Machine has an owner from its creation on; nothing is known of a Machine
\* before; a failed Machine has no instance.
MachineHistory ==
  /\ \A m \in Machines :
       mstate[m] = "absent" <=> owner[m] = NoClaim
  /\ \A m \in identified \cup failed \cup old \cup gcListed : mstate[m] # "absent"
  /\ \A m \in identified : m \notin failed

\* If everything is in time: no old Machine of an active claim can be taken
\* for abandoned, and what such a claim holds or is about to hold is alive.
TimelyInv ==
  InTime =>
    /\ \A m \in old : ~Exposed(m)
    /\ \A c \in NodeClaims : claimPhase[c] = "active" =>
         \A m \in {owned[c], launchCache[c]} \ {NoMachine} : mstate[m] = "live"

FailureTargetsInv ==
  /\ FailureTargetsAreFailed
  /\ \A m \in fcTodo \cup fcHalf : owner[m] \in NodeClaims

IInv ==
  /\ TypeOK
  /\ References
  /\ MachineHistory
  /\ IDNamesOwnMachine
  /\ TimelyInv
  /\ FailureTargetsInv
  /\ FinalizedLeavesNoInstance

-----------------------------------------------------------------------------
(* Ending a Machine.                                                       *)

\* Held by no active claim, now or soon.
Free(m) ==
  \A c \in NodeClaims : claimPhase[c] = "active" => owned[c] # m /\ launchCache[c] # m

\* The finalizer, the failure controller and Kubernetes end free Machines
\* only, and so does the garbage collector when everything is in time.
LEMMA EndsAreFree ==
  ASSUME IInv, NEW m \in Machines,
         \/ \E c \in NodeClaims : claimPhase[c] = "deleting" /\ m \in FoundByID(claimID[c])
         \/ InTime /\ m \in old /\ m \in gcUnresolved
         \/ m \in fcHalf
         \/ OwnerGone(m)
  PROVE  Free(m)
<1> SUFFICES ASSUME NEW c \in NodeClaims, claimPhase[c] = "active"
             PROVE  owned[c] # m /\ launchCache[c] # m
  BY DEF Free
<1>0. (owned[c] = m \/ launchCache[c] = m) => owner[m] = c
  BY ConstantsAssumption DEF IInv, References
<1>1. ASSUME NEW d \in NodeClaims, claimPhase[d] = "deleting", m \in FoundByID(claimID[d])
      PROVE  owned[c] # m /\ launchCache[c] # m
  BY <1>0, <1>1 DEF IInv, IDNamesOwnMachine, FoundByID, Real
<1>2. CASE InTime /\ m \in old /\ m \in gcUnresolved
  BY <1>2 DEF IInv, TimelyInv, Exposed
<1>3. CASE m \in fcHalf
  BY <1>0, <1>3 DEF IInv, FailureTargetsInv, FailureTargetsAreFailed
<1>4. CASE OwnerGone(m)
  BY <1>0, <1>4 DEF OwnerGone
<1> QED
  BY <1>1, <1>2, <1>3, <1>4

LEMMA FreeEndKeepsTimely ==
  ASSUME TypeOK, TimelyInv, NEW m \in Machines, InTime => Free(m),
         mstate' = Terminated(m), gcUnresolved' \subseteq gcUnresolved,
         UNCHANGED <<claimVars, old, launchCache, shown>>
  PROVE  TimelyInv'
<1> SUFFICES ASSUME InTime
             PROVE  TimelyInv'
  BY DEF TimelyInv
<1>1. \A n \in old' : ~Exposed(n)'
  BY DEF TimelyInv, Exposed, claimVars
<1>2. \A c \in NodeClaims : claimPhase'[c] = "active" =>
        \A n \in {owned'[c], launchCache'[c]} \ {NoMachine} : mstate'[n] = "live"
  <2> SUFFICES ASSUME NEW c \in NodeClaims, claimPhase[c] = "active",
                      NEW n \in {owned[c], launchCache[c]} \ {NoMachine}
               PROVE  mstate'[n] = "live"
    BY DEF claimVars
  <2>1. n # m /\ n \in Machines /\ mstate[n] = "live"
    BY DEF Free, TypeOK, TimelyInv
  <2> QED
    BY <2>1 DEF Terminated, TypeOK
<1> QED
  BY <1>1, <1>2 DEF TimelyInv

-----------------------------------------------------------------------------
(* IInv is inductive.                                                      *)

\* A launch makes fresh references; nothing core does condemns a Machine.
LEMMA CoreKeepsIInv ==
  ASSUME IInv, TypeOK', NEW c \in NodeClaims, Core(c)
  PROVE  IInv'
<1> USE ConstantsAssumption
    DEF IInv, TypeOK, claimVars, machineVars, gcVars, fcVars
<1>1. CASE CreateNodeClaim(c)
  <2>1. References'
    BY <1>1 DEF CreateNodeClaim, References, NoID
  <2>2. FailureTargetsInv'
    BY <1>1 DEF CreateNodeClaim, FailureTargetsInv, FailureTargetsAreFailed
  <2>3. FinalizedLeavesNoInstance'
    BY <1>1 DEF CreateNodeClaim, FinalizedLeavesNoInstance
  <2>4. (MachineHistory /\ IDNamesOwnMachine)'
    BY <1>1 DEF CreateNodeClaim, MachineHistory, IDNamesOwnMachine, NoID,
      Real, Placeholder
  <2>5. TimelyInv'
    BY <1>1 DEF CreateNodeClaim, TimelyInv, Exposed, References,
      MachineHistory
  <2> QED
    BY <2>1, <2>2, <2>3, <2>4, <2>5 DEF IInv
<1>2. CASE DeleteNodeClaim(c)
  <2>1. FailureTargetsInv'
    BY <1>2 DEF DeleteNodeClaim, ClaimDeleted, FailureTargetsInv,
      FailureTargetsAreFailed
  <2>2. FinalizedLeavesNoInstance'
    BY <1>2 DEF DeleteNodeClaim, ClaimDeleted, FinalizedLeavesNoInstance
  <2>3. (References /\ MachineHistory /\ IDNamesOwnMachine)'
    BY <1>2 DEF DeleteNodeClaim, ClaimDeleted, References, NoID,
      MachineHistory, IDNamesOwnMachine, Real, Placeholder
  <2>4. TimelyInv'
    BY <1>2 DEF DeleteNodeClaim, ClaimDeleted, TimelyInv, Exposed, References,
      MachineHistory
  <2> QED
    BY <2>1, <2>2, <2>3, <2>4 DEF IInv
<1>3. ASSUME NEW m \in Machines, Launch(c, m)
      PROVE  IInv'
  <2>1. References'
    BY <1>3 DEF Launch, CreateMachine, References, NoID, MachineHistory
  <2>2. MachineHistory'
    BY <1>3 DEF Launch, CreateMachine, MachineHistory
  <2>3. IDNamesOwnMachine'
    BY <1>3 DEF Launch, CreateMachine, IDNamesOwnMachine, NoID, Real,
      Placeholder, MachineHistory
  <2>4. FailureTargetsInv'
    BY <1>3 DEF Launch, CreateMachine, FailureTargetsInv,
      FailureTargetsAreFailed, MachineHistory
  <2>5. FinalizedLeavesNoInstance'
    BY <1>3 DEF Launch, CreateMachine, FinalizedLeavesNoInstance,
      IDNamesOwnMachine, MachineHistory
  <2>6. TimelyInv'
    BY <1>3 DEF Launch, CreateMachine, TimelyInv, Exposed, References,
      MachineHistory
  <2> QED
    BY <2>1, <2>2, <2>3, <2>4, <2>5, <2>6 DEF IInv
<1>4. ASSUME NEW m \in Machines, LaunchFailsLate(c, m)
      PROVE  IInv'
  <2>1. References'
    BY <1>4 DEF LaunchFailsLate, CreateMachine, References, NoID,
      MachineHistory
  <2>2. MachineHistory'
    BY <1>4 DEF LaunchFailsLate, CreateMachine, MachineHistory
  <2>3. IDNamesOwnMachine'
    BY <1>4 DEF LaunchFailsLate, CreateMachine, IDNamesOwnMachine, NoID, Real,
      Placeholder, MachineHistory
  <2>4. FailureTargetsInv'
    BY <1>4 DEF LaunchFailsLate, CreateMachine, FailureTargetsInv,
      FailureTargetsAreFailed, MachineHistory
  <2>5. FinalizedLeavesNoInstance'
    BY <1>4 DEF LaunchFailsLate, CreateMachine, FinalizedLeavesNoInstance,
      IDNamesOwnMachine, MachineHistory
  <2>6. TimelyInv'
    BY <1>4 DEF LaunchFailsLate, CreateMachine, TimelyInv, Exposed,
      References, MachineHistory
  <2> QED
    BY <2>1, <2>2, <2>3, <2>4, <2>5, <2>6 DEF IInv
<1>5. CASE PatchOwnedMachine(c)
  <2>1. References'
    BY <1>5 DEF PatchOwnedMachine, ClaimExists, References, NoID
  <2>2. (/\ MachineHistory
         /\ IDNamesOwnMachine
         /\ FailureTargetsInv
         /\ FinalizedLeavesNoInstance)'
    BY <1>5 DEF PatchOwnedMachine, ClaimExists, MachineHistory,
      IDNamesOwnMachine, NoID, Real, Placeholder, FailureTargetsInv,
      FailureTargetsAreFailed, FinalizedLeavesNoInstance
  <2>3. TimelyInv'
    BY <1>5 DEF PatchOwnedMachine, ClaimExists, TimelyInv, Exposed,
      References, MachineHistory
  <2> QED
    BY <2>1, <2>2, <2>3 DEF IInv
<1>6. CASE PatchLaunched(c)
  <2>1. References'
    BY <1>6 DEF PatchLaunched, ClaimExists, References, NoID
  <2>2. (/\ MachineHistory
         /\ IDNamesOwnMachine
         /\ FailureTargetsInv
         /\ FinalizedLeavesNoInstance)'
    BY <1>6 DEF PatchLaunched, ClaimExists, MachineHistory, IDNamesOwnMachine,
      NoID, Real, Placeholder, FailureTargetsInv, FailureTargetsAreFailed,
      FinalizedLeavesNoInstance
  <2>3. TimelyInv'
    BY <1>6 DEF PatchLaunched, ClaimExists, TimelyInv, Exposed, References,
      MachineHistory
  <2> QED
    BY <2>1, <2>2, <2>3 DEF IInv
<1>7. CASE FinalizerDelete(c)
  <2>1. MachineHistory'
    BY <1>7 DEF FinalizerDelete, FoundByID, Terminated, MachineHistory
  <2>2. FinalizedLeavesNoInstance'
    BY <1>7 DEF FinalizerDelete, FoundByID, Terminated,
      FinalizedLeavesNoInstance, IDNamesOwnMachine, MachineExists
  <2>3. (References /\ IDNamesOwnMachine /\ FailureTargetsInv)'
    BY <1>7 DEF FinalizerDelete, FoundByID, Terminated, References, NoID,
      IDNamesOwnMachine, Real, Placeholder, FailureTargetsInv,
      FailureTargetsAreFailed
  <2>4. TimelyInv'
    <3>1. PICK m \in FoundByID(claimID[c]) : mstate' = Terminated(m)
      BY <1>7 DEF FinalizerDelete
    <3>2. m \in Machines /\ Free(m)
      BY <1>7, <3>1, EndsAreFree DEF FinalizerDelete, FoundByID
    <3> QED
      BY <1>7, <3>1, <3>2, FreeEndKeepsTimely DEF FinalizerDelete
  <2> QED
    BY <2>1, <2>2, <2>3, <2>4 DEF IInv
<1>8. CASE RemoveFinalizer(c)
  <2>1. References'
    BY <1>8 DEF RemoveFinalizer, FoundByID, References, NoID
  <2>2. FailureTargetsInv'
    BY <1>8 DEF RemoveFinalizer, FoundByID, FailureTargetsInv,
      FailureTargetsAreFailed
  <2>3. FinalizedLeavesNoInstance'
    BY <1>8 DEF RemoveFinalizer, FoundByID, FinalizedLeavesNoInstance,
      IDNamesOwnMachine, MachineHistory, MachineExists, Real, ProviderIDs
  <2>4. (MachineHistory /\ IDNamesOwnMachine)'
    BY <1>8 DEF RemoveFinalizer, FoundByID, MachineHistory, IDNamesOwnMachine,
      NoID, Real, Placeholder
  <2>5. TimelyInv'
    BY <1>8 DEF RemoveFinalizer, FoundByID, TimelyInv, Exposed, References,
      MachineHistory
  <2> QED
    BY <2>1, <2>2, <2>3, <2>4, <2>5 DEF IInv
<1> QED
  BY <1>1, <1>2, <1>3, <1>4, <1>5, <1>6, <1>7, <1>8 DEF Core

\* A patched ID was read for the same claim; a claim that is gone keeps its ID.
LEMMA ProviderIDControllersKeepIInv ==
  ASSUME IInv, TypeOK', ProviderIDControllers
  PROVE  IInv'
<1> USE ConstantsAssumption
    DEF IInv, TypeOK, claimVars, machineVars, gcVars, fcVars
<1>1. ASSUME NEW c \in NodeClaims, ReadMachine(c)
      PROVE  IInv'
  <2>1. References'
    BY <1>1 DEF ReadMachine, ClaimExists, MachinesOf, References, NoID
  <2>2. IDNamesOwnMachine'
    BY <1>1 DEF ReadMachine, ClaimExists, MachinesOf, IDNamesOwnMachine, NoID,
      Real, Placeholder, MachineHistory
  <2>3. (/\ MachineHistory
         /\ FailureTargetsInv
         /\ FinalizedLeavesNoInstance)'
    BY <1>1 DEF ReadMachine, ClaimExists, MachinesOf, MachineHistory,
      FailureTargetsInv, FailureTargetsAreFailed, FinalizedLeavesNoInstance
  <2>4. TimelyInv'
    BY <1>1 DEF ReadMachine, ClaimExists, MachinesOf, TimelyInv, Exposed,
      References, MachineHistory
  <2> QED
    BY <2>1, <2>2, <2>3, <2>4 DEF IInv
<1>2. ASSUME NEW c \in NodeClaims, PatchProviderID(c)
      PROVE  IInv'
  <2>1. References'
    BY <1>2 DEF PatchProviderID, ClaimExists, References, NoID
  <2>2. IDNamesOwnMachine'
    BY <1>2 DEF PatchProviderID, ClaimExists, IDNamesOwnMachine, NoID, Real,
      Placeholder
  <2>3. FinalizedLeavesNoInstance'
    BY <1>2 DEF PatchProviderID, ClaimExists, FinalizedLeavesNoInstance
  <2>4. (MachineHistory /\ FailureTargetsInv)'
    BY <1>2 DEF PatchProviderID, ClaimExists, MachineHistory,
      FailureTargetsInv, FailureTargetsAreFailed
  <2>5. TimelyInv'
    BY <1>2 DEF PatchProviderID, ClaimExists, TimelyInv, Exposed, References,
      MachineHistory
  <2> QED
    BY <2>1, <2>2, <2>3, <2>4, <2>5 DEF IInv
<1>3. ASSUME NEW m \in Machines, ReconcileMachine(m)
      PROVE  IInv'
  <2>1. References'
    BY <1>3 DEF ReconcileMachine, ClaimExists, References, NoID
  <2>2. IDNamesOwnMachine'
    BY <1>3 DEF ReconcileMachine, ClaimExists, IDNamesOwnMachine, NoID, Real,
      Placeholder
  <2>3. FinalizedLeavesNoInstance'
    BY <1>3 DEF ReconcileMachine, ClaimExists, FinalizedLeavesNoInstance
  <2>4. (MachineHistory /\ FailureTargetsInv)'
    BY <1>3 DEF ReconcileMachine, ClaimExists, MachineHistory,
      FailureTargetsInv, FailureTargetsAreFailed
  <2>5. TimelyInv'
    BY <1>3 DEF ReconcileMachine, ClaimExists, TimelyInv, Exposed, References,
      MachineHistory
  <2> QED
    BY <2>1, <2>2, <2>3, <2>4, <2>5 DEF IInv
<1> QED
  BY <1>1, <1>2, <1>3 DEF ProviderIDControllers

\* A condemned Machine is old, so its claim would be annotated by now.
LEMMA GarbageCollectionKeepsIInv ==
  ASSUME IInv, TypeOK', GarbageCollection
  PROVE  IInv'
<1> USE ConstantsAssumption
    DEF IInv, TypeOK, claimVars, machineVars, gcVars, fcVars
<1>1. CASE GCList
  <2>1. MachineHistory'
    BY <1>1 DEF GCList, OwnedMachines, MachineExists, MachineHistory
  <2>2. (/\ References
         /\ IDNamesOwnMachine
         /\ FailureTargetsInv
         /\ FinalizedLeavesNoInstance)'
    BY <1>1 DEF GCList, OwnedMachines, MachineExists, References, NoID,
      IDNamesOwnMachine, Real, Placeholder, FailureTargetsInv,
      FailureTargetsAreFailed, FinalizedLeavesNoInstance
  <2>3. TimelyInv'
    BY <1>1 DEF GCList, OwnedMachines, MachineExists, TimelyInv, Exposed,
      References, MachineHistory
  <2> QED
    BY <2>1, <2>2, <2>3 DEF IInv
<1>2. CASE GCListClaims
  <2>1. MachineHistory'
    BY <1>2 DEF GCListClaims, Unresolved, MachineHistory
  <2>2. (/\ References
         /\ IDNamesOwnMachine
         /\ FailureTargetsInv
         /\ FinalizedLeavesNoInstance)'
    BY <1>2 DEF GCListClaims, Unresolved, References, NoID, IDNamesOwnMachine,
      Real, Placeholder, FailureTargetsInv, FailureTargetsAreFailed,
      FinalizedLeavesNoInstance
  <2>3. TimelyInv'
    BY <1>2 DEF GCListClaims, Unresolved, TimelyInv, Exposed, References,
      MachineHistory
  <2> QED
    BY <2>1, <2>2, <2>3 DEF IInv
<1>3. ASSUME NEW m \in Machines, GCDelete(m)
      PROVE  IInv'
  <2>1. MachineHistory'
    BY <1>3 DEF GCDelete, Terminated, MachineHistory
  <2>2. FinalizedLeavesNoInstance'
    BY <1>3 DEF GCDelete, Terminated, FinalizedLeavesNoInstance
  <2>3. (References /\ IDNamesOwnMachine /\ FailureTargetsInv)'
    BY <1>3 DEF GCDelete, Terminated, References, NoID, IDNamesOwnMachine,
      Real, Placeholder, FailureTargetsInv, FailureTargetsAreFailed
  <2>4. TimelyInv'
    <3>1. InTime => Free(m)
      BY <1>3, EndsAreFree DEF GCDelete
    <3> QED
      BY <1>3, <3>1, FreeEndKeepsTimely DEF GCDelete
  <2> QED
    BY <2>1, <2>2, <2>3, <2>4 DEF IInv
<1>4. ASSUME NEW m \in Machines, GCSpare(m) \/ GCDeleteFails(m)
      PROVE  IInv'
  <2>1. (/\ References
         /\ MachineHistory
         /\ IDNamesOwnMachine
         /\ FailureTargetsInv
         /\ FinalizedLeavesNoInstance)'
    BY <1>4 DEF GCSpare, GCDeleteFails, References, NoID, MachineHistory,
      IDNamesOwnMachine, Real, Placeholder, FailureTargetsInv,
      FailureTargetsAreFailed, FinalizedLeavesNoInstance
  <2>2. TimelyInv'
    BY <1>4 DEF GCSpare, GCDeleteFails, TimelyInv, Exposed
  <2> QED
    BY <2>1, <2>2 DEF IInv
<1>5. ASSUME NEW c \in NodeClaims, InformerCatchesUp(c)
      PROVE  IInv'
  <2>1. (/\ References
         /\ MachineHistory
         /\ IDNamesOwnMachine
         /\ FailureTargetsInv
         /\ FinalizedLeavesNoInstance)'
    BY <1>5 DEF InformerCatchesUp, References, NoID, MachineHistory,
      IDNamesOwnMachine, Real, Placeholder, FailureTargetsInv,
      FailureTargetsAreFailed, FinalizedLeavesNoInstance
  <2>2. TimelyInv'
    BY <1>5 DEF InformerCatchesUp, Annotation, ClaimExists, TimelyInv, Exposed
  <2> QED
    BY <2>1, <2>2 DEF IInv
<1> QED
  BY <1>1, <1>2, <1>3, <1>4, <1>5 DEF GarbageCollection, GCPass

\* A claim is deleted before its failed Machine is.
LEMMA FailureKeepsIInv ==
  ASSUME IInv, TypeOK', Failure
  PROVE  IInv'
<1> USE ConstantsAssumption
    DEF IInv, TypeOK, claimVars, machineVars, gcVars, fcVars
<1>1. CASE FCList
  <2>1. FailureTargetsInv'
    BY <1>1 DEF FCList, OwnedMachines, MachineExists, FailureTargetsInv,
      FailureTargetsAreFailed, MachineHistory
  <2>2. (/\ References
         /\ MachineHistory
         /\ IDNamesOwnMachine
         /\ FinalizedLeavesNoInstance)'
    BY <1>1 DEF FCList, OwnedMachines, MachineExists, References, NoID,
      MachineHistory, IDNamesOwnMachine, Real, Placeholder,
      FinalizedLeavesNoInstance
  <2>3. TimelyInv'
    BY <1>1 DEF FCList, OwnedMachines, MachineExists, TimelyInv, Exposed,
      References, MachineHistory
  <2> QED
    BY <2>1, <2>2, <2>3 DEF IInv
<1>2. ASSUME NEW m \in Machines, FCDeleteClaim(m)
      PROVE  IInv'
  <2>1. References'
    BY <1>2 DEF FCDeleteClaim, ClaimExists, ClaimDeleted, References, NoID
  <2>2. FailureTargetsInv'
    BY <1>2 DEF FCDeleteClaim, ClaimExists, ClaimDeleted, FailureTargetsInv,
      FailureTargetsAreFailed
  <2>3. FinalizedLeavesNoInstance'
    BY <1>2 DEF FCDeleteClaim, ClaimExists, ClaimDeleted,
      FinalizedLeavesNoInstance
  <2>4. (MachineHistory /\ IDNamesOwnMachine)'
    BY <1>2 DEF FCDeleteClaim, ClaimExists, ClaimDeleted, MachineHistory,
      IDNamesOwnMachine, NoID, Real, Placeholder
  <2>5. TimelyInv'
    BY <1>2 DEF FCDeleteClaim, ClaimExists, ClaimDeleted, TimelyInv, Exposed,
      References, MachineHistory
  <2> QED
    BY <2>1, <2>2, <2>3, <2>4, <2>5 DEF IInv
<1>3. ASSUME NEW m \in Machines, FCDeleteMachine(m)
      PROVE  IInv'
  <2>1. MachineHistory'
    BY <1>3 DEF FCDeleteMachine, Terminated, MachineHistory
  <2>2. FailureTargetsInv'
    BY <1>3 DEF FCDeleteMachine, Terminated, FailureTargetsInv,
      FailureTargetsAreFailed
  <2>3. FinalizedLeavesNoInstance'
    BY <1>3 DEF FCDeleteMachine, Terminated, FinalizedLeavesNoInstance
  <2>4. (References /\ IDNamesOwnMachine)'
    BY <1>3 DEF FCDeleteMachine, Terminated, References, NoID,
      IDNamesOwnMachine, Real, Placeholder
  <2>5. TimelyInv'
    <3>1. InTime => Free(m)
      BY <1>3, EndsAreFree DEF FCDeleteMachine
    <3> QED
      BY <1>3, <3>1, FreeEndKeepsTimely DEF FCDeleteMachine
  <2> QED
    BY <2>1, <2>2, <2>3, <2>4, <2>5 DEF IInv
<1>4. ASSUME NEW m \in Machines, FCDeleteFails(m)
      PROVE  IInv'
  <2>1. FailureTargetsInv'
    BY <1>4 DEF FCDeleteFails, FailureTargetsInv, FailureTargetsAreFailed
  <2>2. (/\ References
         /\ MachineHistory
         /\ IDNamesOwnMachine
         /\ FinalizedLeavesNoInstance)'
    BY <1>4 DEF FCDeleteFails, References, NoID, MachineHistory,
      IDNamesOwnMachine, Real, Placeholder, FinalizedLeavesNoInstance
  <2>3. TimelyInv'
    BY <1>4 DEF FCDeleteFails, TimelyInv, Exposed, References, MachineHistory
  <2> QED
    BY <2>1, <2>2, <2>3 DEF IInv
<1> QED
  BY <1>1, <1>2, <1>3, <1>4 DEF Failure, FCPass

\* A Machine turns old only when nobody can take it for abandoned.
LEMMA EnvironmentKeepsIInv ==
  ASSUME IInv, TypeOK', Environment
  PROVE  IInv'
<1> USE ConstantsAssumption
    DEF IInv, TypeOK, claimVars, machineVars, gcVars, fcVars
<1>1. ASSUME NEW m \in Machines, Provision(m)
      PROVE  IInv'
  <2>1. MachineHistory'
    BY <1>1 DEF Provision, MachineHistory
  <2>2. IDNamesOwnMachine'
    BY <1>1 DEF Provision, IDNamesOwnMachine, NoID, Real, Placeholder
  <2>3. FailureTargetsInv'
    BY <1>1 DEF Provision, FailureTargetsInv, FailureTargetsAreFailed
  <2>4. (References /\ FinalizedLeavesNoInstance)'
    BY <1>1 DEF Provision, References, NoID, FinalizedLeavesNoInstance
  <2>5. TimelyInv'
    BY <1>1 DEF Provision, TimelyInv, Exposed, References, MachineHistory
  <2> QED
    BY <2>1, <2>2, <2>3, <2>4, <2>5 DEF IInv
<1>2. ASSUME NEW m \in Machines, Fail(m)
      PROVE  IInv'
  <2>1. MachineHistory'
    BY <1>2 DEF Fail, MachineHistory
  <2>2. FailureTargetsInv'
    BY <1>2 DEF Fail, FailureTargetsInv, FailureTargetsAreFailed
  <2>3. (/\ References
         /\ IDNamesOwnMachine
         /\ FinalizedLeavesNoInstance)'
    BY <1>2 DEF Fail, References, NoID, IDNamesOwnMachine, Real, Placeholder,
      FinalizedLeavesNoInstance
  <2>4. TimelyInv'
    BY <1>2 DEF Fail, TimelyInv, Exposed, References, MachineHistory
  <2> QED
    BY <2>1, <2>2, <2>3, <2>4 DEF IInv
<1>3. ASSUME NEW m \in Machines, Release(m)
      PROVE  IInv'
  <2>1. MachineHistory'
    BY <1>3 DEF Release, MachineHistory
  <2>2. FinalizedLeavesNoInstance'
    BY <1>3 DEF Release, FinalizedLeavesNoInstance
  <2>3. (References /\ IDNamesOwnMachine /\ FailureTargetsInv)'
    BY <1>3 DEF Release, References, NoID, IDNamesOwnMachine, Real,
      Placeholder, FailureTargetsInv, FailureTargetsAreFailed
  <2>4. TimelyInv'
    BY <1>3 DEF Release, TimelyInv, Exposed, References, MachineHistory
  <2> QED
    BY <2>1, <2>2, <2>3, <2>4 DEF IInv
<1>4. ASSUME NEW m \in Machines, CollectDangling(m)
      PROVE  IInv'
  <2>1. MachineHistory'
    BY <1>4 DEF CollectDangling, Terminated, MachineHistory
  <2>2. FinalizedLeavesNoInstance'
    BY <1>4 DEF CollectDangling, Terminated, FinalizedLeavesNoInstance
  <2>3. (References /\ IDNamesOwnMachine /\ FailureTargetsInv)'
    BY <1>4 DEF CollectDangling, Terminated, References, NoID,
      IDNamesOwnMachine, Real, Placeholder, FailureTargetsInv,
      FailureTargetsAreFailed
  <2>4. TimelyInv'
    <3>1. InTime => Free(m)
      BY <1>4, EndsAreFree DEF CollectDangling
    <3> QED
      BY <1>4, <3>1, FreeEndKeepsTimely DEF CollectDangling
  <2> QED
    BY <2>1, <2>2, <2>3, <2>4 DEF IInv
<1>5. ASSUME NEW m \in Machines, Age(m)
      PROVE  IInv'
  <2>1. MachineHistory'
    BY <1>5 DEF Age, MachineExists, MachineHistory
  <2>2. (/\ References
         /\ IDNamesOwnMachine
         /\ FailureTargetsInv
         /\ FinalizedLeavesNoInstance)'
    BY <1>5 DEF Age, MachineExists, References, NoID, IDNamesOwnMachine, Real,
      Placeholder, FailureTargetsInv, FailureTargetsAreFailed,
      FinalizedLeavesNoInstance
  <2>3. TimelyInv'
    BY <1>5 DEF Age, MachineExists, TimelyInv, Exposed, References,
      MachineHistory
  <2> QED
    BY <2>1, <2>2, <2>3 DEF IInv
<1>6. ASSUME NEW m \in Machines, Corrupt(m)
      PROVE  IInv'
  BY <1>6 DEF Corrupt, References, NoID, MachineHistory, IDNamesOwnMachine,
     Real, Placeholder, TimelyInv, Exposed, FailureTargetsInv, FailureTargetsAreFailed,
     FinalizedLeavesNoInstance
<1>7. CASE Crash
  <2>1. References'
    BY <1>7 DEF Crash, References, NoID
  <2>2. MachineHistory'
    BY <1>7 DEF Crash, MachineHistory
  <2>3. IDNamesOwnMachine'
    BY <1>7 DEF Crash, IDNamesOwnMachine, NoID, Real, Placeholder
  <2>4. FailureTargetsInv'
    BY <1>7 DEF Crash, FailureTargetsInv, FailureTargetsAreFailed
  <2>5. FinalizedLeavesNoInstance'
    BY <1>7 DEF Crash, FinalizedLeavesNoInstance
  <2>6. TimelyInv'
    BY <1>7 DEF Crash, Annotation, ClaimExists, TimelyInv, Exposed, References, MachineHistory
  <2> QED
    BY <2>1, <2>2, <2>3, <2>4, <2>5, <2>6 DEF IInv
<1> QED
  BY <1>1, <1>2, <1>3, <1>4, <1>5, <1>6, <1>7 DEF Environment

THEOREM Invariance == Spec => []IInv
<1>1. Init => IInv
  BY ConstantsAssumption
  DEF Init, IInv, TypeOK, References, MachineHistory, IDNamesOwnMachine,
      TimelyInv, Exposed, FailureTargetsInv, FailureTargetsAreFailed, FinalizedLeavesNoInstance,
      NoID, ProviderIDs
<1>2. IInv /\ TypeOK' /\ [Next]_vars => IInv'
  <2> SUFFICES ASSUME IInv, TypeOK', [Next]_vars
               PROVE  IInv'
    OBVIOUS
  <2>1. CASE Next
    BY <2>1, CoreKeepsIInv, ProviderIDControllersKeepIInv,
       GarbageCollectionKeepsIInv, FailureKeepsIInv, EnvironmentKeepsIInv
    DEF Next
  <2>2. CASE UNCHANGED vars
    BY <2>2
    DEF IInv, TypeOK, References, MachineHistory, IDNamesOwnMachine,
        TimelyInv, Exposed, FailureTargetsInv, FailureTargetsAreFailed,
        FinalizedLeavesNoInstance, vars, claimVars, machineVars, gcVars, fcVars
  <2> QED
    BY <2>1, <2>2
<1> QED
  BY <1>1, <1>2, TypeCorrect, PTL DEF Spec

-----------------------------------------------------------------------------
(* What follows from the invariant.                                        *)

\* The provider ID controllers never give a claim the instance of another one,
\* however late they patch.
THEOREM IDsNameOwnMachines == Spec => []IDNamesOwnMachine
BY Invariance, PTL DEF IInv

\* If 30 seconds cover core's patch, the lag of the cache and a pass of the
\* garbage collector that looked before, the Machine of every active claim that
\* is annotated with one is alive.
THEOREM TimelyClaimsKeepTheirMachines == Spec => []TimelyClaimKeepsMachine
<1>1. IInv => TimelyClaimKeepsMachine
  BY DEF IInv, TimelyInv, TimelyClaimKeepsMachine
<1> QED
  BY <1>1, Invariance, PTL

\* A finalized claim that knew its instance does not leave it running.
THEOREM NoInstanceLeftBehind == Spec => []FinalizedLeavesNoInstance
BY Invariance, PTL DEF IInv

\* The failure controller works on failed Machines only and ends their claims
\* first.
THEOREM FailureControllerTargets == Spec => []FailureTargetsAreFailed
BY Invariance, PTL DEF IInv, FailureTargetsInv

-----------------------------------------------------------------------------
(* MachineLifecycle implements NodeClaimContract, in time or not.          *)

\* Terminating a free Machine is an End of the contract or changes nothing.
LEMMA TerminatedIsEnd ==
  ASSUME NEW m \in Machines, Free(m), mstate' = Terminated(m),
         UNCHANGED <<claimVars, owner, shown, gcUnresolved>>
  PROVE  [Contract!Next]_(Contract!vars)
<1>1. Reported' = Reported
  BY DEF Reported, claimVars
<1>2. CASE mstate[m] = "live"
  <2>1. Contract!End(m)
    BY <1>1, <1>2 DEF Contract!End, Contract!HeldBy, Terminated, Free, claimVars
  <2> QED
    BY <2>1 DEF Contract!Next
<1>3. CASE mstate[m] # "live"
  BY <1>1, <1>3 DEF Terminated, claimVars, Contract!vars
<1> QED
  BY <1>2, <1>3

-----------------------------------------------------------------------------
(* Step simulation.                                                        *)

LEMMA CoreImplementsContract ==
  ASSUME IInv, NEW c \in NodeClaims, Core(c)
  PROVE  [Contract!Next]_(Contract!vars)
<1> USE ConstantsAssumption DEF claimVars, machineVars, gcVars, fcVars
<1>0. TypeOK /\ References
  BY DEF IInv
<1>1. CASE CreateNodeClaim(c)
  BY <1>1 DEF CreateNodeClaim, Contract!Next, Contract!Open, Reported
<1>2. CASE DeleteNodeClaim(c)
  BY <1>2 DEF DeleteNodeClaim, ClaimDeleted, Contract!Next, Contract!Close, Reported
<1>3. ASSUME NEW m \in Machines, Launch(c, m) \/ LaunchFailsLate(c, m)
      PROVE  [Contract!Next]_(Contract!vars)
  <2>1. Contract!Make(c, m)
    BY <1>3 DEF Launch, LaunchFailsLate, CreateMachine, Contract!Make, Reported
  <2> QED
    BY <2>1 DEF Contract!Next
<1>4. CASE PatchOwnedMachine(c)
  <2>1. launchCache[c] \in Machines /\ owner[launchCache[c]] = c
    BY <1>0, <1>4 DEF PatchOwnedMachine, TypeOK, References
  <2>2. Contract!Hold(c, launchCache[c])
    BY <1>4, <2>1 DEF PatchOwnedMachine, ClaimExists, Contract!Hold, Contract!Lasts,
       Reported
  <2> QED
    BY <2>1, <2>2 DEF Contract!Next
<1>5. CASE PatchLaunched(c)
  BY <1>5 DEF PatchLaunched, Contract!vars, Reported
<1>6. CASE FinalizerDelete(c)
  <2>1. PICK m \in FoundByID(claimID[c]) : mstate' = Terminated(m)
    BY <1>6 DEF FinalizerDelete
  <2>2. m \in Machines /\ Free(m)
    BY <1>0, <1>6, <2>1, EndsAreFree DEF FinalizerDelete, FoundByID, TypeOK
  <2> QED
    BY <1>6, <2>1, <2>2, TerminatedIsEnd DEF FinalizerDelete
<1>7. CASE RemoveFinalizer(c)
  <2>1. Reported' = Reported
    BY <1>7 DEF RemoveFinalizer, Reported
  <2>2. Reported[c] # NoMachine => mstate[Reported[c]] = "gone"
    <3>1. claimPhase'[c] = "gone" /\ mstate' = mstate /\ claimID' = claimID
      BY <1>0, <1>7 DEF RemoveFinalizer, TypeOK
    <3>2. FinalizedLeavesNoInstance'
      BY <1>7, CoreKeepsIInv, CoreKeepsTypes, <1>0 DEF IInv, Core
    <3> QED
      BY <3>1, <3>2 DEF FinalizedLeavesNoInstance, Reported
  <2>3. Contract!Finish(c)
    BY <1>7, <2>1, <2>2 DEF RemoveFinalizer, Contract!Finish
  <2> QED
    BY <2>3 DEF Contract!Next
<1> QED
  BY <1>1, <1>2, <1>3, <1>4, <1>5, <1>6, <1>7 DEF Core

\* A status patch reports a Machine of the claim, or takes a report back.
LEMMA IDPatchIsReport ==
  ASSUME TypeOK, IDNamesOwnMachine, NEW c \in NodeClaims, NEW id \in ProviderIDs,
         ClaimExists(c), claimID' = [claimID EXCEPT ![c] = id],
         id.kind = "real" => id.machine \in Machines /\ owner[id.machine] = c,
         UNCHANGED <<claimPhase, owned, mstate, owner, shown, gcUnresolved>>
  PROVE  Contract!Report(c)
<1> DEFINE r == IF id.kind = "real" THEN id.machine ELSE NoMachine
<1>1. Reported' = [Reported EXCEPT ![c] = r]
  BY DEF Reported, TypeOK
<1>2. r \in {n \in Machines : owner[n] = c} \cup {NoMachine}
  OBVIOUS
<1> QED
  BY <1>1, <1>2 DEF Contract!Report, Contract!Lasts, ClaimExists

\* What its cache shows the garbage collector, and what it forgets or finds
\* abandoned, is judged.
LEMMA LookingIsJudging ==
  ASSUME NEW S \in SUBSET Machines, gcUnresolved' = S,
         \A m \in S \ gcUnresolved : \A c \in NodeClaims : shown[c] # m,
         shown' \in [NodeClaims -> Machines \cup {NoMachine}],
         \A c \in NodeClaims : shown'[c] \in {shown[c], Annotation(c)},
         UNCHANGED <<claimVars, mstate, owner>>
  PROVE  [Contract!Next]_(Contract!vars)
<1>1. Reported' = Reported
  BY DEF Reported, claimVars
<1>2. Contract!Judge
  BY <1>1 DEF Contract!Judge, Contract!Lasts, Annotation, ClaimExists, claimVars
<1> QED
  BY <1>2 DEF Contract!Next

\* The garbage collector lists, then deletes, spares or fails to delete.
LEMMA CollectionImplementsContract ==
  ASSUME TypeOK, GarbageCollection
  PROVE  [Contract!Next]_(Contract!vars)
<1> USE DEF machineVars
<1>1. CASE GCList
  BY <1>1 DEF GCList, Contract!vars, Reported, claimVars
<1>2. CASE GCListClaims
  <2>1. \A m \in gcUnresolved' : \A c \in NodeClaims : shown[c] # m
    BY <1>2 DEF GCListClaims, Unresolved
  <2>2. gcUnresolved' \in SUBSET Machines
    BY <1>2 DEF GCListClaims, TypeOK
  <2> QED
    BY <1>2, <2>1, <2>2, LookingIsJudging DEF GCListClaims, TypeOK
<1>3. ASSUME NEW m \in Machines, GCDelete(m), mstate[m] = "live"
      PROVE  [Contract!Next]_(Contract!vars)
  <2>1. Contract!Collect(m)
    BY <1>3 DEF GCDelete, Terminated, Contract!Collect, Reported, claimVars
  <2> QED
    BY <2>1 DEF Contract!Next
<1>4. ASSUME NEW m \in Machines, gcUnresolved' = gcUnresolved \ {m},
             UNCHANGED <<claimVars, mstate, owner, shown>>
      PROVE  [Contract!Next]_(Contract!vars)
  <2>1. gcUnresolved \ {m} \in SUBSET Machines
    BY DEF TypeOK
  <2> QED
    BY <1>4, <2>1, LookingIsJudging DEF TypeOK
<1>5. ASSUME NEW m \in Machines,
             (GCDelete(m) /\ mstate[m] # "live") \/ GCSpare(m) \/ GCDeleteFails(m)
      PROVE  [Contract!Next]_(Contract!vars)
  BY <1>4, <1>5 DEF GCDelete, GCSpare, GCDeleteFails, Terminated
<1>6. ASSUME NEW c \in NodeClaims, InformerCatchesUp(c)
      PROVE  [Contract!Next]_(Contract!vars)
  <2>1. shown' \in [NodeClaims -> Machines \cup {NoMachine}]
    BY <1>6 DEF InformerCatchesUp, Annotation, TypeOK
  <2>2. \A d \in NodeClaims : shown'[d] \in {shown[d], Annotation(d)}
    BY <1>6 DEF InformerCatchesUp, TypeOK
  <2> QED
    BY <1>6, <2>1, <2>2, LookingIsJudging DEF InformerCatchesUp, TypeOK
<1> QED
  BY <1>1, <1>2, <1>3, <1>5, <1>6 DEF GarbageCollection, GCPass

LEMMA OthersImplementContract ==
  ASSUME IInv, ProviderIDControllers \/ GarbageCollection \/ Failure \/ Environment
  PROVE  [Contract!Next]_(Contract!vars)
<1> USE DEF claimVars, machineVars, gcVars, fcVars
<1>0. TypeOK /\ IDNamesOwnMachine
  BY DEF IInv
<1>1. ASSUME NEW c \in NodeClaims, ReadMachine(c)
      PROVE  [Contract!Next]_(Contract!vars)
  BY <1>1 DEF ReadMachine, Contract!vars, Reported
<1>2. ASSUME NEW c \in NodeClaims, PatchProviderID(c)
      PROVE  [Contract!Next]_(Contract!vars)
  <2>1. CASE ClaimExists(c)
    <3>1. Contract!Report(c)
      BY <1>0, <1>2, <2>1, IDPatchIsReport
      DEF PatchProviderID, TypeOK, IDNamesOwnMachine
    <3> QED
      BY <3>1 DEF Contract!Next
  <2>2. CASE ~ClaimExists(c)
    BY <1>2, <2>2 DEF PatchProviderID, Contract!vars, Reported
  <2> QED
    BY <2>1, <2>2
<1>3. ASSUME NEW m \in Machines, ReconcileMachine(m)
      PROVE  [Contract!Next]_(Contract!vars)
  <2>1. owner[m] \in NodeClaims /\ Real(m) \in ProviderIDs
    BY <1>3 DEF ReconcileMachine, ClaimExists, Real, ProviderIDs
  <2>2. Contract!Report(owner[m])
    BY <1>0, <1>3, <2>1, IDPatchIsReport DEF ReconcileMachine, Real
  <2> QED
    BY <2>1, <2>2 DEF Contract!Next
<1>4. ASSUME NEW m \in Machines, FCDeleteMachine(m) \/ CollectDangling(m)
      PROVE  [Contract!Next]_(Contract!vars)
  <2>1. Free(m)
    BY <1>4, EndsAreFree DEF FCDeleteMachine, CollectDangling
  <2> QED
    BY <1>4, <2>1, TerminatedIsEnd DEF FCDeleteMachine, CollectDangling
<1>5. CASE FCList
  BY <1>5 DEF FCList, Contract!vars, Reported
<1>6. ASSUME NEW m \in Machines,
             \/ FCDeleteFails(m) \/ Provision(m) \/ Fail(m)
             \/ Age(m) \/ Corrupt(m)
      PROVE  [Contract!Next]_(Contract!vars)
  BY <1>6 DEF FCDeleteFails, Provision, Fail, Age, Corrupt, Contract!vars, Reported
<1>7. ASSUME NEW m \in Machines, FCDeleteClaim(m)
      PROVE  [Contract!Next]_(Contract!vars)
  <2>0. UNCHANGED <<owned, mstate, owner, shown, gcUnresolved>> /\ Reported' = Reported
    BY <1>7 DEF FCDeleteClaim, Reported
  <2>1. CASE ClaimExists(owner[m]) /\ claimPhase[owner[m]] = "active"
    <3>1. Contract!Close(owner[m])
      BY <1>7, <2>0, <2>1 DEF FCDeleteClaim, ClaimDeleted, Contract!Close
    <3> QED
      BY <2>1, <3>1 DEF Contract!Next, ClaimExists
  <2>2. CASE ~(ClaimExists(owner[m]) /\ claimPhase[owner[m]] = "active")
    <3>1. claimPhase' = claimPhase
      BY <1>0, <1>7, <2>2 DEF FCDeleteClaim, ClaimDeleted, ClaimExists, TypeOK
    <3> QED
      BY <2>0, <3>1 DEF Contract!vars
  <2> QED
    BY <2>1, <2>2
<1>8. ASSUME NEW m \in Machines, Release(m)
      PROVE  [Contract!Next]_(Contract!vars)
  <2>1. Contract!Vanish(m)
    BY <1>8 DEF Release, Contract!Vanish, Reported
  <2> QED
    BY <2>1 DEF Contract!Next
<1>9. CASE Crash
  <2>1. shown' \in [NodeClaims -> Machines \cup {NoMachine}]
    BY <1>0, <1>9 DEF Crash, Annotation, TypeOK
  <2>2. \A c \in NodeClaims : shown'[c] \in {shown[c], Annotation(c)}
    BY <1>9 DEF Crash
  <2> QED
    BY <1>9, <2>1, <2>2, LookingIsJudging DEF Crash
<1>10. CASE GarbageCollection
  BY <1>0, <1>10, CollectionImplementsContract
<1> QED
  BY <1>1, <1>2, <1>3, <1>4, <1>5, <1>6, <1>7, <1>8, <1>9, <1>10
  DEF ProviderIDControllers, Failure, FCPass, Environment

\* The controllers, core, the actuator and Kubernetes together keep the
\* contract of NodeClaimContract, whatever the 30 seconds cover.
THEOREM LifecycleImplementsContract == Spec => ImplementsContract
<1>1. Init => Contract!Init
  BY DEF Init, Contract!Init, Reported, NoID
<1>2. IInv /\ [Next]_vars => [Contract!Next]_(Contract!vars)
  <2> SUFFICES ASSUME IInv, [Next]_vars
               PROVE  [Contract!Next]_(Contract!vars)
    OBVIOUS
  <2>1. CASE Next
    BY <2>1, CoreImplementsContract, OthersImplementContract DEF Next
  <2>2. CASE UNCHANGED vars
    BY <2>2 DEF Contract!vars, Reported, vars, claimVars, machineVars, gcVars
  <2> QED
    BY <2>1, <2>2
<1> QED
  BY <1>1, <1>2, Invariance, PTL DEF Spec, ImplementsContract, Contract!Spec

-----------------------------------------------------------------------------
(* What the contract is worth: its conclusions hold of every system that   *)
(* implements it.                                                          *)

\* Claims share no Machine, and finished claims leave no instance.
Promises ==
  /\ Contract!TypeOK
  /\ Contract!OwnMachines
  /\ Contract!FinishedIsGone

\* A claim that does not exist yet holds and reports nothing; a Machine that
\* does not was made for nobody.
NothingBefore ==
  /\ \A c \in NodeClaims :
       claimPhase[c] = "absent" => owned[c] = NoMachine /\ Reported[c] = NoMachine
  /\ \A m \in Machines : mstate[m] = "absent" => owner[m] = NoClaim

\* A claim is opened, closed or finished.
LEMMA ClaimStepKeepsPromises ==
  ASSUME Promises, NothingBefore, NEW c \in NodeClaims,
         Contract!Open(c) \/ Contract!Close(c) \/ Contract!Finish(c)
  PROVE  Promises' /\ NothingBefore'
<1> USE DEF Promises, Contract!TypeOK
<1>1. Contract!TypeOK'
  BY DEF Contract!Open, Contract!Close, Contract!Finish
<1>2. Contract!OwnMachines' /\ NothingBefore'
  BY DEF Contract!Open, Contract!Close, Contract!Finish, Contract!OwnMachines,
     NothingBefore
<1>3. Contract!FinishedIsGone'
  BY DEF Contract!Open, Contract!Close, Contract!Finish, Contract!FinishedIsGone
<1> QED
  BY <1>1, <1>2, <1>3

\* A claim gets a Machine, its annotation or its report.
LEMMA LaunchStepKeepsPromises ==
  ASSUME Promises, NothingBefore, NEW c \in NodeClaims,
         \/ Contract!Report(c)
         \/ \E m \in Machines : Contract!Make(c, m) \/ Contract!Hold(c, m)
  PROVE  Promises' /\ NothingBefore'
<1> USE ConstantsAssumption DEF Promises, Contract!TypeOK
<1>1. CASE Contract!Report(c)
  BY <1>1 DEF Contract!Report, Contract!Lasts, Contract!OwnMachines,
     Contract!FinishedIsGone, NothingBefore
<1>2. ASSUME NEW m \in Machines, Contract!Make(c, m)
      PROVE  Promises' /\ NothingBefore'
  <2>1. Contract!TypeOK' /\ NothingBefore'
    BY <1>2 DEF Contract!Make, NothingBefore
  <2>2. \A d \in NodeClaims : owned[d] # m /\ Reported[d] # m
    BY <1>2 DEF Contract!Make, Contract!OwnMachines, NothingBefore
  <2>3. (Contract!OwnMachines /\ Contract!FinishedIsGone)'
    BY <1>2, <2>2 DEF Contract!Make, Contract!OwnMachines, Contract!FinishedIsGone
  <2> QED
    BY <2>1, <2>3
<1>3. ASSUME NEW m \in Machines, Contract!Hold(c, m)
      PROVE  Promises' /\ NothingBefore'
  BY <1>3 DEF Contract!Hold, Contract!Lasts, Contract!OwnMachines,
     Contract!FinishedIsGone, NothingBefore
<1> QED
  BY <1>1, <1>2, <1>3

\* A Machine is condemned, ended or gone.
LEMMA MachineStepKeepsPromises ==
  ASSUME Promises, NothingBefore,
         \/ Contract!Judge
         \/ \E m \in Machines : Contract!End(m) \/ Contract!Collect(m) \/ Contract!Vanish(m)
  PROVE  Promises' /\ NothingBefore'
<1> USE ConstantsAssumption DEF Promises, Contract!TypeOK
<1>1. CASE Contract!Judge
  BY <1>1 DEF Contract!Judge, Contract!OwnMachines, Contract!FinishedIsGone,
     NothingBefore
<1>2. ASSUME NEW m \in Machines, Contract!End(m) \/ Contract!Collect(m) \/ Contract!Vanish(m)
      PROVE  Promises' /\ NothingBefore'
  <2>1. Contract!TypeOK'
    BY <1>2 DEF Contract!End, Contract!Collect, Contract!Vanish
  <2>2. Contract!OwnMachines' /\ NothingBefore'
    BY <1>2 DEF Contract!End, Contract!Collect, Contract!Vanish, Contract!OwnMachines,
       NothingBefore
  <2>3. Contract!FinishedIsGone'
    BY <1>2 DEF Contract!End, Contract!Collect, Contract!Vanish, Contract!FinishedIsGone
  <2> QED
    BY <2>1, <2>2, <2>3
<1> QED
  BY <1>1, <1>2

\* What a claim is known to hold and has uncondemned is kept by a step.
Kept ==
  \A c \in NodeClaims :
    /\ claimPhase[c] = "active" /\ owned[c] # NoMachine /\ shown[c] = owned[c]
    /\ mstate[owned[c]] = "live" /\ owned[c] \notin gcUnresolved
    => mstate'[owned[c]] = "live"
       /\ (claimPhase'[c] = "active" /\ owned'[c] = owned[c]
             => shown'[c] = owned[c] /\ owned[c] \notin gcUnresolved')

\* A step of the contract ends no such Machine, and condemns none.
LEMMA StepKeepsHeld ==
  ASSUME Promises, Contract!Next
  PROVE  Kept
<1> SUFFICES ASSUME NEW c \in NodeClaims,
                    claimPhase[c] = "active", owned[c] # NoMachine,
                    shown[c] = owned[c], mstate[owned[c]] = "live",
                    owned[c] \notin gcUnresolved
             PROVE  /\ mstate'[owned[c]] = "live"
                    /\ claimPhase'[c] = "active" /\ owned'[c] = owned[c]
                         => shown'[c] = owned[c] /\ owned[c] \notin gcUnresolved'
  BY DEF Kept
<1> USE DEF Promises, Contract!TypeOK, Contract!OwnMachines
<1>1. ASSUME NEW d \in NodeClaims,
             \/ Contract!Open(d) \/ Contract!Close(d) \/ Contract!Finish(d)
             \/ Contract!Report(d)
             \/ \E m \in Machines : Contract!Make(d, m) \/ Contract!Hold(d, m)
      PROVE  mstate'[owned[c]] = "live" /\ UNCHANGED <<shown, gcUnresolved>>
  BY <1>1 DEF Contract!Open, Contract!Close, Contract!Finish, Contract!Report,
     Contract!Make, Contract!Hold
<1>2. ASSUME NEW m \in Machines,
             Contract!End(m) \/ Contract!Collect(m) \/ Contract!Vanish(m)
      PROVE  /\ mstate'[owned[c]] = "live" /\ shown' = shown
             /\ gcUnresolved' \subseteq gcUnresolved
  BY <1>2 DEF Contract!End, Contract!Collect, Contract!Vanish, Contract!HeldBy
<1>3. CASE Contract!Judge
  BY <1>3 DEF Contract!Judge, Contract!Lasts
<1> QED
  BY <1>1, <1>2, <1>3 DEF Contract!Next

\* Whatever implements the contract keeps the promises, and takes no Machine
\* from an active claim that is known to hold it, unless it was condemned before.
THEOREM ContractIsKept ==
  ImplementsContract => []Promises /\ Contract!HeldIsKept
<1>1. Contract!Init => Promises /\ NothingBefore
  BY DEF Contract!Init, Promises, Contract!TypeOK, Contract!OwnMachines,
     Contract!FinishedIsGone, NothingBefore
<1>2. Promises /\ NothingBefore /\ [Contract!Next]_(Contract!vars)
        => Promises' /\ NothingBefore'
  <2> SUFFICES ASSUME Promises, NothingBefore, [Contract!Next]_(Contract!vars)
               PROVE  Promises' /\ NothingBefore'
    OBVIOUS
  <2>1. CASE Contract!Next
    BY <2>1, ClaimStepKeepsPromises, LaunchStepKeepsPromises,
       MachineStepKeepsPromises DEF Contract!Next
  <2>2. CASE UNCHANGED Contract!vars
    BY <2>2 DEF Contract!vars, Promises, Contract!TypeOK, Contract!OwnMachines,
       Contract!FinishedIsGone, NothingBefore
  <2> QED
    BY <2>1, <2>2
<1>3. Promises /\ [Contract!Next]_(Contract!vars) => [Kept]_(Contract!vars)
  BY StepKeepsHeld
<1>4. []Promises /\ [][Contract!Next]_(Contract!vars) => [][Kept]_(Contract!vars)
  BY <1>3, PTL
<1>5. [][Kept]_(Contract!vars) => Contract!HeldIsKept
  BY DEF Kept, Contract!HeldIsKept
<1> QED
  BY <1>1, <1>2, <1>4, <1>5, PTL DEF ImplementsContract, Contract!Spec

\* What core may rely on, from the controllers: claims share no Machine, a
\* finished claim leaves no instance it reported, and the Machine of an active
\* claim is ended only by a pass of the garbage collector that listed the
\* claims before its cache showed core's patch.
THEOREM CoreMayRelyOn == Spec => []Promises /\ Contract!HeldIsKept
BY LifecycleImplementsContract, ContractIsKept

\* From the moment the cache shows the annotation, and no pass that looked
\* before is left, no step of any actor starts to delete the Machine of an
\* active claim.
THEOREM ActiveClaimsKeepTheirMachines == Spec => ActiveClaimKeepsMachine
<1>1. Promises /\ [Contract!Next]_(Contract!vars) => Kept
  <2>1. UNCHANGED Contract!vars => Kept
    BY DEF Contract!vars, Kept
  <2> QED
    BY <2>1, StepKeepsHeld
<1>2. []Promises /\ [][Contract!Next]_(Contract!vars) => [][Kept]_vars
  BY <1>1, PTL
<1>3. [][Kept]_vars => ActiveClaimKeepsMachine
  BY DEF Kept, ActiveClaimKeepsMachine
<1>4. Spec => []Promises
  BY CoreMayRelyOn, PTL
<1>5. Spec => [][Contract!Next]_(Contract!vars)
  BY LifecycleImplementsContract, PTL DEF ImplementsContract, Contract!Spec
<1> QED
  BY <1>2, <1>3, <1>4, <1>5, PTL
=============================================================================
