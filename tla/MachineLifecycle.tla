-------------------------- MODULE MachineLifecycle --------------------------
(***************************************************************************)
(* The life of a NodeClaim and of the Machines created for it, as the      *)
(* controllers of this provider and the actors around it drive it:         *)
(*                                                                         *)
(*   - karpenter core (external): launches, patches and finalizes claims   *)
(*     through CloudProvider.Create and CloudProvider.Delete;              *)
(*   - ControllerNodeClaim and ControllerMachine: copy the provider ID of  *)
(*     a Machine into the status of its NodeClaim;                         *)
(*   - the garbage collector: deletes Machines no NodeClaim claims;        *)
(*   - the failure controller: deletes failed Machines and their claims;   *)
(*   - the TKE machine actuator and the Kubernetes garbage collector       *)
(*     (external).                                                         *)
(*                                                                         *)
(* They share the API server only.  A reconcile that reads and writes is   *)
(* split at its calls, so that every other actor may run in between; what  *)
(* it read is kept in a variable of that controller.  Reads go through the *)
(* informer cache, which may lag.  For the first read of a reconcile that  *)
(* is as good as an earlier read; the garbage collector, which lists the   *)
(* NodeClaims after the Machines, reads a copy of them kept in "shown".    *)
(*                                                                         *)
(* Simplifications.  Names are never reused: a claim or a Machine that is  *)
(* gone stays gone.  Time is one bit per Machine, "older than 30 seconds". *)
(* Which failures are insufficient capacity, and what is blocked for them, *)
(* does not change what is deleted here and is left out.  Every Machine    *)
(* carries the managed-by annotation that Create sets.                     *)
(*                                                                         *)
(* Definitions named Faulty... are mistakes the code does not make; each   *)
(* is refuted by the property that guards against it.                      *)
(***************************************************************************)
EXTENDS Naturals

CONSTANTS
  NodeClaims,   \* names of NodeClaims
  Machines,     \* names of Machines
  NoMachine,    \* "no Machine": an absent annotation, an empty cache entry
  NoClaim,      \* the owner of a Machine that was not created yet
  InTime,       \* within 30 seconds of a launch, has core patched the claim,
                \*   has the cache shown it, and has a pass that looked before
                \*   ended, unless the process stops in between?
  LabelSticks,  \* does a patch of the status subresource store labels?
  Corruptible,  \* Machines that an edit may leave undecodable
  MaxFaults     \* bound on crashes, lost replies, failed deletions and
                \*   bad edits

ASSUME ConstantsAssumption ==
  /\ NoMachine \notin Machines
  /\ NoClaim \notin NodeClaims
  /\ InTime \in BOOLEAN
  /\ LabelSticks \in BOOLEAN
  /\ Corruptible \subseteq Machines
  /\ MaxFaults \in Nat

VARIABLES
  \* The API server: NodeClaims
  claimPhase,   \* "absent", "active", "deleting" (finalizer held) or "gone"
  claimID,      \* status.providerID
  owned,        \* annotation owned-machine
  launched,     \* NodeClaims whose status condition Launched is true
  \* The API server: Machines
  mstate,       \* "absent", "live", "terminating" (finalizer held) or "gone"
  owner,        \* the NodeClaim of the owner reference and of the label
  identified,   \* Machines with a spec.providerID
  failed,       \* Machines with a failure message and no provider ID
  old,          \* Machines created more than 30 seconds ago
  labelled,     \* Machines with the label provider-id-initialized
  corrupt,      \* Machines that machineToNodeClaim cannot decode
  \* The controller process: lost in a crash
  launchCache,  \* core's cache of claims launched and not yet patched
  pidRead,      \* what a running ControllerNodeClaim reconcile will patch
  shown,        \* the annotation in the informer's copy of a claim, if any
  gcListed, gcUnresolved,       \* the garbage collector's pass
  fcTodo, fcHalf,               \* the failure controller's pass
  faults        \* faults so far

claimVars == <<claimPhase, claimID, owned, launched>>
machineVars == <<mstate, owner, identified, failed, old, labelled, corrupt>>
gcVars == <<shown, gcListed, gcUnresolved>>
fcVars == <<fcTodo, fcHalf>>
vars == <<claimVars, machineVars, launchCache, pidRead, gcVars, fcVars, faults>>

-----------------------------------------------------------------------------
(* Provider IDs: none, the placeholder for a Machine without an ID, or the *)
(* ID of the instance behind a Machine.                                    *)
NoID == [kind |-> "none", machine |-> NoMachine]
Placeholder(m) == [kind |-> "placeholder", machine |-> m]
Real(m) == [kind |-> "real", machine |-> m]
ProviderIDs ==
  [kind : {"none", "placeholder", "real"}, machine : Machines \cup {NoMachine}]

ClaimExists(c) == c \in NodeClaims /\ claimPhase[c] \in {"active", "deleting"}
MachineExists(m) == mstate[m] \in {"live", "terminating"}
OwnerGone(m) == owner[m] \in NodeClaims /\ claimPhase[owner[m]] = "gone"

\* What the API server holds of a claim and its annotation.
Annotation(c) == IF ClaimExists(c) THEN owned[c] ELSE NoMachine

\* machine.Provider.List: the Machines with an owner reference to a NodeClaim.
OwnedMachines == {m \in Machines : MachineExists(m) /\ owner[m] \in NodeClaims}

\* The phase that machineToNodeClaim turns into a deletion timestamp.
PhaseDeleting(m) == mstate[m] = "terminating"

\* CloudProvider.List fails as a whole when one Machine cannot be decoded.
Listable == OwnedMachines \cap corrupt = {}

\* The Machines ControllerNodeClaim finds by the label of a claim.
MachinesOf(c) == {m \in Machines : owner[m] = c /\ MachineExists(m)}

\* A Machine that is being deleted counts as not found.
FaultyFoundByID(id) ==
  {m \in identified : mstate[m] = "live" /\ id = Real(m)}

\* Provider.Get: the Machine with a provider ID; the set is empty for a
\* NodeClaimNotFoundError, in particular for every placeholder.
FoundByID(id) ==
  {m \in identified : MachineExists(m) /\ id = Real(m)}

\* kubeClient.Delete of a Machine: a second Delete, or one of an object that
\* is gone, changes nothing.
Terminated(m) ==
  IF mstate[m] = "live" THEN [mstate EXCEPT ![m] = "terminating"] ELSE mstate

\* kubeClient.Delete of a NodeClaim that exists.
ClaimDeleted(c) == [claimPhase EXCEPT ![c] = "deleting"]

TypeOK ==
  /\ claimPhase \in [NodeClaims -> {"absent", "active", "deleting", "gone"}]
  /\ claimID \in [NodeClaims -> ProviderIDs]
  /\ owned \in [NodeClaims -> Machines \cup {NoMachine}]
  /\ launched \subseteq NodeClaims
  /\ mstate \in [Machines -> {"absent", "live", "terminating", "gone"}]
  /\ owner \in [Machines -> NodeClaims \cup {NoClaim}]
  /\ identified \subseteq Machines
  /\ failed \subseteq Machines
  /\ old \subseteq Machines
  /\ labelled \subseteq Machines
  /\ corrupt \subseteq Machines
  /\ launchCache \in [NodeClaims -> Machines \cup {NoMachine}]
  /\ pidRead \in [NodeClaims -> ProviderIDs]
  /\ shown \in [NodeClaims -> Machines \cup {NoMachine}]
  /\ gcListed \subseteq Machines
  /\ gcUnresolved \subseteq Machines
  /\ fcTodo \subseteq Machines
  /\ fcHalf \subseteq Machines
  /\ faults \in 0..MaxFaults

Init ==
  /\ claimPhase = [c \in NodeClaims |-> "absent"]
  /\ claimID = [c \in NodeClaims |-> NoID]
  /\ owned = [c \in NodeClaims |-> NoMachine]
  /\ launched = {}
  /\ mstate = [m \in Machines |-> "absent"]
  /\ owner = [m \in Machines |-> NoClaim]
  /\ identified = {} /\ failed = {} /\ old = {} /\ labelled = {} /\ corrupt = {}
  /\ launchCache = [c \in NodeClaims |-> NoMachine]
  /\ pidRead = [c \in NodeClaims |-> NoID]
  /\ shown = [c \in NodeClaims |-> NoMachine]
  /\ gcListed = {} /\ gcUnresolved = {}
  /\ fcTodo = {} /\ fcHalf = {}
  /\ faults = 0

-----------------------------------------------------------------------------
(* karpenter core.                                                         *)

\* The provisioner creates a NodeClaim.
CreateNodeClaim(c) ==
  /\ claimPhase[c] = "absent"
  /\ claimPhase' = [claimPhase EXCEPT ![c] = "active"]
  /\ UNCHANGED <<claimID, owned, launched, machineVars, launchCache, pidRead,
                 gcVars, fcVars, faults>>

\* A user, a disruption, an expiry or a launch that found no capacity deletes
\* a NodeClaim.
DeleteNodeClaim(c) ==
  /\ claimPhase[c] = "active"
  /\ claimPhase' = ClaimDeleted(c)
  /\ UNCHANGED <<claimID, owned, launched, machineVars, launchCache, pidRead,
                 gcVars, fcVars, faults>>

\* CloudProvider.Create as far as the API server sees it: a fresh Machine
\* with the label and the owner reference of the claim, and no provider ID.
CreateMachine(c, m) ==
  /\ claimPhase[c] = "active" /\ c \notin launched
  /\ launchCache[c] = NoMachine
  /\ mstate[m] = "absent"
  /\ mstate' = [mstate EXCEPT ![m] = "live"]
  /\ owner' = [owner EXCEPT ![m] = c]
  /\ UNCHANGED <<claimVars, identified, failed, old, labelled, pidRead, gcVars,
                 fcVars>>

\* Create returned: core keeps the outcome in memory and patches the claim.
Launch(c, m) ==
  /\ CreateMachine(c, m)
  /\ launchCache' = [launchCache EXCEPT ![c] = m]
  /\ UNCHANGED <<corrupt, faults>>

\* The Machine was created, but Create returned an error: the reply of the
\* API server was lost, or machineToNodeClaim failed, as it will fail for
\* this Machine in every List.  Core will try again.
LaunchFailsLate(c, m) ==
  /\ CreateMachine(c, m)
  /\ corrupt' \in {corrupt, corrupt \cup ({m} \cap Corruptible)}
  /\ faults < MaxFaults /\ faults' = faults + 1
  /\ UNCHANGED launchCache

\* Core patches the annotations that machineToNodeClaim returned.
PatchOwnedMachine(c) ==
  /\ ClaimExists(c)
  /\ launchCache[c] # NoMachine /\ owned[c] # launchCache[c]
  /\ owned' = [owned EXCEPT ![c] = launchCache[c]]
  /\ UNCHANGED <<claimPhase, claimID, launched, machineVars, launchCache,
                 pidRead, gcVars, fcVars, faults>>

\* Core patches the condition Launched.  The provider ID that Create returned
\* is empty, so this patch does not touch status.providerID.
PatchLaunched(c) ==
  /\ ClaimExists(c)
  /\ launchCache[c] # NoMachine /\ owned[c] = launchCache[c]
  /\ launched' = launched \cup {c}
  /\ launchCache' = [launchCache EXCEPT ![c] = NoMachine]
  /\ UNCHANGED <<claimPhase, claimID, owned, machineVars, pidRead, gcVars,
                 fcVars, faults>>

\* Delete does nothing for a claim whose launch was not recorded.
FaultyFinalizerDelete(c) ==
  /\ claimPhase[c] = "deleting" /\ c \in launched
  /\ \E m \in FoundByID(claimID[c]) :
        mstate[m] = "live" /\ mstate' = Terminated(m)
  /\ UNCHANGED <<claimVars, owner, identified, failed, old, labelled, corrupt,
                 launchCache, pidRead, gcVars, fcVars, faults>>

\* Core finalizes a deleting claim with a provider ID: CloudProvider.Delete
\* finds the Machine by that ID and deletes it; core waits.
FinalizerDelete(c) ==
  /\ claimPhase[c] = "deleting"
  /\ \E m \in FoundByID(claimID[c]) :
        mstate[m] = "live" /\ mstate' = Terminated(m)
  /\ UNCHANGED <<claimVars, owner, identified, failed, old, labelled, corrupt,
                 launchCache, pidRead, gcVars, fcVars, faults>>

\* Core removes the finalizer when Delete returns NodeClaimNotFoundError, or
\* at once when the claim has no provider ID.  (The removal is an update with
\* a version check: it cannot slip past a patch of the claim.)
RemoveFinalizer(c) ==
  /\ claimPhase[c] = "deleting"
  /\ FoundByID(claimID[c]) = {}
  /\ claimPhase' = [claimPhase EXCEPT ![c] = "gone"]
  /\ UNCHANGED <<claimID, owned, launched, machineVars, launchCache, pidRead,
                 gcVars, fcVars, faults>>

-----------------------------------------------------------------------------
(* The provider ID controllers.                                            *)

\* The list of Machines is not restricted to the label of the claim.
FaultyReadMachine(c) ==
  /\ ClaimExists(c) /\ claimID[c] = NoID
  /\ pidRead[c] = NoID
  /\ \E m \in Machines :
        /\ MachineExists(m)
        /\ pidRead' = [pidRead EXCEPT
                     ![c] = IF m \in identified THEN Real(m) ELSE Placeholder(m)]
  /\ UNCHANGED <<claimVars, machineVars, launchCache, gcVars, fcVars, faults>>

\* ControllerNodeClaim, until its patch: a claim without a provider ID, and
\* the first Machine, in any order, that carries its label.
ReadMachine(c) ==
  /\ ClaimExists(c) /\ claimID[c] = NoID
  /\ pidRead[c] = NoID
  /\ \E m \in MachinesOf(c) :
        pidRead' = [pidRead EXCEPT
                     ![c] = IF m \in identified THEN Real(m) ELSE Placeholder(m)]
  /\ UNCHANGED <<claimVars, machineVars, launchCache, gcVars, fcVars, faults>>

\* ... and its patch, which carries no version: it overwrites whatever the
\* claim holds by now, and is dropped when the claim is gone.
PatchProviderID(c) ==
  /\ pidRead[c] # NoID
  /\ claimID' = IF ClaimExists(c) THEN [claimID EXCEPT ![c] = pidRead[c]] ELSE claimID
  /\ pidRead' = [pidRead EXCEPT ![c] = NoID]
  /\ UNCHANGED <<claimPhase, owned, launched, machineVars, launchCache, gcVars,
                 fcVars, faults>>

\* The status gets the name of the Machine.
FaultyReportName(m) ==
  /\ MachineExists(m) /\ m \in identified /\ m \notin labelled
  /\ ClaimExists(owner[m])
  /\ claimID' = [claimID EXCEPT ![owner[m]] = m]
  /\ labelled' = IF LabelSticks THEN labelled \cup {m} ELSE labelled
  /\ UNCHANGED <<claimPhase, owned, launched, mstate, owner, identified, failed,
                 old, corrupt, launchCache, pidRead, gcVars, fcVars, faults>>

\* A status that holds something, be it a placeholder, is left alone.
FaultyReportOnce(m) ==
  /\ MachineExists(m) /\ m \in identified /\ m \notin labelled
  /\ ClaimExists(owner[m]) /\ claimID[owner[m]] = NoID
  /\ claimID' = [claimID EXCEPT ![owner[m]] = Real(m)]
  /\ labelled' = IF LabelSticks THEN labelled \cup {m} ELSE labelled
  /\ UNCHANGED <<claimPhase, owned, launched, mstate, owner, identified, failed,
                 old, corrupt, launchCache, pidRead, gcVars, fcVars, faults>>

\* ControllerMachine: the Machine's ID goes into its owner's status.  One
\* step, because what it writes does not depend on what it read.
ReconcileMachine(m) ==
  /\ MachineExists(m) /\ m \in identified /\ m \notin labelled
  /\ ClaimExists(owner[m])
  /\ claimID' = [claimID EXCEPT ![owner[m]] = Real(m)]
  /\ labelled' = IF LabelSticks THEN labelled \cup {m} ELSE labelled
  /\ UNCHANGED <<claimPhase, owned, launched, mstate, owner, identified, failed,
                 old, corrupt, launchCache, pidRead, gcVars, fcVars, faults>>

-----------------------------------------------------------------------------
(* The garbage collector.                                                  *)

\* The informer delivers the present state of a claim: annotated, or gone.
InformerCatchesUp(c) ==
  /\ shown' = [shown EXCEPT ![c] = Annotation(c)]
  /\ UNCHANGED <<claimVars, machineVars, launchCache, pidRead, gcListed,
                 gcUnresolved, fcVars, faults>>

\* A pass starts with the Machines that are not being deleted.
GCList ==
  /\ gcListed = {} /\ gcUnresolved = {}
  /\ Listable
  /\ gcListed' = {m \in OwnedMachines : ~PhaseDeleting(m)}
  /\ UNCHANGED <<claimVars, machineVars, launchCache, pidRead, shown,
                 gcUnresolved, fcVars, faults>>

\* A Machine is resolved by the existence of its claim.
FaultyUnresolvedByOwner(m) == ~ClaimExists(owner[m])

\* A Machine is resolved by the provider ID of a claim.
FaultyUnresolvedByID(m) == \A c \in NodeClaims : claimID[c] # Real(m)

\* resolvedOwnedMachines has the annotations of the cached NodeClaims.
Unresolved(m) == \A c \in NodeClaims : shown[c] # m

\* The NodeClaims are listed after the Machines.
GCListClaims ==
  /\ gcListed # {}
  /\ gcUnresolved' = {m \in gcListed : Unresolved(m)}
  /\ gcListed' = {}
  /\ UNCHANGED <<claimVars, machineVars, launchCache, pidRead, shown, fcVars,
                 faults>>

\* The age of a Machine is not looked at.
FaultyGCDeleteAnyAge(m) ==
  /\ m \in gcUnresolved
  /\ mstate' = Terminated(m)
  /\ gcUnresolved' = gcUnresolved \ {m}
  /\ UNCHANGED <<claimVars, owner, identified, failed, old, labelled, corrupt,
                 launchCache, pidRead, shown, gcListed, fcVars, faults>>

\* One worker of the pass, later: a Machine that is older than 30 seconds by
\* now is deleted.  garbageCollect goes by provider ID if the Machine had one
\* when it was listed, else by name; either way it is this Machine or, if it
\* is gone, nothing.
GCDelete(m) ==
  /\ m \in gcUnresolved /\ m \in old
  /\ mstate' = Terminated(m)
  /\ gcUnresolved' = gcUnresolved \ {m}
  /\ UNCHANGED <<claimVars, owner, identified, failed, old, labelled, corrupt,
                 launchCache, pidRead, shown, gcListed, fcVars, faults>>

\* A Machine that is younger is left for a later pass.
GCSpare(m) ==
  /\ m \in gcUnresolved \ old
  /\ gcUnresolved' = gcUnresolved \ {m}
  /\ UNCHANGED <<claimVars, machineVars, launchCache, pidRead, shown, gcListed,
                 fcVars, faults>>

\* An API error: the other deletions of the pass go on.
GCDeleteFails(m) ==
  /\ m \in gcUnresolved /\ m \in old
  /\ faults < MaxFaults /\ faults' = faults + 1
  /\ gcUnresolved' = gcUnresolved \ {m}
  /\ UNCHANGED <<claimVars, machineVars, launchCache, pidRead, shown, gcListed,
                 fcVars>>

-----------------------------------------------------------------------------
(* The failure controller.                                                 *)

\* Having no provider ID for 30 seconds counts as a failure.
FaultyFCListNoMessage ==
  /\ fcTodo = {} /\ fcHalf = {}
  /\ fcTodo' = {m \in OwnedMachines : m \notin identified /\ m \in old}
  /\ UNCHANGED <<claimVars, machineVars, launchCache, pidRead, gcVars, fcHalf,
                 faults>>

\* The comparison of the age is the wrong way round.
FaultyFCListYoung ==
  /\ fcTodo = {} /\ fcHalf = {}
  /\ fcTodo' = {m \in OwnedMachines : m \in failed \ identified /\ m \notin old}
  /\ UNCHANGED <<claimVars, machineVars, launchCache, pidRead, gcVars, fcHalf,
                 faults>>

\* The Machines of a pass: owned, without a provider ID, old and failed.
\* Insufficient and unknown failures are both deleted.
FCList ==
  /\ fcTodo = {} /\ fcHalf = {}
  /\ fcTodo' = {m \in OwnedMachines : m \in failed \ identified /\ m \in old}
  /\ UNCHANGED <<claimVars, machineVars, launchCache, pidRead, gcVars, fcHalf,
                 faults>>

\* The Machine is deleted whether or not its claim was.
FaultyFCDeleteClaim(m) ==
  /\ m \in fcTodo
  /\ fcTodo' = fcTodo \ {m}
  /\ fcHalf' = fcHalf \cup {m}
  /\ UNCHANGED <<claimVars, machineVars, launchCache, pidRead, gcVars, faults>>

\* deleteFailureMachine deletes the NodeClaim first.  Any error of that call,
\* NotFound included, ends it, and the Machine stays.
FCDeleteClaim(m) ==
  /\ m \in fcTodo
  /\ fcTodo' = fcTodo \ {m}
  /\ IF ClaimExists(owner[m])
     THEN claimPhase' = ClaimDeleted(owner[m]) /\ fcHalf' = fcHalf \cup {m}
     ELSE UNCHANGED <<claimPhase, fcHalf>>
  /\ UNCHANGED <<claimID, owned, launched, machineVars, launchCache, pidRead,
                 gcVars, faults>>

\* ... then the Machine.
FCDeleteMachine(m) ==
  /\ m \in fcHalf
  /\ fcHalf' = fcHalf \ {m}
  /\ mstate' = Terminated(m)
  /\ UNCHANGED <<claimVars, owner, identified, failed, old, labelled, corrupt,
                 launchCache, pidRead, gcVars, fcTodo, faults>>

\* An API error in either call.
FCDeleteFails(m) ==
  /\ m \in fcTodo \cup fcHalf
  /\ faults < MaxFaults /\ faults' = faults + 1
  /\ fcTodo' = fcTodo \ {m}
  /\ fcHalf' = fcHalf \ {m}
  /\ UNCHANGED <<claimVars, machineVars, launchCache, pidRead, gcVars>>

-----------------------------------------------------------------------------
(* The TKE machine actuator, the Kubernetes garbage collector, time and    *)
(* faults.                                                                 *)

Provision(m) ==
  /\ mstate[m] = "live" /\ m \notin identified \cup failed
  /\ identified' = identified \cup {m}
  /\ UNCHANGED <<claimVars, mstate, owner, failed, old, labelled, corrupt,
                 launchCache, pidRead, gcVars, fcVars, faults>>

Fail(m) ==
  /\ mstate[m] = "live" /\ m \notin identified \cup failed
  /\ failed' = failed \cup {m}
  /\ UNCHANGED <<claimVars, mstate, owner, identified, old, labelled, corrupt,
                 launchCache, pidRead, gcVars, fcVars, faults>>

\* The instance is released and the Machine's finalizer removed.
Release(m) ==
  /\ mstate[m] = "terminating"
  /\ mstate' = [mstate EXCEPT ![m] = "gone"]
  /\ UNCHANGED <<claimVars, owner, identified, failed, old, labelled, corrupt,
                 launchCache, pidRead, gcVars, fcVars, faults>>

\* Kubernetes deletes a Machine whose owner reference dangles.
CollectDangling(m) ==
  /\ mstate[m] = "live" /\ OwnerGone(m)
  /\ mstate' = Terminated(m)
  /\ UNCHANGED <<claimVars, owner, identified, failed, old, labelled, corrupt,
                 launchCache, pidRead, gcVars, fcVars, faults>>

\* The garbage collector may still take the Machine of an active claim for
\* abandoned: the annotation is not patched, or not shown, or a pass listed
\* the claims before it was.
Exposed(m) ==
  \E c \in NodeClaims :
    /\ claimPhase[c] = "active"
    /\ \/ launchCache[c] = m /\ owned[c] # m
       \/ owned[c] = m /\ (shown[c] # m \/ m \in gcUnresolved)

\* 30 seconds pass.
Age(m) ==
  /\ MachineExists(m) /\ m \notin old
  /\ InTime => ~Exposed(m)
  /\ old' = old \cup {m}
  /\ UNCHANGED <<claimVars, mstate, owner, identified, failed, labelled, corrupt,
                 launchCache, pidRead, gcVars, fcVars, faults>>

\* An edit leaves a label or an annotation that cannot be parsed.
Corrupt(m) ==
  /\ m \in Corruptible /\ mstate[m] = "live" /\ m \notin corrupt
  /\ faults < MaxFaults /\ faults' = faults + 1
  /\ corrupt' = corrupt \cup {m}
  /\ UNCHANGED <<claimVars, mstate, owner, identified, failed, old, labelled,
                 launchCache, pidRead, gcVars, fcVars>>

\* The controller process stops and starts again with empty memory and a
\* fresh informer cache.
Crash ==
  /\ faults < MaxFaults /\ faults' = faults + 1
  /\ launchCache' = [c \in NodeClaims |-> NoMachine]
  /\ pidRead' = [c \in NodeClaims |-> NoID]
  /\ shown' = [c \in NodeClaims |-> Annotation(c)]
  /\ gcListed' = {} /\ gcUnresolved' = {}
  /\ fcTodo' = {} /\ fcHalf' = {}
  /\ UNCHANGED <<claimVars, machineVars>>

-----------------------------------------------------------------------------
Core(c) ==
  \/ CreateNodeClaim(c) \/ DeleteNodeClaim(c)
  \/ \E m \in Machines : Launch(c, m) \/ LaunchFailsLate(c, m)
  \/ PatchOwnedMachine(c) \/ PatchLaunched(c)
  \/ FinalizerDelete(c) \/ RemoveFinalizer(c)

ProviderIDControllers ==
  \/ \E c \in NodeClaims : ReadMachine(c) \/ PatchProviderID(c)
  \/ \E m \in Machines : ReconcileMachine(m)

GCPass ==
  \/ GCList \/ GCListClaims
  \/ \E m \in Machines : GCDelete(m) \/ GCSpare(m)
GarbageCollection ==
  \/ GCPass
  \/ \E c \in NodeClaims : InformerCatchesUp(c)
  \/ \E m \in Machines : GCDeleteFails(m)

FCPass == FCList \/ \E m \in Machines : FCDeleteClaim(m) \/ FCDeleteMachine(m)
Failure == FCPass \/ \E m \in Machines : FCDeleteFails(m)

Environment ==
  \/ \E m \in Machines :
       \/ Provision(m) \/ Fail(m) \/ Release(m) \/ CollectDangling(m)
       \/ Age(m) \/ Corrupt(m)
  \/ Crash

Next ==
  \/ \E c \in NodeClaims : Core(c)
  \/ ProviderIDControllers
  \/ GarbageCollection
  \/ Failure
  \/ Environment

Spec == Init /\ [][Next]_vars

\* Core is requeued until it succeeds, the singleton controllers run every 10
\* seconds to a minute, and the informer delivers what changed.  The provider
\* ID controllers are not requeued after a success: that they run again rests
\* on later events of the Machine and the claim, or on the resync of the
\* informer.  The actuator finishes what it was asked to delete; time passes.
\* Faults end: MaxFaults bounds them.  Nothing is assumed of Kubernetes' own
\* garbage collector, of users, or of the outcome of provisioning.
Fairness ==
  /\ \A c \in NodeClaims :
       /\ WF_vars(PatchOwnedMachine(c) \/ PatchLaunched(c))
       /\ WF_vars(FinalizerDelete(c) \/ RemoveFinalizer(c))
       /\ WF_vars(ReadMachine(c) \/ PatchProviderID(c))
       /\ WF_vars(InformerCatchesUp(c))
  /\ \A m \in Machines :
       WF_vars(ReconcileMachine(m)) /\ WF_vars(Release(m)) /\ WF_vars(Age(m))
  /\ WF_vars(GCPass) /\ WF_vars(FCPass)

FairSpec == Spec /\ Fairness

-----------------------------------------------------------------------------
(* Properties.                                                             *)

\* A provider ID, in the status of a claim or about to be patched into it, is
\* that of a Machine created for this claim, and a real one is the Machine's:
\* the two provider ID controllers find Machines by a label and by the owner
\* reference, and must never hand one claim the instance of another.
IDNamesOwnMachine ==
  \A c \in NodeClaims : \A id \in {claimID[c], pidRead[c]} :
    id.kind # "none" =>
      /\ id.machine \in Machines /\ owner[id.machine] = c
      /\ id.kind = "real" => id.machine \in identified

\* The use of the 30 seconds (garbagecollection Reconcile): if they cover
\* core's patch, the lag of the cache and a pass that looked before, then the
\* Machine of an active, annotated claim is alive, although the collector
\* decides on lists taken before, in any order with crashes, second launches
\* of the claim and the deletions of the other controllers.
TimelyClaimKeepsMachine ==
  InTime => \A c \in NodeClaims :
    claimPhase[c] = "active" /\ owned[c] # NoMachine => mstate[owned[c]] = "live"

\* A claim that held the ID of an instance when its finalizer went does not
\* leave that instance behind: CloudProvider.Delete answers NotFound only when
\* the Machine is really gone (machine.go Get and Delete).
FinalizedLeavesNoInstance ==
  \A c \in NodeClaims :
    claimPhase[c] = "gone" /\ claimID[c].kind = "real"
      => mstate[claimID[c].machine] = "gone"

\* The comment of garbagecollection Reconcile: instances "are deleted based on
\* whether the Machine exists or not" (the NodeClaim, in today's names).  The
\* code goes by the annotation that core patches after the launch.
CollectedByExistence ==
  \A m \in gcUnresolved \cap old : ~ClaimExists(owner[m])

\* The failure controller ends a claim before it ends its Machine, so a
\* Machine it is about to delete never belongs to an active claim, and what
\* it works on failed and has no instance (deleteFailureMachine).
FailureTargetsAreFailed ==
  /\ \A m \in fcTodo \cup fcHalf : m \in failed /\ m \notin identified
  /\ \A m \in fcHalf : claimPhase[owner[m]] \in {"deleting", "gone"}

\* From the moment the collector's cache shows the annotation of an active
\* claim, and no pass that looked before has its Machine left, that Machine
\* is safe for as long as the claim is active and annotated with it: neither
\* a pass of the collector, however slow, nor the failure controller, nor
\* the finalizer of another claim, nor Kubernetes starts to delete it, and no
\* later pass finds it unresolved.
ActiveClaimKeepsMachine ==
  [][\A c \in NodeClaims :
       /\ claimPhase[c] = "active" /\ owned[c] # NoMachine /\ shown[c] = owned[c]
       /\ mstate[owned[c]] = "live" /\ owned[c] \notin gcUnresolved
       => mstate'[owned[c]] = "live"
          /\ (claimPhase'[c] = "active" /\ owned'[c] = owned[c]
                => shown'[c] = owned[c] /\ owned[c] \notin gcUnresolved')]_vars

\* The Machine whose instance ID is in the status of a claim; a placeholder
\* reports none.
Reported ==
  [c \in NodeClaims |->
     IF claimID[c].kind = "real" THEN claimID[c].machine ELSE NoMachine]

Contract == INSTANCE NodeClaimContract WITH
  claim <- claimPhase, holds <- owned, known <- shown, reported <- Reported,
  machine <- mstate, madeFor <- owner, condemned <- gcUnresolved

\* The controllers and the actors around them, taken together, implement the
\* contract with karpenter core: none of their steps (nodeclaim controllers,
\* CloudProvider.Create and Delete) ends a Machine an active claim holds,
\* except for a pass of the garbage collector that looked at the claims before
\* its cache showed core's patch; none
\* hands a claim the instance of another, or finishes a claim before the
\* instance it reports is gone.
ImplementsContract == Contract!Spec

\* Machines nobody will claim again: the claim is gone, or it was launched
\* with another Machine after a crash or a lost reply.
Orphan(m) ==
  /\ mstate[m] = "live"
  /\ \/ OwnerGone(m)
     \/ owner[m] \in launched /\ owned[owner[m]] # m

\* One Machine that List cannot decode blocks the collection of all.
CollectionBlocked == ~Listable

\* Every orphan is collected unless a corrupt Machine blocks the garbage
\* collector, whatever the crashes, lost replies and failed deletions were.
OrphanCollected ==
  \A m \in Machines : Orphan(m) ~> (mstate[m] = "gone" \/ CollectionBlocked)

\* The claim of a Machine that failed does not stay: the failure controller
\* deletes it and core finalizes it, so that the provisioner may try again.
FailedLaunchCleared ==
  \A m \in Machines : m \in failed ~> ~MachineExists(m) \/ OwnerGone(m)

\* A claim that is deleted is finalized: no placeholder and no swap of
\* provider IDs keeps its finalizer for ever.
DeletedClaimFinalized ==
  \A c \in NodeClaims : claimPhase[c] = "deleting" ~> claimPhase[c] = "gone"

\* The only Machine of a claim, once it has an instance, gets its ID
\* into the status of the claim, although a late patch of ControllerNodeClaim
\* may put the placeholder back for a while.
Sole(m) == MachinesOf(owner[m]) = {m}
InstanceReported ==
  \A m \in Machines :
    m \in identified
      ~> \/ ~Sole(m) \/ ~ClaimExists(owner[m])
         \/ claimID[owner[m]] = Real(m)
=============================================================================
