# TLA+ models of karpenter-provider-tke

Specifications of the parts of this provider where several controllers, karpenter
core, Kubernetes and the TKE machine actuator act on the same objects, with TLC
configurations that check them on small instances and TLAPS proofs for instances
of any size.  Paths below are relative to `src/pkg` unless they start with `src`.

## The system

The provider turns a karpenter `NodeClaim` into a TKE `Machine` object.  It keeps
no database: its state is the API server's objects and a few in-memory caches.

| Component | State it keeps | Operations | Meets |
|---|---|---|---|
| CloudProvider and machine provider (`cloudprovider/cloudprovider.go`, `providers/machine/machine.go`) | none; reads and writes Machines | `Create`, `Delete`, `Get`, `List`, `machineToNodeClaim` | called by core and by the garbage collector |
| Provider ID controllers (`controllers/nodeclaim/providerid`) | what a running reconcile has read | NodeClaim reconcile: copy the ID, or a placeholder, of the first Machine with the claim's label. Machine reconcile: copy the ID into the owner | each other, on `status.providerID` |
| Garbage collector (`controllers/nodeclaim/garbagecollection`) | the lists of its pass | delete old Machines no claim is annotated with | core's launch, the finalizer |
| Failure controller (`controllers/nodeclaim/failure`) | the list of its pass | delete failed Machines and their claims, count failures, block offerings | the blacklist, the garbage collector |
| Instance type provider (`providers/instancetype`) | provider cache (10 min), blacklist and failure counts (30 min, 1 h) | `List`, `BlockInstanceType`, `AddInsufficientFailure`, capacity and overhead arithmetic | `Create`, the failure controller |
| NodeClass controllers (`controllers/nodeclass`) | status of the NodeClass, its finalizer | resolve subnets, security groups and keys; readiness; termination | `Create` is gated by readiness |
| Selector providers (`providers/vpc`, `providers/sshkey`) | short caches | batched cloud queries | NodeClass status |
| Zone provider (`providers/zone`) | a constant table | zone name to number and back | instance types, `Create` |

karpenter core, the API server, Kubernetes' garbage collector and the machine
actuator are not in this repository.  They are modelled from how the code uses
them and marked external in `PROJECT.json`.

What is hard here: four controllers and core write the same objects with no common
lock, most patches carry no version, reads come from informer caches, and the
process may stop between any two calls.  The launch of a Machine is two steps
(create, then patch the claim) and the second can be lost, late, or repeated.
`PROJECT.json` lists each hazard at its line with the properties that cover it.

What makes each component correct:

- lifecycle: a claim that is in use keeps its Machine; a Machine nobody will claim is
  deleted; a claim never gets another claim's instance; a finalized claim leaves no
  known instance running; every deletion ends;
- blacklist: what failed often enough is blocked and nothing else, counts survive the
  pass that made them, blocks end;
- instance types: a refresh is answered with nothing older than itself unless another
  `List` interferes, an answer is for the class it is given to, and the cache catches up;
- NodeClass: readiness follows from what was resolved, a class in use is not removed,
  what can be resolved is resolved in the end;
- pure parts: the launched offering is compatible, available and in a zone with a
  subnet; zone mappings are inverse to each other; reservations never exceed capacity.

| Module | Component | Uses |
|---|---|---|
| `NodeClaimContract` | what the lifecycle promises, abstractly | |
| `MachineLifecycle` | claims, Machines and their controllers | implements `NodeClaimContract` |
| `OfferingBlacklist`, `OfferingBlacklistHistory` | counts, blocks, the failure controller's pass | |
| `NodeClassLifecycle` | NodeClass controllers, the gate of `Create` | |
| `InstanceTypeCache` | concurrent `List`s and their cache | |
| `LaunchDecision` | `Create`, from the resolved types to the Machine | `ZoneIDs` |
| `ZoneIDs`, `Selectors`, `InstanceCapacity` | calculations | |
| `Calculations` | one question to them, and their properties | the last three |
| `MC...` | instances for TLC; `MCLaunch` composes `LaunchDecision` and `Calculations` | |
| `...Proofs` | theorems about the module of that name | |

## Modules

### MachineLifecycle

The claims, the Machines and everybody who writes them.  A claim is a phase, the
provider ID of its status, the annotation `owned-machine` and the condition
`Launched`; a Machine is a state, its owner, and a few facts the controllers ask
for (has a provider ID, has failed, is older than 30 seconds, cannot be decoded).
What a controller has read and not yet acted on is a variable of that controller
(`launchCache`, `pidRead`, `gcListed`, `gcUnresolved`, `fcTodo`, `fcHalf`): every
other actor may step in between, and `Crash` empties them all.  `shown` is the copy of the
claims' annotations in the informer's cache, which the garbage collector lists.

| Code | Actions |
|---|---|
| `Create` and what core does with its answer | `Launch`, `LaunchFailsLate`, `PatchOwnedMachine`, `PatchLaunched` |
| `Delete` and core's finalization | `DeleteNodeClaim`, `FinalizerDelete`, `RemoveFinalizer` |
| `controllers/nodeclaim/providerid` | `ReadMachine`, `PatchProviderID`, `ReconcileMachine` |
| `controllers/nodeclaim/garbagecollection` | `GCList`, `GCListClaims`, `GCDelete`, `GCSpare`, `GCDeleteFails`; `InformerCatchesUp` |
| `controllers/nodeclaim/failure` (what it deletes) | `FCList`, `FCDeleteClaim`, `FCDeleteMachine`, `FCDeleteFails` |
| machine actuator, Kubernetes, time (external) | `Provision`, `Fail`, `Release`, `CollectDangling`, `Age`, `Corrupt` |

What is assumed of karpenter core, which is not in this repository: it keeps the
result of a launch in memory until it has patched it, patches the metadata (the
annotation) before the status, gets an empty provider ID from `Create` and so does
not write one, finalizes a claim without a provider ID without calling `Delete`, and
removes the finalizer by an update that a concurrent patch makes fail.

A pass of the garbage collector is three steps, in the order of the code: the
Machines (`GCList`), the annotations of the cached claims (`GCListClaims`), and for
each Machine that none of them names its age (`GCDelete` or `GCSpare`), which is looked at last.
A Machine may grow old, and core's patch may arrive, between any two of them.

Three constants are switches:

- `InTime`: the 30 seconds that the garbage collector grants cover core's patch, the lag
  of the collector's cache, and a pass that listed the claims before the cache showed the
  patch, unless the process stops.  A patch within 30 seconds is not enough: the claims
  are listed before the age is looked at.  `TimelyClaimKeepsMachine` alone needs it; all
  other safety, and the contract, hold however late patches, cache and passes are.
- `LabelSticks`: `ControllerMachine` writes the label `provider-id-initialized` through
  the status subresource, where the API server drops it.  The runs have the API server as
  it is, where the controller takes every step that it would take otherwise and more; the
  theorems hold for both.
  A label that did stick would let a late placeholder stay for ever, because the
  Machine would not be reconciled again.
- `Corruptible`: Machines that an edit leaves undecodable.  One of them makes
  `CloudProvider.List` fail, and with it every pass of the garbage collector.  An edit
  may leave one (`Corrupt`), or it is so from its creation, in which case `Create`
  fails too (`LaunchFailsLate`);
  `OrphanCollected` says so, and `lifecycle_liveness` has such Machines.

`NodeClaimContract` is the abstract specification: a Machine is made for one active
claim, is not ended while an active claim holds it, a claim reports an instance of its
own Machine, and is finished only when that Machine is gone.  Its exception is
`Collect`: a condemned Machine is ended whoever holds it by then.  `Judge` limits the
exception: what is `known` of the claims follows what they hold, with any delay, and no
Machine that a claim is known to hold is condemned anew.  `MachineLifecycle` maps
the phases of claims and Machines to it (`ImplementsContract`), what is known to `shown`, and
what is condemned to `gcUnresolved`: the caches, lists and reads of the other controllers are
stutters, and a Machine that is created by a launch whose answer is lost is a `Make` that nobody
`Hold`s.

| Run | Instance | Shows |
|---|---|---|
| `lifecycle_safety` | 2 claims, 2 Machines, 1 fault, any delays | types, ownership of IDs, what the failure controller deletes, nothing left behind by a finalized claim, no step ends the Machine of an active claim that the collector's cache shows and no earlier pass has left; the contract is implemented |
| `lifecycle_liveness` | 1 claim, 2 Machines of which one is corruptible, 1 fault, `InTime` | active, annotated claims keep their Machines; orphans are collected unless a corrupt Machine stops the collector, failed launches cleared, deletions end, instances reported |
| `lifecycle_slow_patch` | 1 claim, 2 Machines, any delays | violation, see findings |

Two claims are enough for one to receive or lose what is the other's, and one of them to
end while the other is in use; two Machines
for a claim to be launched twice; one fault (a crash, a lost reply or a refused
deletion) for the second launch to happen and for a pass to be cut short.  Names are
never reused, so 2 Machines also bound the launches.  `MCMachineLifecycle` bounds the
interleavings further.  In the safety run one claim ends (`EndsAlone`), one at a time
is launched and not yet shown to the collector (`LaunchesAlone`), and one at a time waits for the
patch of its ID (`ReadsAlone`); claims and Machines are symmetric.  In the liveness run, for
which symmetry is unsound, Machines are named in the order of their creation (`NextName`), one
Machine fails, and while the cache lags only the collector and edits move (`Lagging`), which
is when the lag matters: the passes that read the cache before, during and after it are all there.
The proofs need none of these bounds.

Fairness is weak fairness of core's patches and of its finalization, which core retries with
a requeue; of the passes of the two singleton controllers, which requeue themselves; of
the delivery to the cache; and of the provider ID controllers.  These do not requeue
after a success: that they run again rests on later events of the Machine and the claim,
of which a Machine on its way to an instance and an instance on its way to a node have many, or on
the informer's resync.  The actuator releases what is deleted, and time passes.  Nothing is assumed of users,
of Kubernetes' own garbage collector, or of whether an instance is provisioned.

*Proofs* (`MachineLifecycleProofs`, any claims, Machines and faults).  `TypeCorrect` is
inductive by itself.  The other safety properties are not: that the collector never
takes the Machine of an active claim when all is in time depends on what the launch cache, the
collector's cache and its lists together say about a Machine that turns old.  `IInv` adds to
the types

- `References`: a cached, annotated or remembered Machine exists or existed and is the
  claim's own;
- `MachineHistory`: what a Machine that was not created yet cannot have;
- `IDNamesOwnMachine`;
- `TimelyInv`: with `InTime`, an old Machine cannot be taken for abandoned any more (it is
  not `Exposed`: patched, shown, and in no list taken before), and what an active claim
  holds, or is about to be patched to hold, is alive;
- `FailureTargetsInv`, `FinalizedLeavesNoInstance`.

Each is shown to be kept by each group of actions, from `IInv` before the step.

The same module proves the refinement, `LifecycleImplementsContract`, for all constants, late
patches included: every step of `MachineLifecycle` is one of the contract or a stutter.  The
finalizer, the failure controller and Kubernetes end Machines that no active claim holds or
will hold (`EndsAreFree`); the collector's deletion is a `Collect`; what it lists or spares and
what its cache is told is a `Judge` (`LookingIsJudging`).

The contract is then shown to be worth something: `ContractIsKept` derives from it alone that
claims share no Machine and that a finished claim leaves no instance it reported (`Promises`,
with the invariant `NothingBefore`), and the action property `HeldIsKept`: what an active claim
is known to hold lives on, unless it was condemned before.  `CoreMayRelyOn` joins both, and
`ActiveClaimsKeepTheirMachines` says it in the lifecycle's terms: even with late patches, the only
way for an active claim to lose the Machine it is annotated with is a pass of the garbage
collector that listed the claims before its cache showed the annotation, so once it
does and those passes are over the Machine is safe.  That bounds the finding of
`lifecycle_slow_patch`.  `TimelyClaimsKeepTheirMachines` is about the time before: with
`InTime` there is no such pass.

### OfferingBlacklist and OfferingBlacklistHistory

What `providers/instancetype` remembers about offerings that ran out, the pass of the
failure controller that writes it, and launches that read it and use the answer later.
Entries of the cache are a number of ticks left, one tick being the half hour of a
block (blocks last 1 tick and counts 2; 2 and 4 in `blacklist_liveness`).  A slot is one
launch, from `List` to the end of its Machine.

| Code | Actions |
|---|---|
| `resolveInstanceTypes`, `machine.Provider.Create` | `ListOfferings`, `CreateMachine`, `CreateRejected`, `CreateAborted` |
| `failure.Controller.Reconcile`: list and classify | `FCList` |
| `refreshInstanceTypes` | `CountFailure`, `SkipFailure` |
| second classification, `blockInstanceTypes` | `BlockUnknown` |
| `deleteFailureMachine`, requeue | `DeleteFailed`, `DeleteFails`, `EndPass` |
| expiry of the caches, restart | `Tick`, `Crash` |
| machine actuator, others who delete (external) | `Leave`, `Fail`, `Release`, `DeletedElsewhere` |

`isBlocked` looks for `*` in every position of a key, but only a type is ever replaced
by `*`: by a spot quota failure, and in the count of spot in a zone.  The keys of
the model are those.  `OfferingBlacklistHistory` adds what the code does not keep, the
Machines that caused a count or a block and the failures of the last hour, for
properties that compare the counters with what happened.

| Run | Instance | Shows |
|---|---|---|
| `blacklist_safety` | 2 spot types, or spot and on-demand of one type; 2 slots; 3 failures that count | types, a type is blocked in the pass that takes it over the limit and counting stops there, nothing is blocked without a cause |
| `blacklist_liveness` | 1 spot type, 2 slots | an offering is not blocked for good unless a failed Machine is never deleted; counts expire although failures go on; the controller never stops trying to delete what failed |
| `blacklist_recount` | 1 slot, the code's 3 failures | violation, see findings |
| `blacklist_hour` | 1 slot, the code's 3 failures | violation, see findings |

The limits are smaller than the code's 3 and 50 where a run must reach all
interleavings; what matters is that a count can be below, at and above the limit
with another Machine on its way, which two slots and a limit of 1 or 2 give, and the
proofs hold for all limits.  The runs with histories bound the failures that the history
counts, over all offerings together (`MaxHits`): 3, or 4 where a property is refuted, take a type
over its limit and spot over its own.  The history stops at a cap per offering, so that
an offering at its cap may go on failing.  A Machine may outlive the pass that
deletes it in every run, and is then listed and counted again (`blacklist_recount`), and its
deletion may fail in every pass: with its NodeClaim gone, `deleteFailureMachine` returns
before it deletes the Machine.  Only `blacklist_hour`, whose question is another, searches for
its violation where no Machine is listed by two passes (`CountedOnce`), so that renewed hours
and not repeated counts are what it finds.

Fairness: the pass requeues itself, deleted Machines are released, time passes,
and restarts end.  That a deletion succeeds is not assumed.  Accordingly
`OfferingReturns` excepts offerings that a failed Machine blocks again in pass after pass because
nobody ever deletes it (`NeverDeleted`), and `FailuresAreTried` does not say that failed
Machines are deleted but that each of them is in a pass's deletions again and again.  That is not
self-evident: a pass deletes only Machines that both its classifications agree on, and
counts grow and expire between them.

*Proofs* (`OfferingBlacklistProofs`).  `TypeCorrect`; `BlockedInTheSamePass`, the action
property that a type over its limit is blocked before the pass that took it there ends,
which needs that what is to be deleted is still listed while the pass counts
(`PassInv`); `CountingStops`, the bound on the counts, which is not inductive: one pass
may count every slot, so `CountInv` bounds a count together with the failures still
waiting to be counted under the same key, and the classification in `FCList` gives the
start of that induction.

`OfferingBlacklistHistoryProofs` adds `BlocksHaveCauses`.  Histories
change nothing: each of its steps is one of `OfferingBlacklist`, whose invariants it so
inherits.  `CauseInv` follows a cause from the failure, through what a pass has
listed, to the key that is blocked, and keeps wildcards to spot.

### NodeClassLifecycle

One name of a NodeClass: the object behind it at the API server (`class`), its copy in
the informer's cache (`seen`), the two controllers' queues, and what their reconciles
carry from one call to the next (`sync`, `condemned`).  `answers` is what the cloud
queries of the present spec resolve to, or `Nothing`, for subnets, security groups and SSH
keys.  Generations count edits and the deletion, as the condition `Ready` records
the one it was computed for.

| Code | Actions |
|---|---|
| `status` `Reconcile` and its four parts | `StatusStart`, `StatusAddFinalizer`, `StatusLookUp`, `StatusPatch`, `StatusPatchFails`, `StatusSkip` |
| `termination` `Reconcile`, `finalize` | `TermSkip`, `TermStart`, `TermUpdate`, `TermUpdateFails` |
| what `Register` of both controllers watches | `Deliver`, `RemoveClaim` |
| the gate of `CloudProvider.Create` | `ResolveNodeClass`, `EndCreate` |
| users, core, cloud, informer, restarts (external) | `CreateClass`, `EditSpec`, `DeleteClass`, `CreateClaim`, `CloudChanges`, `Notify`, `Restart` |

The three queries of a reconcile are one step: each reads what no other step of the model
writes except `CloudChanges`, which may change any of them.  A delayed requeue is a
queued request.  A status patch is a merge patch by name: it writes the parts that
differ between the copy that was read and the result (`Merged`), on whatever object has
the name by then.

| Run | Instance | Shows |
|---|---|---|
| `nodeclass_safety` | 1 claim, 1 class, an edit or a deletion, lag | a class that is Ready with empty lists is about to be reconciled again; a class that let a launch pass is not removed under it |
| `nodeclass_liveness` | 1 claim, 2 classes of one name, lag, 1 fault, only subnets | types; the status settles on what the selectors resolve to, across recreation; deletions end |
| `nodeclass_stale` | 1 class, lag | violation, see findings |

An answer or nothing for each query is enough to tell apart what a patch leaves out; one
claim to race with one termination; two classes for a patch to land on the wrong
one.  Edits, deletions and faults are explored one at a time, or in different runs (a
class whose spec was edited is deleted only while it has no finalizer, `DeleteUnedited`);
the proofs of `ClassKeptWhileUsed` and `ReadyIsRevisited` cover them together.  `CHECK_DEADLOCK FALSE` because the system rests when the class and its claims are gone.

Fairness: queued requests are taken, started reconciles go on, the informer catches up
and resyncs, and the cloud changes finitely often.  The resync is needed: when
nothing resolves no part asks for a requeue, and a subnet that appears later is
found only with the next event or resync (every ten hours by default).  Without
`WF_vars(Notify)` TLC refutes `StatusConverges`.

`Ready` with an empty list cannot be excluded (`nodeclass_stale`); what holds is that it
does not last: `ReadyIsRevisited` says that such a class is queued, being reconciled,
or changed in a way the cache will report.  It rests on the controllers' watches
having no predicate that filters status updates.

`ClassKeptWhileUsed` is claimed for one class per name.  With `MaxClasses = 2` it is
violated by a reconcile of the old class that patches the
new one: it may be Ready before it has a finalizer, launch, and be removed at once.

*Proofs* (`NodeClassLifecycleProofs`).  `TypeCorrect`, and `UsedClassIsKept`: for any claims,
edits, answers and faults, with or without lag, `MaxClasses = 1` implies
`ClassKeptWhileUsed`.  A class is removed by `TermUpdate`, or by `DeleteClass` when it has no
finalizer, so `KeptInv` says when these find it unused: `FinalizerHolds` (who saw the class
ready, or its finalizer, can rely on the finalizer), `DeletionHolds` (a deletion seen in
the cache is still true), `CondemnedIsUnused` (once finalize has read a deleting
class and no claims, no launch passes the gate, which reads the same cache) and
`NotCreated`, which starts the induction.

`FinalizeSparesUsedClasses` drops `MaxClasses = 1`: whatever the name is reused for,
a class *with the finalizer* is not removed under a launch (`FinalizerKeepsUsed`), so that
the one above is all that a reused name can do.  Copies are matched with the present class by
number instead: `CopiesAreOld` and `FinalizedIsUnused` speak of a class about to be finalized
only if it is still the present one.

`UnjustifiedReadyIsRevisited` is the theorem for `ReadyIsRevisited`, for all constants.  `RevisitInv`
says why a class that is Ready without its lists does not stay so: the cache is never
ahead of the object (`SeenIsNotAhead`); a running reconcile read the present class or
its cached copy, unless the cache is behind, another reconcile is queued or the class is
gone (`SyncIsCurrent`); a reconcile never computes an unjustified Ready itself
(`NewIsJustified`), only a merge with an older copy produces one; and when the cache has
caught up, a request is queued or the running reconcile read this very copy, whose patch then
leaves nothing out (`WillBeJustified`).

### InstanceTypeCache

`DefaultProvider.List` looks up four parts one after the other, on-demand types, spot
types, pod limits and the cluster record, and fetches and stores the ones that are not
cached.  `step`, `fetched` and `got` are what a running List has.  Data is the version of the
world that it tells of and the class it was fetched for: the inventory is asked for in
the zones of the class's subnets and of its NodeClaims, but cached under the former only.
The cloud answers from a cache of its own, hence with any version so far, unless
the request refreshes that (`Offered`).  Any List may step between
another's fetch and its store.

| Code | Actions |
|---|---|
| `List`, with the flush of `refresh` | `Start` |
| a hit, a miss and its request, an error, `SetDefault` | `Hit`, `Fetch`, `Fails`, `Store` |
| expiry (10 minutes), what the cloud sells (external) | `Tick`, `Change` |

`instancetypes` has two Lists, one of them the failure controller's,
which alone refreshes and runs one at a time (the proofs let every List refresh), and entries
of two ticks.  It is two searches in one.  Either the world changes once, for a
single class, with on-demand types alone stale in the cloud's cache: a List that flushes while
the other holds older data or fetches it afterwards, and an entry that expires between two
reads.  Or three classes, two of them with the same subnet zones, meet in a world that does
not change.  It shows

- that a refresh answers with nothing older than its flush except for a part that
  another List disturbed (`RefreshIsFresh`): it had fetched it and not stored it at the flush, or
  fetched it without a refresh before the refreshing List came to it;
- that the types and limits of an answer were asked for in the subnet zones of the class it is
  for (`SubnetsAreAskedFor`); the zones of NodeClaims may be those of another class;
- that an answer lacks at most the cluster record, which a List that fetches it does not use
  itself (`OnlyARecordIsMissing`);
- that old data stored late does not stay (`CacheCatchesUp`).

Fairness: a List that began goes on, time passes, and the cloud's own cache follows the
inventory once that stops changing.

*Proofs* (`InstanceTypeCacheProofs`, any Lists, classes, zones, lifetimes and versions):
`TypeCorrect`, `RefreshAnswersFresh`, `AnswersAreComplete` and `SubnetsAreAnswered`.  `Fresh`
extends `RefreshIsFresh` to the parts a List already has, the entries it may hit and
what other Lists may still store over them; `Complete` does the same for the parts passed, and
`ZonesFit` for what is fetched and cached under a key.

### LaunchDecision, Calculations and MCLaunch

`LaunchDecision` is `CloudProvider.Create` and the machine provider's `Create`: resolve,
filter, order, take the cheapest offering, find its zone and subnet, create the
Machine; a refusal blocks the offering.  A market is a set of offerings with prices; it
stands for all types that meet the claims' other requirements and fit their pods.

| Code | Definitions |
|---|---|
| `List`, `createOfferings`, `resolveInstanceTypes` | `Available`, `ID`, `Compatible`, `Resolved` |
| `filterInstanceTypes`, `filterUnwantedSpot`, `Truncate` with minValues | `Filtered`, `Enough` |
| `orderInstanceTypesByPrice`, `Cheapest` | `BestOfferings` |
| `Create` up to the request; its answer | `Launch`; `Accept`, `Reject` |
| blocks by the failure controller, expiry (external here) | `BlockedElsewhere`, `Expire` |

`ZoneIDs` has the table of regions and both functions; a name is the sequence of its
parts, and `ZonesFromID` gives every result that Go's random order of a map allows.
`Selectors` has the queries that subnets, groups and keys are asked for with, and the
union of their answers; IDs go by the index of their term, so that a list of terms
may name an ID twice.  `InstanceCapacity` has the arithmetic of capacity and overhead, and
the two conversions that were written by hand: the annotations that `Create` writes for each
field of a type (`Annotations`), and the resource that `machineToNodeClaim` reads
from each of them (`ReadFrom`), dropping zeros.  Memory is counted in thousandths of MiB and CPU in
thousandths of a core, so that every sum of the code is exact.

`Calculations` is one question put to these three, `Questions` being what may be asked; it
is where their properties are stated as invariants, and what the proofs are about.

`launch` launches a claim in some market; where nothing is sold and the claim has given up,
it puts one question to the calculations and stops.  Hence `CHECK_DEADLOCK FALSE`: a
claim that is launched stops too.

- *Markets*: up to two offerings of two types, both capacity types, and three zones, one of them
  of a region that the table lacks, or three offerings in the two known zones; all rankings of
  their prices.  Three is what it takes for `filterUnwantedSpot`: a spot offering, the
  on-demand one it is compared with, and another one to fall back to.  The claim asks for
  any zone or for a given one, the class has subnets there or in both known zones.  One claim is
  enough: others act on it through blocks alone, which `BlockedElsewhere` adds at any
  time.  One block may expire; without a bound refusals and expiries could alternate for
  ever.
- *Zones*: all regions of the table and one out of it, numbers around 0 and 1000.
- *Selectors*: up to eleven IDs, a batch boundary at five and at ten, with a term of tags,
  and answers on both sides of a page of six.
- *Capacity*: sizes around every level of the reservations and of kdump, servers before and after
  1.29, clusters with and without VPC-CNI, pod limits present, partial and absent.

It shows that a claim asks for a cheapest offering it may use but for one anomaly
(`CheapestIsTried`): `filterUnwantedSpot` compares with on-demand offerings that the
claim may not use, so that one of these may drop the cheapest offering the claim may
use.  A claim does not ask again for what it was refused while the block stands (`NoRepeat`),
filtering always leaves a type (`FilterLeavesAType`), and a claim ends launched or short of capacity
(`EveryClaimSettles`) with two exceptions that the property names: an offering in a zone
without a subnet or an identifier is tried for ever, since nothing blocks it, and a claim with
minValues may want more types than there are.  Zone names and identifiers lead back to
each other (`ZonesRoundTrip`); selectors find what they select as long as it fits a page
(`SelectorsFind`); more memory or CPU never leaves less to pods, although
kdump's third level applies to nothing (`CapacityGrows`); later servers reserve no more
(`ReservationShrinks`); a NodeClaim read back from a Machine has the capacity and
the allocatable of the type it was launched for, of each of ten resources, unless the claim's
own annotations name the resource (`ClaimsHaveTheirTypes`).

Fairness: core tries a claim again, and the API server answers.

*Proofs*.  `LaunchDecisionProofs`, for any market, zones and claims: `TypeCorrect`;
`RefusalsAreRemembered`, where the invariant says that what is refused is blocked, and
`NamesRoundTrip` (of `ZoneIDsProofs`) that it is blocked by the zone that `List` asks the blacklist
for; `FilterIsSafe` and `CheapestIsTaken`, which both rest on a set of prices having a
least one.

`CalculationsProofs`, for any questions of the kinds that `QuestionsAssumption` names:

- `ZonesComeBack`: any region, in the table or not, and any number up to 1000, from
  `ZoneGroupsAssumption` (bases at least 1000 apart), which TLC evaluates on the table.
- `SelectionsAreFound`: any terms, resources and conditions.  Every index lies in exactly one batch of at
  most five (`BatchesPartition`); the terms with an ID are counted without a gap
  (`IndexIsABijection`), so that the batches ask for every ID and no other (`NoIDIsLost`); a
  query that matches no more than a page is answered with all it matches
  (`PageHoldsAll`); and the queries of each kind ask for what the terms select.
- `BiggerNodesLeaveMore`: any size of node.  Sums over the levels have closed forms
  (`CpuTotals`, `MemoryTotals`); what is reserved is at most a quarter of the memory, and at most a
  quarter of what a step up adds, while a step up offers at least as much more
  whatever kdump's levels take.  The theorem needs that the hypervisor takes at most 652
  thousandths of the memory: beyond it a node of 1 GiB offers nothing at all.  The
  program's default is 75.
- `NewerServersReserveNoMore`: the two tables compared, for any size and any number of pods.
- `ClaimsKeepTheirTypes`: any size, disks, cluster, limits and annotations.  What a type has
  is written under the annotation that is read for it (`WrittenForAType`), with
  what the claim's annotations replace left aside; the reader finds each resource by itself and
  drops only what counts as zero anyway (`ReadAsWritten`, `ZerosDoNotCount`).

## Findings

- `lifecycle_slow_patch`: the comment of the garbage collector says instances are deleted
  by whether their claim exists.  The code goes by an annotation that core writes after
  the launch, as its cache showed it when the pass listed the claims, and looks at the age
  afterwards: a claim patched later than 30 seconds may lose its Machine, and so may one
  that is patched in time but after that list.
- `blacklist_recount`: a comment announces a block after more than 3 failures in one hour.
  A Machine that is still terminating when the next pass lists is counted
  again: one failed launch is enough.
- `blacklist_hour`: the same comment; each failure renews the hour of the whole count, so
  failures further apart than one hour add up.
- `nodeclass_stale`: the comment of the condition says Ready indicates that subnets and security
  groups were resolved.  A reconcile that read the class before its own last patch
  reached the cache leaves out of its patch what equals the old copy: a class may be
  Ready with an empty list until the next reconcile.

## What is proved and what is only checked

| Theorem | Holds for |
|---|---|
| `MachineLifecycleProofs`: `TypeCorrect`, `IDsNameOwnMachines`, `NoInstanceLeftBehind`, `FailureControllerTargets` | all constants |
| `LifecycleImplementsContract`, `ContractIsKept`, `CoreMayRelyOn`, `ActiveClaimsKeepTheirMachines` | all constants |
| `TimelyClaimsKeepTheirMachines` | `InTime` |
| `OfferingBlacklistProofs`: `TypeCorrect`, `BlockedInTheSamePass`, `CountingStops` | all constants, finitely many slots |
| `OfferingBlacklistHistoryProofs`: `BlocksHaveCauses` | all constants, finitely many slots |
| `NodeClassLifecycleProofs`: `TypeCorrect`, `UnjustifiedReadyIsRevisited`, `FinalizeSparesUsedClasses` | all constants |
| `UsedClassIsKept` | `MaxClasses = 1` |
| `InstanceTypeCacheProofs`: `TypeCorrect`, `RefreshAnswersFresh`, `AnswersAreComplete`, `SubnetsAreAnswered` | all constants |
| `LaunchDecisionProofs`: `TypeCorrect`, `RefusalsAreRemembered`, `FilterIsSafe`, `CheapestIsTaken` | all constants |
| `CalculationsProofs`: `ZonesComeBack` | the assumption on the table |
| `BatchesPartition`, `NoIDIsLost`, `SelectionsAreFound`, `NewerServersReserveNoMore`, `ClaimsKeepTheirTypes` | all constants |
| `BiggerNodesLeaveMore` | `VMMemoryOverhead <= 652` |

The assumptions are those named in the modules (`ConstantsAssumption`,
`BlacklistAssumption`, `NodeClassAssumption`, `CacheAssumption`, `UnknownAssumption`,
`ZoneGroupsAssumption`, `LaunchAssumption`, `SelectorAssumption`, `CapacityAssumption`,
`QuestionsAssumption`);
TLC evaluates them on the runs of their modules.

Every safety invariant and every property of single steps that a passing run checks is a theorem.
Only model-checked: the liveness properties, because the prover has no rule for fairness
or ENABLED (`OrphanCollected`, `FailedLaunchCleared`, `DeletedClaimFinalized`,
`InstanceReported`, `OfferingReturns`, `StockOutForgotten`, `FailuresAreTried`,
`StatusConverges`, `DeletionEnds`, `CacheCatchesUp`, `EveryClaimSettles`), and the
properties that the code violates, which are in the findings.

## Not modelled

- `controllers/nodeclaim/providerid/controller.go` is not registered by the program.
- Wiring, options and credentials (`operator`, `cmd`, `util`): they run once, before
  anything else, and hold no state afterwards.
- The API types (`apis`, `src/staging`).  Two thirds of the repository's lines are these
  types with their generated conversions, deep copies and documentation; the defaults among
  them run in TKE's API server.  They have no behaviour of their own here, which is also why
  the share of all lines that the models cover stays small.
- The configuration `Create` copies from the class into the Machine (disks, runtime,
  labels, taints): field by field, nothing depends on it.
- `computeRequirements`, beyond zone and capacity type, and the parameters of
  `NewInstanceType` that every caller passes as nil.
- Which item of the inventory a type is computed from, and whether its pod limits are known: the
  limits are asked for per zone and zones that do not support the query are skipped, so
  that this depends on the order of the cloud's answers.  `InstanceCapacity` takes the item and the
  limits, which may be absent, as they come.
- The resources that a claim's own annotations replace on the Machine (`MachineMetaAnnotations`):
  any value is modelled, and excepted from what is claimed.
- Metrics, events and logs.

Across modules: `MachineLifecycle` leaves out why a launch fails and which offering it
takes, which `LaunchDecision` covers for one launch at a time; `OfferingBlacklist` leaves
out who else deletes Machines and why; both leave out readiness, which
`NodeClassLifecycle` covers; `LaunchDecision` takes blocks and the market as they come.
Names of claims and Machines are never reused.

## Plan

1. `MachineLifecycle`, `NodeClaimContract` (done): core of the system, with proofs of its
   safety and of the refinement.
2. `OfferingBlacklist` (done): counts, blocks and the pass that writes them, with proofs.
3. `NodeClassLifecycle` (done): both controllers of a class and the gate of `Create`, with
   proofs.
4. `InstanceTypeCache` (done): concurrent Lists and their cache, with proofs.
5. `LaunchDecision`, `ZoneIDs`, `Selectors`, `InstanceCapacity` (done): the launch and its
   calculations, with proofs.

Open: nothing of the safety that the runs check.  Some theorems have a condition, named in
the table above.  Two of them stand for something the statement fails without:
delays beyond the 30 seconds (`lifecycle_slow_patch`), and a reused name that is Ready before it
has its finalizer.
