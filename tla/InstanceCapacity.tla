-------------------------- MODULE InstanceCapacity --------------------------
(***************************************************************************)
(* The capacity and the overhead of an instance type (NewInstanceType),    *)
(* and their way through the annotations of a Machine back to a NodeClaim  *)
(* (Create, machineToNodeClaim).                                           *)
(*                                                                         *)
(* Memory is in thousandths of MiB, CPU in thousandths of a core, storage  *)
(* in tenths of GB.  All callers pass no podsPerCore, kubeReserved,        *)
(* systemReserved and evictionHard; what the code does with them is left   *)
(* out, but for an empty systemReserved.  Floating point sums are exact    *)
(* here, and memory is not rounded up to a byte.                           *)
(***************************************************************************)
EXTENDS Integers, FiniteSetsExt, SequencesExt, TLC

CONSTANTS
  VMMemoryOverhead,  \* thousandths of the memory that the hypervisor takes
  None               \* no limits

ASSUME CapacityAssumption == VMMemoryOverhead \in 0..999

Top == 2147483647   \* upper end of a last level
MiB == 1000

\* The entries of f, and those of g that f lacks.
Over(f, g) == [k \in DOMAIN f \cup DOMAIN g |-> IF k \in DOMAIN f THEN f[k] ELSE g[k]]

Level(low, high, base, fact) == [low |-> low, high |-> high, base |-> base, fact |-> fact]

LevelEval(l, x) ==
  IF x < l.low THEN 0
  ELSE ((IF x < l.high THEN x ELSE l.high) - l.low) * l.fact + l.base

\* All levels add up; a table has four of them or five.  Factors are scaled up
\* by scale.
Eval(levels, x, scale) ==
  (LevelEval(levels[1], x) + LevelEval(levels[2], x) + LevelEval(levels[3], x)
     + LevelEval(levels[4], x) + (IF 5 \in DOMAIN levels THEN LevelEval(levels[5], x) ELSE 0))
    \div scale

\* The second level reserves 2 GiB.
FaultyKdump(mib) ==
  CASE mib >= 1800 /\ mib < 65536 -> 256
    [] mib >= 65536 /\ mib < 131072 -> 2048
    [] OTHER -> 0

\* KdumpLevels: the third level ends at MaxInt32 bytes, before it begins, and
\* applies to nothing.
Kdump(mib) ==
  CASE mib >= 1800 /\ mib < 65536 -> 256
    [] mib >= 65536 /\ mib < 131072 -> 512
    [] mib >= 131072 /\ mib < 2048 -> 768
    [] OTHER -> 0

memory(gb) == (gb * 1024 - Kdump(gb * 1024)) * (1000 - VMMemoryOverhead)

LegacyMemory(gb) ==
  MiB * Eval(<<Level(0, 4, 0, 25600), Level(4, 8, 0, 20480), Level(8, 16, 0, 10240),
               Level(16, 128, 0, 6144), Level(128, Top, 0, 2048)>>, gb, 100)

CpuLevels ==
  <<Level(0, 1000, 600000, 0), Level(1000, 2000, 0, 100), Level(2000, 4000, 0, 50),
    Level(4000, Top, 0, 25)>>

LegacyCpuLevels ==
  <<Level(0, 4000, 1000000, 0), Level(4000, 64000, 0, 250), Level(64000, 128000, 0, 125),
    Level(128000, Top, 0, 50)>>

\* The newer formula alone.
FaultyKubeReserved(newer, cpus, pods, gb) ==
  [memory |-> IF newer THEN MiB * (20 * pods + 256) ELSE LegacyMemory(gb),
   cpu |-> Eval(IF newer THEN CpuLevels ELSE LegacyCpuLevels, 1000 * cpus, 10000)]

\* newer: the server is later than 1.29.
kubeReservedResources(newer, cpus, pods, gb) ==
  LET byPods == MiB * (20 * pods + 256) IN
  [memory |-> IF newer /\ byPods <= LegacyMemory(gb) THEN byPods ELSE LegacyMemory(gb),
   cpu |-> Eval(IF newer THEN CpuLevels ELSE LegacyCpuLevels, 1000 * cpus, 10000)]

evictionThreshold(storageInGB) == [memory |-> 100 * MiB, storage |-> storageInGB]

\* maxPods of the cluster, 0 if it does not apply.
MaxPods(cluster) ==
  IF cluster # None /\ ~cluster.vpcCNI /\ cluster.maxNodePodNum > 3
  THEN cluster.maxNodePodNum - 3 ELSE 0

\* Pod limits are dropped in a cluster without VPC-CNI.
UsedLimits(cluster, limits) ==
  IF cluster # None /\ ~cluster.vpcCNI /\ ~cluster.vpcCNIAdded THEN None ELSE limits

\* limits: None when the zone has no list, having no subnet or answering that it
\* is not supported; of a type, the fields that its list
\* gives of eniip, directeni and subeni; nothing when the list lacks the type.
pods(maxPods, limits) ==
  LET eniip == IF limits # None /\ "eniip" \in DOMAIN limits THEN limits.eniip ELSE 0
  IN  CASE maxPods > 0 -> maxPods
        [] maxPods = 0 /\ eniip > 0 -> IF eniip < 61 THEN 61 ELSE eniip
        [] OTHER -> 110

eip(cpus) == IF cpus >= 48 THEN 9 ELSE cpus \div 6 + 1

\* eni, computeCapacity: resources that only some types have.
ENIResources(item, limits) ==
  IF limits = None THEN <<>>
  ELSE Over([eip |-> eip(item.cpus)],
            Over(limits, IF "directeni" \in DOMAIN limits THEN [eni |-> limits.directeni] ELSE <<>>))

computeCapacity(item, storageInGB, maxPods, limits) ==
  Over([cpu |-> 1000 * item.cpus, memory |-> memory(item.gb), storage |-> 10 * storageInGB,
        pods |-> pods(maxPods, limits)],
       Over(ENIResources(item, limits), IF item.gpus > 0 THEN [gpu |-> item.gpus] ELSE <<>>))

NewInstanceType(item, storageInGB, newer, cluster, limits) ==
  LET capacity == computeCapacity(item, storageInGB, MaxPods(cluster), UsedLimits(cluster, limits))
  IN  [capacity       |-> capacity,
       kubeReserved   |-> kubeReservedResources(newer, item.cpus, capacity.pods, item.gb),
       systemReserved |-> <<>>,
       eviction       |-> evictionThreshold(storageInGB)]

\* The quantity of a resource, zero where the list lacks it.
Amount(list, resource) == IF resource \in DOMAIN list THEN list[resource] ELSE 0

\* Upstream's Allocatable, of a resource that the type has.
Allocatable(type, resource) ==
  type.capacity[resource] - Amount(type.kubeReserved, resource)
    - Amount(type.systemReserved, resource) - Amount(type.eviction, resource)

\* Room for pods' files: what is left of the system disk, or of the last data
\* disk mounted where they live.
StorageInGB(systemDisk, dataDisks) ==
  LET used == SelectSeq(dataDisks, LAMBDA d : d.holdsPods)
      size == IF used = <<>> THEN systemDisk - 15 ELSE Last(used).size - 5
  IN  IF size < 0 THEN 0 ELSE size

-----------------------------------------------------------------------------
(* The way through the Machine's annotations, by hand on both sides: the   *)
(* writer names the resource that each annotation carries, the reader the  *)
(* annotation that each resource is read from.                             *)

Groups == {"capacity", "kubeReserved", "systemReserved", "eviction"}

\* What list gives of the entries that table names.
Carry(list, table) ==
  [n \in {m \in DOMAIN table : table[m] \in DOMAIN list} |-> list[table[n]]]

Nonzero(list) == [r \in {q \in DOMAIN list : list[q] # 0} |-> list[r]]

\* The annotations that Create writes, by group.  Some are always written, some
\* only for what the type has; storage that is reserved for Kubernetes, which no
\* type has, would land under the memory.
Annotations(type) ==
  LET c == type.capacity
      k == type.kubeReserved
  IN  [capacity |->
         Over([CPU |-> c.cpu, Memory |-> c.memory, Pods |-> c.pods, EphemeralStorage |-> c.storage],
              Carry(c, [ENIIP |-> "eniip", DirectENI |-> "directeni", ENI |-> "eni",
                        SubENI |-> "subeni", EIP |-> "eip", GPUCount |-> "gpu"])),
       kubeReserved |->
         [CPU |-> Amount(k, "cpu"),
          Memory |-> IF Amount(k, "storage") # 0 THEN k.storage ELSE Amount(k, "memory")],
       systemReserved |->
         Carry(Nonzero(type.systemReserved),
               [CPU |-> "cpu", Memory |-> "memory", EphemeralStorage |-> "storage"]),
       eviction |->
         [Memory |-> Amount(type.eviction, "memory"),
          EphemeralStorage |-> Amount(type.eviction, "storage")]]

\* The claim's MachineMetaAnnotations come last and may replace any of them.
Annotate(type, meta) == [g \in Groups |-> Over(meta[g], Annotations(type)[g])]

\* The annotation of each resource, the same in every group.
ReadFrom ==
  [cpu |-> "CPU", memory |-> "Memory", pods |-> "Pods", storage |-> "EphemeralStorage",
   eniip |-> "ENIIP", directeni |-> "DirectENI", eni |-> "ENI", subeni |-> "SubENI",
   eip |-> "EIP", gpu |-> "GPUCount"]

\* The annotation of the network interfaces is read for those of the sub-interfaces.
FaultyResourceList(annotations) ==
  Carry(annotations, [ReadFrom EXCEPT !.subeni = "ENI"])

\* resourceListFromAnnotations, for the annotations of a group.
ResourceList(annotations) == Carry(annotations, ReadFrom)

\* resolveMachineToInstanceType fails without CPU or memory.
Resolves(annotations) == {"cpu", "memory"} \subseteq DOMAIN ResourceList(annotations.capacity)

\* What the NodeClaim says of the node: nothing of a resource that is zero.
machineToNodeClaim(annotations) ==
  LET type == [g \in Groups |-> ResourceList(annotations[g])] IN
  [capacity    |-> Nonzero(type.capacity),
   allocatable |-> Nonzero([r \in DOMAIN type.capacity |-> Allocatable(type, r)])]

-----------------------------------------------------------------------------
(* Properties.                                                             *)

\* More memory or CPU never leaves less of it to pods, across every level of
\* the reservations and the kdump levels, and always leaves some (memory,
\* kubeReservedResources, evictionThreshold).
BiggerIsNoSmaller(item, storageInGB, newer, cluster, limits) ==
  LET type(i) == NewInstanceType(i, storageInGB, newer, cluster, limits)
      more == [item EXCEPT !.gb = @ + 1]
      wider == [item EXCEPT !.cpus = @ + 1]
  IN  /\ Allocatable(type(item), "memory") > 0 /\ Allocatable(type(item), "cpu") > 0
      /\ Allocatable(type(more), "memory") >= Allocatable(type(item), "memory")
      /\ Allocatable(type(wider), "cpu") >= Allocatable(type(item), "cpu")

\* Later servers reserve no more than earlier ones, on any size with any number
\* of pods (kubeReservedResources, the version branch).
NewerReservesNoMore(cpus, count, gb) ==
  \A r \in {"memory", "cpu"} :
    kubeReservedResources(TRUE, cpus, count, gb)[r] <= kubeReservedResources(FALSE, cpus, count, gb)[r]

\* The NodeClaim read back from a Machine promises pods what the type did that
\* the Machine was launched for: the same capacity and the same allocatable of
\* each of the ten resources, after a reader and a writer that were written
\* field by field.  Resources that the claim's own annotations name are excepted
\* (Create, machineToNodeClaim).
ClaimHasItsType(type, meta) ==
  LET claim == machineToNodeClaim(Annotate(type, meta))
      unnamed == {r \in DOMAIN ReadFrom : \A g \in Groups : ReadFrom[r] \notin DOMAIN meta[g]}
  IN  /\ Resolves(Annotate(type, meta))
      /\ \A r \in unnamed :
           /\ Amount(claim.capacity, r) = Amount(type.capacity, r)
           /\ Amount(claim.allocatable, r)
                = IF r \in DOMAIN type.capacity THEN Allocatable(type, r) ELSE 0
=============================================================================
