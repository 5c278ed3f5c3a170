------------------------- MODULE CalculationsProofs --------------------------
(***************************************************************************)
(* Proofs about Calculations, for any questions: any regions, any number   *)
(* of IDs and tags, any sizes of nodes and any limits.                     *)
(***************************************************************************)
EXTENDS Calculations, ZoneIDsProofs, FiniteSetTheorems

AskedInv == question \in Questions \cup {None}

LEMMA Asked == CalculationsSpec => []AskedInv
<1>1. Unasked => AskedInv
  BY DEF Unasked, AskedInv
<1>2. AskedInv /\ [Ask]_question => AskedInv'
  BY DEF AskedInv, Ask, Unasked
<1> QED
  BY <1>1, <1>2, PTL DEF CalculationsSpec

\* What is asked is of its kind.
LEMMA QuestionKinds ==
  ASSUME AskedInv
  PROVE  /\ About("zone") => ZoneQuestion(question)
         /\ About("selector") => SelectorQuestion(question)
         /\ About("capacity") => CapacityQuestion(question)
BY QuestionsAssumption
   DEF AskedInv, About, ZoneQuestion, SelectorQuestion, CapacityQuestion

-----------------------------------------------------------------------------
\* Zone names survive the way through their identifiers, for every region of
\* two or three words, in the table or not (IDFromZone, ZoneFromID).
THEOREM ZonesComeBack == CalculationsSpec => []ZonesRoundTrip
<1>1. AskedInv => ZonesRoundTrip
  <2> SUFFICES ASSUME AskedInv, About("zone")
               PROVE  RoundTrips(question.region, question.number)
    BY DEF ZonesRoundTrip
  <2> DEFINE region == question.region
             number == question.number
             Numbers == 0..1000
  <2>1. /\ region \in Seq(STRING) /\ Len(region) \in {2, 3}
        /\ number \in Numbers
    BY QuestionKinds DEF ZoneQuestion
  <2>2. \A r \in Seq(STRING), n \in Numbers : Len(r) \in {2, 3} => RoundTrips(r, n)
    BY NamesRoundTrip
  <2> HIDE DEF region, number, Numbers
  <2>3. RoundTrips(region, number)
    BY <2>1, <2>2, Zenon
  <2> QED
    BY <2>3 DEF region, number
<1> QED
  BY <1>1, Asked, PTL

-----------------------------------------------------------------------------
(* Capacity and overhead.                                                  *)

\* What the levels of a table add up to for n cores: they follow each other
\* without a gap.
UpTo(n, m) == IF 1000 * n < m THEN 1000 * n ELSE m
CpuTotal(n) ==
  600000 + 100 * (UpTo(n, 2000) - 1000)
    + (IF n < 2 THEN 0 ELSE 50 * (UpTo(n, 4000) - 2000))
    + (IF n < 4 THEN 0 ELSE 25 * (UpTo(n, Top) - 4000))
LegacyCpuTotal(n) ==
  1000000 + (IF n < 4 THEN 0 ELSE 250 * (UpTo(n, 64000) - 4000))
    + (IF n < 64 THEN 0 ELSE 125 * (UpTo(n, 128000) - 64000))
    + (IF n < 128 THEN 0 ELSE 50 * (UpTo(n, Top) - 128000))

LEMMA CpuTotals ==
  ASSUME NEW n \in Nat \ {0}
  PROVE  /\ Eval(CpuLevels, 1000 * n, 10000) = CpuTotal(n) \div 10000
         /\ Eval(LegacyCpuLevels, 1000 * n, 10000) = LegacyCpuTotal(n) \div 10000
<1>1. /\ 5 \notin DOMAIN CpuLevels
      /\ CpuLevels[1] = Level(0, 1000, 600000, 0) /\ CpuLevels[2] = Level(1000, 2000, 0, 100)
      /\ CpuLevels[3] = Level(2000, 4000, 0, 50) /\ CpuLevels[4] = Level(4000, Top, 0, 25)
  BY SMT DEF CpuLevels
<1>2. /\ 5 \notin DOMAIN LegacyCpuLevels
      /\ LegacyCpuLevels[1] = Level(0, 4000, 1000000, 0)
      /\ LegacyCpuLevels[2] = Level(4000, 64000, 0, 250)
      /\ LegacyCpuLevels[3] = Level(64000, 128000, 0, 125)
      /\ LegacyCpuLevels[4] = Level(128000, Top, 0, 50)
  BY SMT DEF LegacyCpuLevels
<1>3. /\ LevelEval(CpuLevels[1], 1000 * n) = 600000
      /\ LevelEval(CpuLevels[2], 1000 * n)
           = 100 * ((IF 1000 * n < 2000 THEN 1000 * n ELSE 2000) - 1000)
      /\ LevelEval(CpuLevels[3], 1000 * n)
           = IF n < 2 THEN 0 ELSE 50 * ((IF 1000 * n < 4000 THEN 1000 * n ELSE 4000) - 2000)
      /\ LevelEval(CpuLevels[4], 1000 * n)
           = IF n < 4 THEN 0 ELSE 25 * ((IF 1000 * n < Top THEN 1000 * n ELSE Top) - 4000)
  BY <1>1, SMT DEF Top, LevelEval, Level
<1>4. /\ LevelEval(LegacyCpuLevels[1], 1000 * n) = 1000000
      /\ LevelEval(LegacyCpuLevels[2], 1000 * n)
           = IF n < 4 THEN 0 ELSE 250 * ((IF 1000 * n < 64000 THEN 1000 * n ELSE 64000) - 4000)
      /\ LevelEval(LegacyCpuLevels[3], 1000 * n)
           = IF n < 64 THEN 0 ELSE 125 * ((IF 1000 * n < 128000 THEN 1000 * n ELSE 128000) - 64000)
      /\ LevelEval(LegacyCpuLevels[4], 1000 * n)
           = IF n < 128 THEN 0 ELSE 50 * ((IF 1000 * n < Top THEN 1000 * n ELSE Top) - 128000)
  BY <1>2, SMT DEF Top, LevelEval, Level
<1> QED
  BY <1>1, <1>2, <1>3, <1>4, SMT DEF Eval, Top, CpuTotal, LegacyCpuTotal, UpTo

\* The CPU that is reserved of a node, by either table.
LEMMA CpuReserved ==
  ASSUME NEW n \in Nat \ {0}, NEW levels \in {CpuLevels, LegacyCpuLevels}
  PROVE  /\ Eval(levels, 1000 * n, 10000) \in Int
         /\ Eval(levels, 1000 * n, 10000) < 1000 * n
         /\ Eval(levels, 1000 * (n + 1), 10000) \in Int
         /\ Eval(levels, 1000 * (n + 1), 10000) <= Eval(levels, 1000 * n, 10000) + 1000
         /\ Eval(CpuLevels, 1000 * n, 10000) <= Eval(LegacyCpuLevels, 1000 * n, 10000)
<1>1. n + 1 \in Nat \ {0}
  OBVIOUS
<1>2. \A k \in {n, n + 1} :
        /\ Eval(CpuLevels, 1000 * k, 10000) = CpuTotal(k) \div 10000
        /\ Eval(LegacyCpuLevels, 1000 * k, 10000) = LegacyCpuTotal(k) \div 10000
  BY <1>1, CpuTotals, SMT
<1>3. /\ CpuTotal(n) \in 600000..10000000 * n - 1
      /\ CpuTotal(n + 1) \in CpuTotal(n)..CpuTotal(n) + 10000000
  BY SMT DEF CpuTotal, UpTo, Top
<1>4. /\ LegacyCpuTotal(n) \in CpuTotal(n)..10000000 * n - 1
      /\ LegacyCpuTotal(n + 1) \in LegacyCpuTotal(n)..LegacyCpuTotal(n) + 10000000
  BY SMT DEF CpuTotal, LegacyCpuTotal, UpTo, Top
<1>5. ASSUME NEW a \in Int
      PROVE  /\ a \div 10000 \in Int
             /\ 10000 * (a \div 10000) <= a /\ a < 10000 * (a \div 10000) + 10000
  BY SMT
<1>6. ASSUME NEW a \in Int, NEW b \in Int, b \in a..a + 10000000
      PROVE  /\ a \div 10000 \in Int /\ b \div 10000 \in Int
             /\ a \div 10000 <= b \div 10000 /\ b \div 10000 <= a \div 10000 + 1000
  <2> DEFINE i == a \div 10000
             j == b \div 10000
  <2>1. /\ i \in Int /\ j \in Int /\ 10000 * i <= a /\ a < 10000 * i + 10000
        /\ 10000 * j <= b /\ b < 10000 * j + 10000 /\ a <= b /\ b <= a + 10000000
    BY <1>5, <1>6, SMT
  <2> HIDE DEF i, j
  <2>2. i <= j /\ j <= i + 1000
    BY <2>1, SMT
  <2> QED
    BY <2>1, <2>2, SMT DEF i, j
<1>7. ASSUME NEW a \in Int, a <= 10000000 * n - 1
      PROVE  a \div 10000 < 1000 * n
  <2> DEFINE i == a \div 10000
  <2>1. i \in Int /\ 10000 * i <= 10000000 * n - 1
    BY <1>5, <1>7, SMT
  <2> HIDE DEF i
  <2>2. i < 1000 * n
    BY <2>1, SMT
  <2> QED
    BY <2>2, SMT DEF i
<1>8. CASE levels = CpuLevels
  BY <1>2, <1>3, <1>4, <1>6, <1>7, <1>8, SMT
<1>9. CASE levels = LegacyCpuLevels
  BY <1>2, <1>3, <1>4, <1>6, <1>7, <1>9, SMT
<1> QED
  BY <1>8, <1>9, SMT

\* What the levels of memory add up to for gb GiB.
UpToGiB(gb, m) == IF gb < m THEN gb ELSE m
MemoryTotal(gb) ==
  25600 * UpToGiB(gb, 4)
    + (IF gb < 4 THEN 0 ELSE 20480 * (UpToGiB(gb, 8) - 4))
    + (IF gb < 8 THEN 0 ELSE 10240 * (UpToGiB(gb, 16) - 8))
    + (IF gb < 16 THEN 0 ELSE 6144 * (UpToGiB(gb, 128) - 16))
    + (IF gb < 128 THEN 0 ELSE 2048 * (UpToGiB(gb, Top) - 128))

LEMMA MemoryTotals ==
  ASSUME NEW gb \in Nat
  PROVE  LegacyMemory(gb) = MiB * (MemoryTotal(gb) \div 100)
<1> DEFINE levels == <<Level(0, 4, 0, 25600), Level(4, 8, 0, 20480), Level(8, 16, 0, 10240),
                       Level(16, 128, 0, 6144), Level(128, Top, 0, 2048)>>
<1>1. /\ 5 \in DOMAIN levels
      /\ levels[1] = Level(0, 4, 0, 25600) /\ levels[2] = Level(4, 8, 0, 20480)
      /\ levels[3] = Level(8, 16, 0, 10240) /\ levels[4] = Level(16, 128, 0, 6144)
      /\ levels[5] = Level(128, Top, 0, 2048)
  BY SMT
<1>2. LegacyMemory(gb) = MiB * Eval(levels, gb, 100)
  BY SMT DEF LegacyMemory
<1> HIDE DEF levels
<1>3. /\ LevelEval(levels[1], gb) = 25600 * UpToGiB(gb, 4)
      /\ LevelEval(levels[2], gb) = IF gb < 4 THEN 0 ELSE 20480 * (UpToGiB(gb, 8) - 4)
      /\ LevelEval(levels[3], gb) = IF gb < 8 THEN 0 ELSE 10240 * (UpToGiB(gb, 16) - 8)
      /\ LevelEval(levels[4], gb) = IF gb < 16 THEN 0 ELSE 6144 * (UpToGiB(gb, 128) - 16)
      /\ LevelEval(levels[5], gb) = IF gb < 128 THEN 0 ELSE 2048 * (UpToGiB(gb, Top) - 128)
  BY <1>1, SMT DEF Top, LevelEval, Level, UpToGiB
<1> QED
  BY <1>1, <1>2, <1>3, SMT DEF Eval, MemoryTotal

\* The memory that is reserved of a node by its size: at most a quarter, and
\* at most a quarter of what is added.
LEMMA MemoryReserved ==
  ASSUME NEW gb \in Nat
  PROVE  /\ LegacyMemory(gb) \in Int /\ LegacyMemory(gb) <= 256000 * gb
         /\ LegacyMemory(gb + 1) \in Int /\ LegacyMemory(gb) <= LegacyMemory(gb + 1)
         /\ LegacyMemory(gb + 1) <= LegacyMemory(gb) + 256000
<1> DEFINE a == MemoryTotal(gb)
           b == MemoryTotal(gb + 1)
           i == a \div 100
           j == b \div 100
<1>1. /\ LegacyMemory(gb) = 1000 * i
      /\ LegacyMemory(gb + 1) = 1000 * j
  BY MemoryTotals, SMT DEF MiB
<1>2. /\ a \in Int /\ a <= 25600 * gb
      /\ b \in Int /\ a <= b /\ b <= a + 25600
  BY SMT DEF MemoryTotal, UpToGiB, Top
<1> HIDE DEF a, b
<1>3. /\ i \in Int /\ j \in Int /\ 100 * i <= a /\ a < 100 * i + 100
      /\ 100 * j <= b /\ b < 100 * j + 100
  BY <1>2, SMT
<1> HIDE DEF i, j
<1>4. i <= 256 * gb /\ i <= j /\ j <= i + 256
  BY <1>2, <1>3, SMT
<1> QED
  BY <1>1, <1>3, <1>4, SMT

\* The memory of a node exceeds a quarter of its size by the 100 MiB kept for
\* evictions, and grows by more than a quarter of what is added: a step of the
\* kdump levels takes no more than 256 MiB of it.
MemorySuffices(gb) ==
  /\ memory(gb) \in Nat /\ memory(gb) > 256000 * gb + 100000
  /\ memory(gb + 1) \in Nat /\ memory(gb + 1) >= memory(gb) + 256000

LEMMA MemoryOffered ==
  ASSUME NEW gb \in Nat \ {0}, VMMemoryOverhead <= 652
  PROVE  MemorySuffices(gb)
<1> DEFINE left(g) == g * 1024 - Kdump(g * 1024)
           rate == 1000 - VMMemoryOverhead
           d == left(gb + 1) - left(gb)
<1>1. rate \in 348..1000
  BY CapacityAssumption
<1>2. /\ left(gb) \in Nat /\ left(gb + 1) \in Nat /\ d \in Nat /\ d >= 768
      /\ 348 * left(gb) > 256000 * gb + 100000
  BY DEF Kdump
<1>3. memory(gb) = left(gb) * rate /\ memory(gb + 1) = left(gb + 1) * rate
  BY DEF memory
<1> HIDE DEF left, rate
<1>4. ASSUME NEW a \in Nat, NEW b \in 348..1000
      PROVE  a * b >= 348 * a /\ a * b \in Nat
  <2>1. b - 348 \in Nat /\ a * (b - 348) \in Nat /\ a * (b - 348) = a * b - 348 * a
    OBVIOUS
  <2> QED
    BY <2>1
<1>5. left(gb + 1) * rate = left(gb) * rate + d * rate
  BY <1>1, <1>2
<1> HIDE DEF d
<1>6. /\ d * rate >= 348 * d /\ d * rate \in Nat
      /\ left(gb) * rate >= 348 * left(gb) /\ left(gb) * rate \in Nat
  BY <1>1, <1>2, <1>4
<1> QED
  BY <1>2, <1>3, <1>5, <1>6 DEF MemorySuffices

\* What one map adds to another leaves the entries of the other.
LEMMA OverKeeps ==
  ASSUME NEW f, NEW g
  PROVE  DOMAIN Over(f, g) = DOMAIN f \cup DOMAIN g /\ \A k \in DOMAIN f : Over(f, g)[k] = f[k]
BY DEF Over

\* The fields of a type that every item gives it.
IsTypeOf(type, item, storageInGB, newer, count) ==
  /\ {"cpu", "memory", "storage", "pods"} \subseteq DOMAIN type.capacity
  /\ type.capacity.cpu = 1000 * item.cpus /\ type.capacity.memory = memory(item.gb)
  /\ type.kubeReserved = kubeReservedResources(newer, item.cpus, count, item.gb)
  /\ type.systemReserved = <<>>
  /\ type.eviction = evictionThreshold(storageInGB)

LEMMA TypeFields ==
  ASSUME NEW item, NEW storageInGB, NEW newer, NEW cluster, NEW limits
  PROVE  IsTypeOf(NewInstanceType(item, storageInGB, newer, cluster, limits),
                  item, storageInGB, newer, pods(MaxPods(cluster), UsedLimits(cluster, limits)))
<1> DEFINE type == NewInstanceType(item, storageInGB, newer, cluster, limits)
           used == UsedLimits(cluster, limits)
           n == pods(MaxPods(cluster), used)
           capacity == computeCapacity(item, storageInGB, MaxPods(cluster), used)
           reserved == kubeReservedResources(newer, item.cpus, capacity.pods, item.gb)
           eviction == evictionThreshold(storageInGB)
           own == [cpu |-> 1000 * item.cpus, memory |-> memory(item.gb),
                   storage |-> 10 * storageInGB, pods |-> n]
           rest == Over(ENIResources(item, used),
                        IF item.gpus > 0 THEN [gpu |-> item.gpus] ELSE <<>>)
<1>1. type = [capacity |-> capacity, kubeReserved |-> reserved, systemReserved |-> <<>>,
              eviction |-> eviction]
  BY Zenon DEF NewInstanceType
<1>2. capacity = Over(own, rest)
  BY Zenon DEF computeCapacity
<1>3. /\ DOMAIN own = {"cpu", "memory", "storage", "pods"}
      /\ own["cpu"] = 1000 * item.cpus /\ own["memory"] = memory(item.gb) /\ own["pods"] = n
  OBVIOUS
<1>4. reserved = kubeReservedResources(newer, item.cpus, capacity.pods, item.gb)
  OBVIOUS
<1> HIDE DEF own, rest, capacity, n, reserved, type, eviction
<1>5. /\ DOMAIN own \subseteq DOMAIN capacity
      /\ \A k \in DOMAIN own : capacity[k] = own[k]
  BY <1>2, OverKeeps
<1>6. /\ capacity["cpu"] = 1000 * item.cpus /\ capacity["memory"] = memory(item.gb)
      /\ capacity["pods"] = n
  BY <1>3, <1>5
<1>7. /\ type.capacity = capacity /\ type.kubeReserved = reserved
      /\ type.systemReserved = <<>> /\ type.eviction = eviction
  BY <1>1
<1> QED
  BY <1>3, <1>4, <1>5, <1>6, <1>7 DEF type, n, eviction, IsTypeOf

-----------------------------------------------------------------------------
(* The reservation of the newer servers.                                   *)

\* A later server reserves no more of any node, with any number of pods: the
\* formula by pods only applies below the levels, and each level of CPU is
\* lower (kubeReservedResources, the version branch).
THEOREM NewerServersReserveNoMore == CalculationsSpec => []ReservationShrinks
<1>1. ASSUME NEW cpus \in Nat \ {0}, NEW count, NEW gb \in Nat \ {0}
      PROVE  NewerReservesNoMore(cpus, count, gb)
  <2> DEFINE new == kubeReservedResources(TRUE, cpus, count, gb)
             old == kubeReservedResources(FALSE, cpus, count, gb)
  <2>1. LegacyMemory(gb) \in Int
    BY MemoryReserved
  <2>2. /\ old["memory"] = LegacyMemory(gb)
        /\ new["memory"] = LegacyMemory(gb) \/ new["memory"] <= LegacyMemory(gb)
    BY SMT DEF kubeReservedResources
  <2>3. /\ new["cpu"] = Eval(CpuLevels, 1000 * cpus, 10000)
        /\ old["cpu"] = Eval(LegacyCpuLevels, 1000 * cpus, 10000)
    BY SMT DEF kubeReservedResources
  <2>4. Eval(CpuLevels, 1000 * cpus, 10000) <= Eval(LegacyCpuLevels, 1000 * cpus, 10000)
    BY CpuReserved, SMT
  <2> HIDE DEF new, old
  <2>5. new["memory"] <= old["memory"] /\ new["cpu"] <= old["cpu"]
    BY <2>1, <2>2, <2>3, <2>4, SMT
  <2>6. \A r \in {"memory", "cpu"} : new[r] <= old[r]
    BY <2>5
  <2> QED
    BY <2>6, Zenon DEF NewerReservesNoMore, new, old
<1>2. AskedInv => ReservationShrinks
  <2> SUFFICES ASSUME AskedInv, About("capacity")
               PROVE  ReservationShrinks
    BY DEF ReservationShrinks
  <2>1. question.item.cpus \in Nat \ {0} /\ question.item.gb \in Nat \ {0}
    BY QuestionKinds DEF CapacityQuestion
  <2> QED
    BY <1>1, <2>1, Zenon DEF ReservationShrinks
<1> QED
  BY <1>2, Asked, PTL

-----------------------------------------------------------------------------
(* What is left to pods.                                                   *)

\* The pods of a node are a number.
LEMMA PodsAreANumber ==
  ASSUME NEW q, CapacityQuestion(q)
  PROVE  pods(MaxPods(q.cluster), UsedLimits(q.cluster, q.limits)) \in Nat
<1> DEFINE maxPods == MaxPods(q.cluster)
           limits == UsedLimits(q.cluster, q.limits)
           eniip == IF limits # None /\ "eniip" \in DOMAIN limits THEN limits["eniip"] ELSE 0
<1>1. maxPods \in Nat
  BY DEF MaxPods, CapacityQuestion
<1>2. limits \in {None, q.limits}
  BY DEF UsedLimits
<1>3. eniip \in Nat
  <2> HIDE DEF limits
  <2> QED
    BY <1>2 DEF CapacityQuestion
<1>4. pods(maxPods, limits)
        = CASE maxPods > 0 -> maxPods
            [] maxPods = 0 /\ eniip > 0 -> IF eniip < 61 THEN 61 ELSE eniip
            [] OTHER -> 110
  BY Zenon DEF pods
<1> HIDE DEF maxPods, limits, eniip
<1>5. pods(maxPods, limits) \in Nat
  BY <1>1, <1>3, <1>4
<1> QED
  BY <1>5 DEF maxPods, limits

\* What a type leaves to pods.
LEMMA Left ==
  ASSUME NEW type, NEW item, NEW storageInGB, NEW newer, NEW count,
         IsTypeOf(type, item, storageInGB, newer, count)
  PROVE  /\ Allocatable(type, "memory")
              = memory(item.gb)
                  - kubeReservedResources(newer, item.cpus, count, item.gb).memory - 0 - 100 * MiB
         /\ Allocatable(type, "cpu")
              = 1000 * item.cpus - kubeReservedResources(newer, item.cpus, count, item.gb).cpu - 0 - 0
<1> DEFINE reserved == kubeReservedResources(newer, item.cpus, count, item.gb)
           eviction == evictionThreshold(storageInGB)
<1>1. "memory" \in DOMAIN reserved /\ "cpu" \in DOMAIN reserved
  BY SMT DEF kubeReservedResources
<1>2. "memory" \in DOMAIN eviction /\ "cpu" \notin DOMAIN eviction /\ eviction["memory"] = 100 * MiB
  BY SMT DEF evictionThreshold
<1> HIDE DEF reserved, eviction
<1>3. /\ type.capacity["cpu"] = 1000 * item.cpus /\ type.capacity["memory"] = memory(item.gb)
      /\ type.kubeReserved = reserved /\ type.systemReserved = <<>> /\ type.eviction = eviction
  BY SMT DEF IsTypeOf, reserved, eviction
<1>4. /\ \A r : Amount(type.systemReserved, r) = 0
      /\ Amount(type.kubeReserved, "memory") = reserved["memory"]
      /\ Amount(type.kubeReserved, "cpu") = reserved["cpu"]
      /\ Amount(type.eviction, "memory") = 100 * MiB /\ Amount(type.eviction, "cpu") = 0
  <2>1. \A r : Amount(<<>>, r) = 0
    BY DEF Amount
  <2> QED
    BY <1>1, <1>2, <1>3, <2>1, SMT DEF Amount
<1>5. /\ Allocatable(type, "memory") = memory(item.gb) - reserved["memory"] - 0 - 100 * MiB
      /\ Allocatable(type, "cpu") = 1000 * item.cpus - reserved["cpu"] - 0 - 0
  BY <1>3, <1>4, SMT DEF Allocatable
<1> QED
  BY <1>5, SMT DEF reserved

\* What is reserved of a node's memory: no more than its size gives, and no
\* more of what is added than a quarter.
LEMMA ReservedGrowsSlowly ==
  ASSUME NEW newer, NEW cpus, NEW count \in Nat, NEW gb \in Nat
  PROVE  LET reserved(g) == kubeReservedResources(newer, cpus, count, g).memory
         IN  /\ reserved(gb) \in Int /\ reserved(gb) <= 256000 * gb
             /\ reserved(gb + 1) \in Int /\ reserved(gb + 1) <= reserved(gb) + 256000
<1> DEFINE byPods == MiB * (20 * count + 256)
           of(g) == IF newer /\ byPods <= LegacyMemory(g) THEN byPods ELSE LegacyMemory(g)
<1>1. \A g : kubeReservedResources(newer, cpus, count, g).memory = of(g)
  BY SMT DEF kubeReservedResources
<1>2. byPods \in Int
  BY SMT DEF MiB
<1>3. /\ LegacyMemory(gb) \in Int /\ LegacyMemory(gb) <= 256000 * gb
      /\ LegacyMemory(gb + 1) \in Int /\ LegacyMemory(gb) <= LegacyMemory(gb + 1)
      /\ LegacyMemory(gb + 1) <= LegacyMemory(gb) + 256000
  BY MemoryReserved, SMT
<1> HIDE DEF byPods
<1>4. /\ of(gb) \in Int /\ of(gb) <= 256000 * gb
      /\ of(gb + 1) \in Int /\ of(gb + 1) <= of(gb) + 256000
  BY <1>2, <1>3, SMT
<1> HIDE DEF of
<1> QED
  BY <1>1, <1>4, SMT

\* A bigger node leaves no less of its memory and its CPU to pods, and some of
\* both (memory, kubeReservedResources, evictionThreshold).  A hypervisor that
\* takes more than 652 thousandths would leave nothing of 1 GiB.
THEOREM BiggerNodesLeaveMore ==
  ASSUME VMMemoryOverhead <= 652
  PROVE  CalculationsSpec => []CapacityGrows
<1>1. ASSUME NEW q, CapacityQuestion(q), NEW storageInGB
      PROVE  BiggerIsNoSmaller(q.item, storageInGB, q.newer, q.cluster, q.limits)
  <2> DEFINE count == pods(MaxPods(q.cluster), UsedLimits(q.cluster, q.limits))
             type(i) == NewInstanceType(i, storageInGB, q.newer, q.cluster, q.limits)
             cpus == q.item.cpus
             gb == q.item.gb
             more == [q.item EXCEPT !.gb = @ + 1]
             wider == [q.item EXCEPT !.cpus = @ + 1]
             reserved(g) == kubeReservedResources(q.newer, cpus, count, g).memory
             ofCpu(c) == kubeReservedResources(q.newer, c, count, gb).cpu
             levels == IF q.newer THEN CpuLevels ELSE LegacyCpuLevels
  <2>1. /\ cpus \in Nat \ {0} /\ gb \in Nat \ {0} /\ count \in Nat
        /\ q.item = [cpus |-> cpus, gb |-> gb, gpus |-> q.item.gpus]
    BY <1>1, PodsAreANumber DEF CapacityQuestion
  <2>2. more.cpus = cpus /\ more.gb = gb + 1 /\ wider.cpus = cpus + 1 /\ wider.gb = gb
    BY <2>1
  <2>3. /\ Allocatable(type(q.item), "memory") = memory(gb) - reserved(gb) - 0 - 100 * MiB
        /\ Allocatable(type(more), "memory") = memory(gb + 1) - reserved(gb + 1) - 0 - 100 * MiB
        /\ Allocatable(type(q.item), "cpu") = 1000 * cpus - ofCpu(cpus) - 0 - 0
        /\ Allocatable(type(wider), "cpu") = 1000 * (cpus + 1) - ofCpu(cpus + 1) - 0 - 0
    <3>1. \A i : IsTypeOf(type(i), i, storageInGB, q.newer, count)
      BY TypeFields, Zenon
    <3> HIDE DEF type, more, wider, count, cpus, gb
    <3> QED
      BY <2>2, <3>1, Left, SMT DEF cpus, gb
  <2>4. ofCpu(cpus) < 1000 * cpus /\ ofCpu(cpus + 1) <= ofCpu(cpus) + 1000
        /\ ofCpu(cpus) \in Int /\ ofCpu(cpus + 1) \in Int
    <3>1. \A c : ofCpu(c) = Eval(levels, 1000 * c, 10000)
      BY SMT DEF kubeReservedResources
    <3>2. levels \in {CpuLevels, LegacyCpuLevels}
      OBVIOUS
    <3> HIDE DEF levels, ofCpu, cpus
    <3> QED
      BY <2>1, <3>1, <3>2, CpuReserved, SMT
  <2>5. /\ reserved(gb) \in Int /\ reserved(gb) <= 256000 * gb
        /\ reserved(gb + 1) \in Int /\ reserved(gb + 1) <= reserved(gb) + 256000
    <3> HIDE DEF cpus, gb, count
    <3> QED
      BY <2>1, ReservedGrowsSlowly, SMT
  <2>6. /\ memory(gb) \in Nat /\ memory(gb) > 256000 * gb + 100000
        /\ memory(gb + 1) \in Nat /\ memory(gb + 1) >= memory(gb) + 256000
    <3>1. gb \in Nat \ {0}
      BY <2>1
    <3> HIDE DEF gb
    <3>2. MemorySuffices(gb)
      BY <3>1, MemoryOffered, SMT
    <3> QED
      BY <3>2, SMT DEF MemorySuffices
  <2> HIDE DEF type, more, wider, cpus, gb, reserved, ofCpu
  <2>7. /\ Allocatable(type(q.item), "memory") > 0 /\ Allocatable(type(q.item), "cpu") > 0
        /\ Allocatable(type(more), "memory") >= Allocatable(type(q.item), "memory")
        /\ Allocatable(type(wider), "cpu") >= Allocatable(type(q.item), "cpu")
    BY <2>1, <2>3, <2>4, <2>5, <2>6, SMT DEF MiB
  <2> QED
    BY <2>7, SMT DEF BiggerIsNoSmaller, type, more, wider
<1>2. AskedInv => CapacityGrows
  BY <1>1, QuestionKinds, Zenon DEF CapacityGrows
<1> QED
  BY <1>2, Asked, PTL

-----------------------------------------------------------------------------
(* The way through the annotations.                                        *)

\* What a table carries over, and what it carries it from.
LEMMA CarryGives ==
  ASSUME NEW list, NEW table
  PROVE  /\ \A n : n \in DOMAIN Carry(list, table) <=> n \in DOMAIN table /\ table[n] \in DOMAIN list
         /\ \A n \in DOMAIN Carry(list, table) : Carry(list, table)[n] = list[table[n]]
BY DEF Carry

\* Leaving zeros out changes no quantity.
LEMMA ZerosDoNotCount ==
  ASSUME NEW list, NEW r
  PROVE  Amount(Nonzero(list), r) = Amount(list, r)
BY DEF Amount, Nonzero

\* What Create writes for a type: nothing is reserved for the system, and no
\* storage for Kubernetes.
CapacityWritten(written, type) ==
  written["capacity"]
    = Over([CPU |-> type.capacity.cpu, Memory |-> type.capacity.memory,
            Pods |-> type.capacity.pods, EphemeralStorage |-> type.capacity.storage],
           Carry(type.capacity, [ENIIP |-> "eniip", DirectENI |-> "directeni", ENI |-> "eni",
                                 SubENI |-> "subeni", EIP |-> "eip", GPUCount |-> "gpu"]))
OverheadWritten(written, type) ==
  /\ written["kubeReserved"] = [CPU |-> type.kubeReserved.cpu, Memory |-> type.kubeReserved.memory]
  /\ DOMAIN written["systemReserved"] = {}
  /\ written["eviction"]
       = [Memory |-> type.eviction.memory, EphemeralStorage |-> type.eviction.storage]

LEMMA WrittenForAType ==
  ASSUME NEW item, NEW storageInGB, NEW newer, NEW count, NEW type,
         IsTypeOf(type, item, storageInGB, newer, count)
  PROVE  CapacityWritten(Annotations(type), type) /\ OverheadWritten(Annotations(type), type)
<1>1. /\ DOMAIN type.kubeReserved = {"cpu", "memory"}
      /\ type.systemReserved = <<>>
      /\ DOMAIN type.eviction = {"memory", "storage"}
  BY SMT DEF IsTypeOf, kubeReservedResources, evictionThreshold
<1>2. /\ Amount(type.kubeReserved, "cpu") = type.kubeReserved.cpu
      /\ Amount(type.kubeReserved, "memory") = type.kubeReserved.memory
      /\ Amount(type.kubeReserved, "storage") = 0
      /\ Amount(type.eviction, "memory") = type.eviction.memory
      /\ Amount(type.eviction, "storage") = type.eviction.storage
  BY <1>1 DEF Amount
<1>3. DOMAIN Carry(Nonzero(type.systemReserved),
                   [CPU |-> "cpu", Memory |-> "memory", EphemeralStorage |-> "storage"]) = {}
  <2>1. DOMAIN Nonzero(type.systemReserved) = {}
    BY <1>1 DEF Nonzero
  <2> QED
    BY <2>1, CarryGives
<1> QED
  BY <1>2, <1>3 DEF Annotations, CapacityWritten, OverheadWritten

\* What is read of a group that the claim's annotations leave alone.
LEMMA ReadAsWritten ==
  ASSUME NEW item, NEW storageInGB, NEW newer, NEW count, NEW type,
         IsTypeOf(type, item, storageInGB, newer, count),
         NEW meta, DOMAIN meta = Groups,
         NEW r \in DOMAIN ReadFrom, \A g \in Groups : ReadFrom[r] \notin DOMAIN meta[g]
  PROVE  LET seen(g) == ResourceList(Annotate(type, meta)[g])
         IN  /\ r \in DOMAIN seen("capacity") <=> r \in DOMAIN type.capacity
             /\ \A g \in Groups : Amount(seen(g), r) = Amount(type[g], r)
<1> DEFINE written == Annotations(type)
           n == ReadFrom[r]
           noted(g) == Over(meta[g], written[g])
<1>1. \A g \in Groups : Annotate(type, meta)[g] = noted(g)
  BY DEF Annotate
<1>2. \A g \in Groups : /\ n \in DOMAIN noted(g) <=> n \in DOMAIN written[g]
                        /\ n \in DOMAIN written[g] => noted(g)[n] = written[g][n]
  BY DEF Over
<1>3. \A g \in Groups : /\ r \in DOMAIN ResourceList(noted(g)) <=> n \in DOMAIN written[g]
                        /\ n \in DOMAIN written[g] => ResourceList(noted(g))[r] = written[g][n]
  BY <1>2, CarryGives DEF ResourceList
<1>4. /\ n \in DOMAIN written["capacity"] <=> r \in DOMAIN type.capacity
      /\ r \in DOMAIN type.capacity => written["capacity"][n] = type.capacity[r]
  <2> DEFINE base == [CPU |-> type.capacity.cpu, Memory |-> type.capacity.memory,
                      Pods |-> type.capacity.pods, EphemeralStorage |-> type.capacity.storage]
             table == [ENIIP |-> "eniip", DirectENI |-> "directeni", ENI |-> "eni",
                       SubENI |-> "subeni", EIP |-> "eip", GPUCount |-> "gpu"]
             rest == Carry(type.capacity, table)
  <2>1. written["capacity"] = Over(base, rest)
    <3>1. CapacityWritten(written, type)
      BY WrittenForAType, Zenon
    <3> HIDE DEF written
    <3> QED
      BY <3>1, Zenon DEF CapacityWritten
  <2>2. {"cpu", "memory", "storage", "pods"} \subseteq DOMAIN type.capacity
    BY SMT DEF IsTypeOf
  <2>3. CASE r \in {"cpu", "memory", "storage", "pods"}
    <3>1. n \in DOMAIN base /\ base[n] = type.capacity[r]
      BY <2>3 DEF ReadFrom
    <3> HIDE DEF base, rest, n, written
    <3> QED
      BY <2>1, <2>2, <2>3, <3>1 DEF Over
  <2>4. CASE r \notin {"cpu", "memory", "storage", "pods"}
    <3>1. n \in DOMAIN table /\ table[n] = r /\ n \notin DOMAIN base
      BY <2>4 DEF ReadFrom
    <3> HIDE DEF base, table, n, written
    <3>2. /\ n \in DOMAIN rest <=> r \in DOMAIN type.capacity
          /\ n \in DOMAIN rest => rest[n] = type.capacity[r]
      BY <3>1, CarryGives
    <3> HIDE DEF rest
    <3> QED
      BY <2>1, <3>1, <3>2 DEF Over
  <2> QED
    BY <2>3, <2>4
<1>5. \A g \in Groups \ {"capacity"} :
        /\ n \in DOMAIN written[g] <=> r \in DOMAIN type[g]
        /\ r \in DOMAIN type[g] => written[g][n] = type[g][r]
  <2>1. /\ DOMAIN type["kubeReserved"] = {"cpu", "memory"}
        /\ DOMAIN type["systemReserved"] = {}
        /\ DOMAIN type["eviction"] = {"memory", "storage"}
    BY SMT DEF IsTypeOf, kubeReservedResources, evictionThreshold
  <2>2. /\ written["kubeReserved"]
             = [CPU |-> type.kubeReserved.cpu, Memory |-> type.kubeReserved.memory]
        /\ DOMAIN written["systemReserved"] = {}
        /\ written["eviction"]
             = [Memory |-> type.eviction.memory, EphemeralStorage |-> type.eviction.storage]
    <3>1. OverheadWritten(written, type)
      BY WrittenForAType, Zenon
    <3> HIDE DEF written
    <3> QED
      BY <3>1, Zenon DEF OverheadWritten
  <2>3. /\ n = "CPU" <=> r = "cpu"
        /\ n = "Memory" <=> r = "memory"
        /\ n = "EphemeralStorage" <=> r = "storage"
    BY DEF ReadFrom
  <2> HIDE DEF n, written
  <2>4. /\ n \in DOMAIN written["kubeReserved"] <=> r \in DOMAIN type["kubeReserved"]
        /\ r \in DOMAIN type["kubeReserved"] => written["kubeReserved"][n] = type["kubeReserved"][r]
    BY <2>1, <2>2, <2>3
  <2>5. /\ n \in DOMAIN written["eviction"] <=> r \in DOMAIN type["eviction"]
        /\ r \in DOMAIN type["eviction"] => written["eviction"][n] = type["eviction"][r]
    BY <2>1, <2>2, <2>3
  <2> QED
    BY <2>1, <2>2, <2>4, <2>5 DEF Groups
<1> HIDE DEF written, n, noted
<1>6. \A g \in Groups : /\ r \in DOMAIN ResourceList(noted(g)) <=> r \in DOMAIN type[g]
                        /\ r \in DOMAIN type[g] => ResourceList(noted(g))[r] = type[g][r]
  <2>1. /\ r \in DOMAIN ResourceList(noted("capacity")) <=> r \in DOMAIN type["capacity"]
        /\ r \in DOMAIN type["capacity"] => ResourceList(noted("capacity"))[r] = type["capacity"][r]
    BY <1>3, <1>4 DEF Groups
  <2>2. ASSUME NEW g \in Groups \ {"capacity"}
        PROVE  /\ r \in DOMAIN ResourceList(noted(g)) <=> r \in DOMAIN type[g]
               /\ r \in DOMAIN type[g] => ResourceList(noted(g))[r] = type[g][r]
    <3>1. /\ n \in DOMAIN written[g] <=> r \in DOMAIN type[g]
          /\ r \in DOMAIN type[g] => written[g][n] = type[g][r]
      BY <1>5
    <3>2. /\ r \in DOMAIN ResourceList(noted(g)) <=> n \in DOMAIN written[g]
          /\ n \in DOMAIN written[g] => ResourceList(noted(g))[r] = written[g][n]
      BY <1>3
    <3> QED
      BY <3>1, <3>2
  <2> QED
    BY <2>1, <2>2
<1>7. \A g \in Groups : Amount(ResourceList(noted(g)), r) = Amount(type[g], r)
  BY <1>6 DEF Amount
<1> QED
  BY <1>1, <1>6, <1>7 DEF Groups

\* A NodeClaim promises what the type did that it was launched for, but for
\* what its own annotations name: no field of the ten is lost, misread or read
\* in another group (Create, machineToNodeClaim).
THEOREM ClaimsKeepTheirTypes == CalculationsSpec => []ClaimsHaveTheirTypes
<1>1. ASSUME NEW item, NEW storageInGB, NEW newer, NEW count, NEW type,
             IsTypeOf(type, item, storageInGB, newer, count),
             NEW meta \in Metas
      PROVE  ClaimHasItsType(type, meta)
  <2> DEFINE annotations == Annotate(type, meta)
             claim == machineToNodeClaim(annotations)
             seen == [g \in Groups |-> ResourceList(annotations[g])]
             left == [r \in DOMAIN seen.capacity |-> Allocatable(seen, r)]
             unnamed == {r \in DOMAIN ReadFrom : \A g \in Groups : ReadFrom[r] \notin DOMAIN meta[g]}
  <2>1. DOMAIN meta = Groups
    BY QuestionsAssumption
  <2>2. claim.capacity = Nonzero(seen.capacity) /\ claim.allocatable = Nonzero(left)
    BY DEF machineToNodeClaim
  <2>3. Resolves(annotations)
    <3> DEFINE written == Annotations(type)
    <3>1. {"CPU", "Memory"} \subseteq DOMAIN written["capacity"]
      <4>1. CapacityWritten(written, type)
        BY <1>1, WrittenForAType, Zenon
      <4> HIDE DEF written
      <4> QED
        BY <4>1 DEF CapacityWritten, Over
    <3>2. annotations["capacity"] = Over(meta["capacity"], written["capacity"])
      BY DEF Annotate, Groups
    <3> HIDE DEF written, annotations
    <3>3. {"CPU", "Memory"} \subseteq DOMAIN annotations["capacity"]
      BY <3>1, <3>2 DEF Over
    <3>4. ReadFrom["cpu"] = "CPU" /\ ReadFrom["memory"] = "Memory" /\ {"cpu", "memory"} \subseteq DOMAIN ReadFrom
      BY DEF ReadFrom
    <3>5. {"cpu", "memory"} \subseteq DOMAIN Carry(annotations["capacity"], ReadFrom)
      BY <3>3, <3>4, CarryGives
    <3> QED
      BY <3>5 DEF Resolves, ResourceList
  <2>4. ASSUME NEW r \in unnamed
        PROVE  /\ Amount(claim.capacity, r) = Amount(type.capacity, r)
               /\ Amount(claim.allocatable, r)
                    = IF r \in DOMAIN type.capacity THEN Allocatable(type, r) ELSE 0
    <3>1. /\ r \in DOMAIN seen["capacity"] <=> r \in DOMAIN type.capacity
          /\ \A g \in Groups : Amount(seen[g], r) = Amount(type[g], r)
      BY <1>1, <2>1, ReadAsWritten DEF Groups
    <3> HIDE DEF seen, claim, unnamed, annotations
    <3>2. Amount(claim.capacity, r) = Amount(type.capacity, r)
      BY <2>2, <3>1, ZerosDoNotCount DEF Groups
    <3>3. r \in DOMAIN type.capacity => Allocatable(seen, r) = Allocatable(type, r)
      BY <3>1 DEF Allocatable, Groups, Amount
    <3>4. Amount(left, r) = IF r \in DOMAIN type.capacity THEN Allocatable(type, r) ELSE 0
      BY <3>1, <3>3 DEF Amount
    <3> HIDE DEF left
    <3> QED
      BY <2>2, <3>2, <3>4, ZerosDoNotCount
  <2> QED
    BY <2>3, <2>4 DEF ClaimHasItsType
<1>2. ASSUME NEW meta \in Metas,
             NEW item, NEW storageInGB, NEW newer, NEW cluster, NEW limits
      PROVE  ClaimHasItsType(NewInstanceType(item, storageInGB, newer, cluster, limits), meta)
  <2> DEFINE type == NewInstanceType(item, storageInGB, newer, cluster, limits)
             count == pods(MaxPods(cluster), UsedLimits(cluster, limits))
  <2>1. IsTypeOf(type, item, storageInGB, newer, count)
    BY TypeFields, Zenon
  <2> HIDE DEF type, count
  <2>2. ClaimHasItsType(type, meta)
    BY <1>1, <2>1
  <2> QED
    BY <2>2, Zenon DEF type
<1>3. ClaimsHaveTheirTypes
  BY <1>2, Zenon DEF ClaimsHaveTheirTypes
<1> QED
  BY <1>3, PTL

-----------------------------------------------------------------------------
(* What a class selects.                                                   *)

\* The batch that an index falls into.
LEMMA BatchOfIndex ==
  ASSUME NEW n \in Nat, NEW k \in 1..n
  PROVE  \E i \in 0..n - 1 : i % BatchSize = 0 /\ i < k /\ k <= i + BatchSize
<1> DEFINE i == (k - 1) - ((k - 1) % 5)
<1>1. (k - 1) % 5 \in 0..4 /\ i \in 0..k - 1 /\ i % 5 = 0
  OBVIOUS
<1>2. i \in 0..n - 1 /\ i < k /\ k <= i + 5
  BY <1>1
<1> QED
  BY <1>1, <1>2 DEF BatchSize

\* Every index lies in exactly one batch, and no batch exceeds what a request
\* may hold (getSubnetFilterSets).
THEOREM BatchesPartition ==
  \A n \in Nat :
    /\ \A b \in Batches(n) : IsFiniteSet(b) /\ Cardinality(b) <= BatchSize
    /\ \A k \in 1..n : \E b \in Batches(n) : k \in b /\ \A c \in Batches(n) : k \in c => c = b
<1> SUFFICES ASSUME NEW n \in Nat
             PROVE  /\ \A b \in Batches(n) : IsFiniteSet(b) /\ Cardinality(b) <= BatchSize
                    /\ \A k \in 1..n : \E b \in Batches(n) :
                         k \in b /\ \A c \in Batches(n) : k \in c => c = b
  OBVIOUS
<1> DEFINE Batch(i) == {k \in 1..n : i < k /\ k <= i + BatchSize}
           Starts == {j \in 0..n - 1 : j % BatchSize = 0}
<1>1. Batches(n) = {Batch(i) : i \in Starts}
  BY DEF Batches
<1>2. ASSUME NEW i \in Starts
      PROVE  IsFiniteSet(Batch(i)) /\ Cardinality(Batch(i)) <= BatchSize
  <2>1. Batch(i) \subseteq (i + 1)..(i + 5) /\ i + 1 \in Int /\ i + 5 \in Int
    BY DEF BatchSize
  <2>2. IsFiniteSet((i + 1)..(i + 5)) /\ Cardinality((i + 1)..(i + 5)) = 5
    BY FS_Interval, <2>1
  <2> HIDE DEF Batch
  <2> QED
    BY <2>1, <2>2, FS_Subset DEF BatchSize
<1>3. ASSUME NEW k \in 1..n
      PROVE  \E b \in Batches(n) : k \in b /\ \A c \in Batches(n) : k \in c => c = b
  <2>1. PICK i \in Starts : k \in Batch(i)
    BY BatchOfIndex
  <2>2. ASSUME NEW j \in Starts, k \in Batch(j)
        PROVE  j = i
    BY <2>1, <2>2 DEF BatchSize
  <2>3. \A c \in Batches(n) : k \in c => c = Batch(i)
    BY <1>1, <2>2
  <2> QED
    BY <1>1, <2>1, <2>3
<1> HIDE DEF Batch, Starts
<1>4. \A b \in Batches(n) : IsFiniteSet(b) /\ Cardinality(b) <= BatchSize
  BY <1>1, <1>2
<1> QED
  BY <1>3, <1>4

\* A batch holds some index.
LEMMA BatchesAreFilled ==
  ASSUME NEW n \in Nat, NEW b \in Batches(n)
  PROVE  b # {} /\ b \subseteq 1..n /\ IsFiniteSet(b) /\ Cardinality(b) <= BatchSize
<1>1. PICK i \in 0..n - 1 : b = {k \in 1..n : i < k /\ k <= i + BatchSize}
  BY DEF Batches
<1>2. i + 1 \in b
  BY <1>1 DEF BatchSize
<1> QED
  BY <1>1, <1>2, BatchesPartition

\* The terms with an ID are counted without a gap.
LEMMA IndexIsABijection ==
  ASSUME NEW terms \in Seq(Terms)
  PROVE  LET n == Cardinality(IDTerms(terms))
         IN  /\ n \in Nat
             /\ \A i \in IDTerms(terms) : IDIndex(terms, i) \in 1..n
             /\ \A i, j \in IDTerms(terms) : IDIndex(terms, i) = IDIndex(terms, j) => i = j
             /\ \A k \in 1..n : \E i \in IDTerms(terms) : IDIndex(terms, i) = k
<1> DEFINE P == IDTerms(terms)
           n == Cardinality(P)
           Upto(i) == {j \in P : j <= i}
           f == [i \in P |-> Cardinality(Upto(i))]
<1>1. P \subseteq Nat /\ IsFiniteSet(P)
  <2>1. Len(terms) \in Nat /\ DOMAIN terms = 1..Len(terms)
    OBVIOUS
  <2>2. IsFiniteSet(1..Len(terms))
    BY <2>1, FS_Interval
  <2>3. P \subseteq 1..Len(terms)
    BY <2>1 DEF IDTerms
  <2> DEFINE positions == 1..Len(terms)
  <2>4. positions \subseteq Nat
    BY <2>1
  <2> HIDE DEF P, positions
  <2>5. IsFiniteSet(positions) /\ P \subseteq positions
    BY <2>2, <2>3 DEF positions
  <2> QED
    BY <2>4, <2>5, FS_Subset
<1>2. \A i : IDIndex(terms, i) = Cardinality(Upto(i))
  BY Zenon DEF IDIndex
<1> HIDE DEF P
<1>3. n \in Nat
  BY <1>1, FS_CardinalityType
<1>4. ASSUME NEW i \in P
      PROVE  IsFiniteSet(Upto(i)) /\ Cardinality(Upto(i)) \in 1..n
  <2>1. Upto(i) \subseteq P /\ i \in Upto(i)
    BY <1>1
  <2> HIDE DEF Upto
  <2>2. IsFiniteSet(Upto(i)) /\ Cardinality(Upto(i)) <= n
    BY <1>1, <2>1, FS_Subset
  <2>3. Cardinality(Upto(i)) \in Nat /\ Cardinality(Upto(i)) # 0
    BY <2>1, <2>2, FS_CardinalityType, FS_EmptySet
  <2> QED
    BY <1>3, <2>2, <2>3
<1>5. ASSUME NEW i \in P, NEW j \in P, i < j
      PROVE  Cardinality(Upto(i)) # Cardinality(Upto(j))
  <2>1. Upto(i) \subseteq Upto(j) /\ j \in Upto(j) /\ j \notin Upto(i)
    <3>1. \A k \in P : k \in Nat
      BY <1>1
    <3> QED
      BY <1>5, <3>1
  <2>2. IsFiniteSet(Upto(j))
    BY <1>4
  <2> HIDE DEF Upto
  <2> QED
    BY <2>1, <2>2, FS_Subset
<1>6. \A i, j \in P : Cardinality(Upto(i)) = Cardinality(Upto(j)) => i = j
  <2> SUFFICES ASSUME NEW i \in P, NEW j \in P, Cardinality(Upto(i)) = Cardinality(Upto(j))
               PROVE  i = j
    OBVIOUS
  <2>1. i \in Nat /\ j \in Nat
    BY <1>1
  <2>2. ~(i < j) /\ ~(j < i)
    BY <1>5
  <2> QED
    BY <2>1, <2>2
<1> HIDE DEF Upto, n
<1>7. f \in Injection(P, 1..n)
  BY <1>4, <1>6 DEF Injection, IsInjective
<1>8. f \in Surjection(P, 1..n)
  <2>1. IsFiniteSet(1..n) /\ Cardinality(1..n) = n
    BY <1>3, FS_Interval
  <2>2. n = Cardinality(P)
    BY DEF n
  <2> HIDE DEF f
  <2> QED
    BY <1>7, <2>1, <2>2, FS_Injection
<1>9. \A k \in 1..n : \E i \in P : Cardinality(Upto(i)) = k
  BY <1>8 DEF Surjection
<1> HIDE DEF f
<1>10. /\ \A i \in P : IDIndex(terms, i) \in 1..n
       /\ \A i, j \in P : IDIndex(terms, i) = IDIndex(terms, j) => i = j
       /\ \A k \in 1..n : \E i \in P : IDIndex(terms, i) = k
  BY <1>2, <1>4, <1>6, <1>9, Zenon
<1> QED
  BY <1>3, <1>10, Zenon DEF P, n

\* A query for a batch asks for some IDs, and for no more than it may.
LEMMA BatchesOfIDs ==
  ASSUME NEW terms \in Seq(Terms), NEW b \in Batches(Cardinality(IDTerms(terms)))
  PROVE  IDsAt(terms, b) # {} /\ Cardinality(IDsAt(terms, b)) <= BatchSize
<1> DEFINE P == IDTerms(terms)
           n == Cardinality(P)
           Q == {j \in P : IDIndex(terms, j) \in b}
           f == [j \in Q |-> IDIndex(terms, j)]
           g == [j \in Q |-> terms[j].id]
<1>1. /\ n \in Nat
      /\ \A i, j \in P : IDIndex(terms, i) = IDIndex(terms, j) => i = j
      /\ \A k \in 1..n : \E i \in P : IDIndex(terms, i) = k
  BY IndexIsABijection, Zenon
<1>2. b # {} /\ b \subseteq 1..n /\ IsFiniteSet(b) /\ Cardinality(b) <= BatchSize
  BY <1>1, BatchesAreFilled
<1>3. IDsAt(terms, b) = {terms[j].id : j \in Q}
  BY Zenon DEF IDsAt
<1> HIDE DEF n, P
<1>4. Q # {}
  <2>1. PICK k \in b : k \in 1..n
    BY <1>2
  <2>2. PICK i \in P : IDIndex(terms, i) = k
    BY <1>1, <2>1
  <2> QED
    BY <2>1, <2>2
<1>5. f \in Injection(Q, b)
  BY <1>1 DEF Injection, IsInjective
<1>6. g \in Surjection(Q, {terms[j].id : j \in Q})
  BY DEF Surjection
<1> DEFINE ids == {terms[j].id : j \in Q}
<1>7. ids # {}
  BY <1>4
<1> HIDE DEF Q, f, g, ids
<1>8. IsFiniteSet(Q) /\ Cardinality(Q) <= Cardinality(b)
  BY <1>2, <1>5, FS_Injection
<1>9. IsFiniteSet(ids) /\ Cardinality(ids) <= Cardinality(Q)
  BY <1>6, <1>8, FS_Surjection DEF ids
<1>10. /\ Cardinality(b) \in Nat /\ Cardinality(Q) \in Nat /\ Cardinality(ids) \in Nat
  BY <1>2, <1>8, <1>9, FS_CardinalityType
<1> QED
  BY <1>2, <1>3, <1>7, <1>8, <1>9, <1>10 DEF BatchSize, ids

\* All that a query matches is on its first page, when it fits there.
LEMMA PageHoldsAll ==
  ASSUME NEW q, NEW tags, Cardinality(Matches(q, tags)) <= PageSize
  PROVE  Answer(q, tags) = Matches(q, tags)
<1> DEFINE all == Matches(q, tags)
           before(r) == {s \in all : s < r}
<1>1. all \subseteq Resources /\ all \subseteq Nat /\ IsFiniteSet(all)
  BY SelectorAssumption, FS_Subset DEF Matches
<1>2. Answer(q, tags) = {r \in all : Cardinality(before(r)) < PageSize}
  BY Zenon DEF Answer
<1> HIDE DEF all
<1>3. Cardinality(all) \in Nat /\ Cardinality(all) <= PageSize /\ PageSize \in Nat
  BY <1>1, FS_CardinalityType, SelectorAssumption DEF all
<1>4. ASSUME NEW r \in all
      PROVE  Cardinality(before(r)) < PageSize
  <2>1. r \in Nat /\ before(r) \subseteq all /\ r \notin before(r)
    BY <1>1
  <2> HIDE DEF before
  <2>2. /\ IsFiniteSet(before(r)) /\ Cardinality(before(r)) <= Cardinality(all)
        /\ Cardinality(before(r)) # Cardinality(all)
    BY <1>1, <2>1, FS_Subset
  <2>3. Cardinality(before(r)) \in Nat
    BY <2>2, FS_CardinalityType
  <2> QED
    BY <1>3, <2>2, <2>3
<1> HIDE DEF before
<1>5. Answer(q, tags) = all
  BY <1>2, <1>4
<1> QED
  BY <1>5 DEF all

\* What queries ask for: r, of tags met, is asked for by one of them just when
\* a term selects it.
AskFor(queries, terms) ==
  \A r \in Resources : \A met :
    (\E q \in queries : (q.ids = {} \/ r \in q.ids) /\ q.tags \subseteq met)
      <=> \E t \in ToSet(terms) : IF t.id = NoID THEN t.tags \subseteq met ELSE t.id = r

\* Queries for tags and for sets of IDs ask for what the terms select, when no
\* set is empty and each ID of a term is in one.
LEMMA QueriesAskForTerms ==
  ASSUME NEW terms \in Seq(Terms), NEW sets,
         \A ids \in sets : ids # {},
         UNION sets = {terms[i].id : i \in IDTerms(terms)}
  PROVE  AskFor(TagQueries(terms) \cup {IDQuery(ids) : ids \in sets}, terms)
<1> DEFINE queries == TagQueries(terms) \cup {IDQuery(ids) : ids \in sets}
           asks(q, r, met) == (q.ids = {} \/ r \in q.ids) /\ q.tags \subseteq met
           selects(t, r, met) == IF t.id = NoID THEN t.tags \subseteq met ELSE t.id = r
<1> SUFFICES ASSUME NEW r \in Resources, NEW met
             PROVE  (\E q \in queries : asks(q, r, met))
                      <=> \E t \in ToSet(terms) : selects(t, r, met)
  BY Zenon DEF AskFor
<1>0. \A t : t \in ToSet(terms) <=> \E i \in DOMAIN terms : terms[i] = t
  BY DEF ToSet
<1>1. \A u \in ToSet(terms) : u.id = NoID =>
        (asks([ids |-> {}, tags |-> u.tags], r, met) <=> selects(u, r, met))
  OBVIOUS
<1>2. \A ids \in sets : asks(IDQuery(ids), r, met) <=> r \in ids
  BY DEF IDQuery
<1>3. r \in UNION sets <=> \E t \in ToSet(terms) : t.id # NoID /\ t.id = r
  BY <1>0 DEF IDTerms
<1>4. (\E q \in TagQueries(terms) : asks(q, r, met))
        <=> \E u \in ToSet(terms) : u.id = NoID /\ selects(u, r, met)
  <2> DEFINE of(u) == [ids |-> {}, tags |-> u.tags]
  <2>1. TagQueries(terms) = {of(u) : u \in {t \in ToSet(terms) : t.id = NoID}}
    BY Zenon DEF TagQueries
  <2> HIDE DEF asks, selects
  <2>2. \A u \in ToSet(terms) : u.id = NoID => (asks(of(u), r, met) <=> selects(u, r, met))
    BY <1>1
  <2> HIDE DEF of
  <2> QED
    BY <2>1, <2>2
<1>5. \A t \in ToSet(terms) : t.id # NoID => (selects(t, r, met) <=> t.id = r)
  OBVIOUS
<1> HIDE DEF asks, selects
<1> QED
  BY <1>2, <1>3, <1>4, <1>5

\* The queries for subnets ask for every ID that the terms name, and for no
\* other (getSubnetFilterSets).
THEOREM NoIDIsLost ==
  \A terms \in Seq(Terms) :
    UNION {IDsAt(terms, b) : b \in Batches(Cardinality(IDTerms(terms)))}
      = {terms[i].id : i \in IDTerms(terms)}
<1> SUFFICES ASSUME NEW terms \in Seq(Terms)
             PROVE  UNION {IDsAt(terms, b) : b \in Batches(Cardinality(IDTerms(terms)))}
                      = {terms[i].id : i \in IDTerms(terms)}
  OBVIOUS
<1> DEFINE P == IDTerms(terms)
           n == Cardinality(P)
<1>1. n \in Nat /\ \A i \in P : IDIndex(terms, i) \in 1..n
  BY IndexIsABijection, Zenon
<1>2. \A b : IDsAt(terms, b) = {terms[i].id : i \in {j \in P : IDIndex(terms, j) \in b}}
  BY Zenon DEF IDsAt
<1> HIDE DEF P, n
<1>3. \A i \in P : \E b \in Batches(n) : IDIndex(terms, i) \in b
  BY <1>1, BatchesPartition
<1>4. UNION {IDsAt(terms, b) : b \in Batches(n)} = {terms[i].id : i \in P}
  BY <1>2, <1>3
<1> QED
  BY <1>4 DEF P, n

\* So do all queries, for tags too, five IDs at a time (getSubnetFilterSets).
LEMMA SubnetQueriesAsk ==
  ASSUME NEW terms \in Seq(Terms)
  PROVE  AskFor(SubnetQueries(terms), terms)
<1> DEFINE P == IDTerms(terms)
           n == Cardinality(P)
           sets == {IDsAt(terms, b) : b \in Batches(n)}
<1>1. \A b \in Batches(n) : IDsAt(terms, b) # {}
  BY BatchesOfIDs, Zenon
<1>2. SubnetQueries(terms) = TagQueries(terms) \cup {IDQuery(IDsAt(terms, b)) : b \in Batches(n)}
  BY Zenon DEF SubnetQueries
<1>3. UNION sets = {terms[i].id : i \in P}
  BY NoIDIsLost, Zenon
<1> HIDE DEF P, n
<1>4. {IDQuery(IDsAt(terms, b)) : b \in Batches(n)} = {IDQuery(ids) : ids \in sets}
  OBVIOUS
<1>5. \A ids \in sets : ids # {}
  BY <1>1
<1> HIDE DEF sets
<1>6. AskFor(TagQueries(terms) \cup {IDQuery(ids) : ids \in sets}, terms)
  BY <1>3, <1>5, QueriesAskForTerms DEF P
<1> QED
  BY <1>2, <1>4, <1>6, Zenon

\* All IDs in one query, if there are any (getSGFilterSets, getFilterSets).
LEMMA OneIDQueryAsks ==
  ASSUME NEW terms \in Seq(Terms)
  PROVE  AskFor(OneIDQuery(terms), terms)
<1> DEFINE P == IDTerms(terms)
           Full == {P} \ {{}}
           of(S) == {terms[i].id : i \in S}
           sets == {of(S) : S \in Full}
<1>1. OneIDQuery(terms) = TagQueries(terms) \cup {IDQuery(of(S)) : S \in Full}
  BY Zenon DEF OneIDQuery
<1> HIDE DEF P
<1>2. {IDQuery(of(S)) : S \in Full} = {IDQuery(ids) : ids \in sets}
  OBVIOUS
<1>3. UNION sets = {terms[i].id : i \in P}
  OBVIOUS
<1>4. \A ids \in sets : ids # {}
  <2>1. \A S \in Full : S # {}
    OBVIOUS
  <2>2. \A S : S # {} => of(S) # {}
    OBVIOUS
  <2> HIDE DEF of, Full
  <2> QED
    BY <2>1, <2>2
<1> HIDE DEF sets, of, Full
<1>5. AskFor(TagQueries(terms) \cup {IDQuery(ids) : ids \in sets}, terms)
  BY <1>3, <1>4, QueriesAskForTerms DEF P
<1> QED
  BY <1>1, <1>2, <1>5, Zenon

\* What a class selects is found and nothing else, in requests that hold no
\* more IDs than they may, unless a query matches more than a page
\* (getSubnetFilterSets, ListSubnets, ListSecurityGroups, sshkey List).
THEOREM SelectionsAreFound == CalculationsSpec => []SelectorsFind
<1>1. ASSUME NEW kind, NEW terms \in Seq(Terms), NEW tags
      PROVE  FindsWhatIsSelected(kind, terms, tags)
  <2> DEFINE queries == Queries(kind, terms)
             base == IF kind = "subnet" THEN SubnetQueries(terms) ELSE OneIDQuery(terms)
             extra == IF kind = "subnet" THEN {InVPC} ELSE {}
             selects(t, r, met) == IF t.id = NoID THEN t.tags \subseteq met ELSE t.id = r
  <2>1. AskFor(base, terms)
    BY SubnetQueriesAsk, OneIDQueryAsks
  <2>2. \A q \in SubnetQueries(terms) \cup OneIDQuery(terms) : q = [ids |-> q.ids, tags |-> q.tags]
    BY DEF SubnetQueries, OneIDQuery, TagQueries, IDQuery
  <2>3. /\ \A q \in queries : \E b \in base : q.ids = b.ids /\ q.tags = b.tags \cup extra
        /\ \A b \in base : \E q \in queries : q.ids = b.ids /\ q.tags = b.tags \cup extra
    <3>1. CASE kind = "subnet"
      <4> DEFINE wider(b) == [b EXCEPT !.tags = @ \cup {InVPC}]
      <4>1. base = SubnetQueries(terms) /\ extra = {InVPC}
        BY <3>1
      <4>2. queries = {wider(b) : b \in SubnetQueries(terms)}
        BY <3>1, Zenon DEF Queries
      <4>3. \A b \in SubnetQueries(terms) : wider(b).ids = b.ids /\ wider(b).tags = b.tags \cup {InVPC}
        <5> SUFFICES ASSUME NEW b \in SubnetQueries(terms)
                     PROVE  wider(b).ids = b.ids /\ wider(b).tags = b.tags \cup {InVPC}
          OBVIOUS
        <5>1. b = [ids |-> b.ids, tags |-> b.tags]
          BY <2>2
        <5> QED
          BY <5>1
      <4> HIDE DEF queries, base, extra, wider
      <4> QED
        BY <4>1, <4>2, <4>3
    <3>2. CASE kind # "subnet"
      <4>1. base = OneIDQuery(terms) /\ extra = {} /\ queries = OneIDQuery(terms)
        BY <3>2 DEF Queries
      <4> HIDE DEF queries, base, extra
      <4> QED
        BY <4>1
    <3> QED
      BY <3>1, <3>2
  <2>4. ASSUME kind = "subnet", NEW q \in queries
        PROVE  Cardinality(q.ids) <= BatchSize
    <3>1. PICK b \in SubnetQueries(terms) : q.ids = b.ids
      <4>1. base = SubnetQueries(terms)
        BY <2>4
      <4> HIDE DEF base, queries
      <4> QED
        BY <2>3, <4>1
    <3>2. CASE b \in TagQueries(terms)
      <4>1. b.ids = {}
        BY <3>2 DEF TagQueries
      <4>2. Cardinality(q.ids) = 0
        BY <3>1, <4>1, FS_EmptySet, Zenon
      <4> QED
        BY <4>2 DEF BatchSize
    <3>3. CASE b \notin TagQueries(terms)
      <4>1. PICK c \in Batches(Cardinality(IDTerms(terms))) : b = IDQuery(IDsAt(terms, c))
        BY <3>3 DEF SubnetQueries
      <4>2. b.ids = IDsAt(terms, c)
        BY <4>1 DEF IDQuery
      <4> QED
        BY <3>1, <4>2, BatchesOfIDs
    <3> QED
      BY <3>2, <3>3
  <2>5. ASSUME NEW r \in Resources
        PROVE  (\E q \in queries : r \in Matches(q, tags))
                 <=> \E t \in ToSet(terms) : Selected(kind, t, r, tags)
    <3>1. (\E b \in base : (b.ids = {} \/ r \in b.ids) /\ b.tags \subseteq tags[r])
            <=> \E t \in ToSet(terms) : selects(t, r, tags[r])
      BY <2>1, Zenon DEF AskFor
    <3>2. \A q : r \in Matches(q, tags) <=> (q.ids = {} \/ r \in q.ids) /\ q.tags \subseteq tags[r]
      BY DEF Matches
    <3>3. \A t : Selected(kind, t, r, tags) <=> selects(t, r, tags[r]) /\ extra \subseteq tags[r]
      BY DEF Selected
    <3> HIDE DEF queries, base, extra, selects
    <3>4. (\E q \in queries : r \in Matches(q, tags))
            <=> /\ \E b \in base : (b.ids = {} \/ r \in b.ids) /\ b.tags \subseteq tags[r]
                /\ extra \subseteq tags[r]
      BY <2>3, <3>2
    <3> QED
      BY <3>1, <3>3, <3>4
  <2>6. ASSUME \A q \in queries : Cardinality(Matches(q, tags)) <= PageSize
        PROVE  List(kind, terms, tags)
                 = {r \in Resources : \E t \in ToSet(terms) : Selected(kind, t, r, tags)}
    <3>1. \A q \in queries : Answer(q, tags) = Matches(q, tags)
      BY <2>6, PageHoldsAll
    <3>2. List(kind, terms, tags) = UNION {Answer(q, tags) : q \in queries}
      BY Zenon DEF List
    <3>3. \A q : Matches(q, tags) \subseteq Resources
      BY DEF Matches
    <3> HIDE DEF queries
    <3> QED
      BY <2>5, <3>1, <3>2, <3>3
  <2> QED
    BY <2>4, <2>6, Zenon DEF FindsWhatIsSelected
<1>2. AskedInv => SelectorsFind
  BY <1>1, QuestionKinds, Zenon DEF SelectorsFind, SelectorQuestion
<1> QED
  BY <1>2, Asked, PTL
=============================================================================
