---------------------- MODULE NodeClassLifecycleProofs ----------------------
(***************************************************************************)
(* Proofs about NodeClassLifecycle, for any NodeClaims, answers and bounds *)
(* and with or without a lagging cache.                                    *)
(*                                                                         *)
(* TypeOK is inductive.  That a class in use is kept needs KeptInv: what   *)
(* the cache, a reconcile in flight or a claim has seen of the class is    *)
(* still true of it, because its finalizer is removed only at its end.     *)
(***************************************************************************)
EXTENDS NodeClassLifecycle, TLAPS

-----------------------------------------------------------------------------
(* Types.                                                                  *)

\* An answer per kind may be taken from either of two resolutions.
LEMMA MixedResolution ==
  ASSUME NEW r \in Resolutions, NEW s \in Resolutions, NEW F \in SUBSET Kinds
  PROVE  [k \in Kinds |-> IF k \in F THEN r[k] ELSE s[k]] \in Resolutions
BY DEF Resolutions

LEMMA AbsentTypes ==
  /\ NothingResolved \in Resolutions
  /\ Absent \in Objects
  /\ Absent.status \in Resolutions
  /\ ~Absent.deleting /\ ~Absent.finalizer /\ Absent.uid = 0
  /\ Absent.ready = Unknown /\ ~Ready(Absent)
<1>1. NothingResolved \in Resolutions
  BY DEF NothingResolved, Resolutions, AnyAnswer
<1> QED
  BY <1>1 DEF Absent, Objects, Ready, Unknown

\* What is not absent is a class with a positive number.
LEMMA ClassFacts ==
  ASSUME NodeClassAssumption, NEW x \in Objects, x # Absent
  PROVE  /\ x \in Classes
         /\ x.uid \in 1..MaxClasses
         /\ x.deleting => x.finalizer
         /\ Edits(x) <= MaxEdits + 1
BY DEF Objects, Classes

\* Every object has a status and a condition of the right type.
LEMMA ObjectFields ==
  ASSUME NodeClassAssumption, NEW x \in Objects
  PROVE  /\ x.status \in Resolutions
         /\ x.ready \in [value : ReadyValues, gen : 0..(MaxEdits + 2)]
<1>1. CASE x = Absent
  BY <1>1, AbsentTypes DEF Absent, Unknown, ReadyValues, NodeClassAssumption
<1>2. CASE x # Absent
  BY <1>2, ClassFacts DEF Classes
<1> QED
  BY <1>1, <1>2

\* A merge patch changes the status and the condition of a class, no more.
LEMMA MergedTypes ==
  ASSUME NodeClassAssumption, NEW x \in Objects, x # Absent,
         NEW stored \in Objects, NEW new \in Objects
  PROVE  LET m == Merged(x, stored, new) IN
           /\ m \in Objects /\ m # Absent
           /\ m.uid = x.uid /\ m.gen = x.gen
           /\ m.deleting = x.deleting /\ m.finalizer = x.finalizer
<1> DEFINE F == {k \in Kinds : new.status[k] # stored.status[k]}
           s == [k \in Kinds |-> IF k \in F THEN new.status[k] ELSE x.status[k]]
           r == IF new.ready # stored.ready THEN new.ready ELSE x.ready
           m == [x EXCEPT !.status = s, !.ready = r]
<1>1. s \in Resolutions
  <2>1. new.status \in Resolutions /\ x.status \in Resolutions
    BY ObjectFields
  <2>2. F \in SUBSET Kinds
    OBVIOUS
  <2> HIDE DEF F
  <2> QED
    BY <2>1, <2>2, MixedResolution
<1>2. r \in [value : ReadyValues, gen : 0..(MaxEdits + 2)]
  BY ObjectFields
<1>3. x \in Classes /\ (x.deleting => x.finalizer) /\ Edits(x) <= MaxEdits + 1
  BY ClassFacts
<1> HIDE DEF s, r
<1>4. /\ m \in Classes
      /\ m.uid = x.uid /\ m.gen = x.gen
      /\ m.deleting = x.deleting /\ m.finalizer = x.finalizer
  BY <1>1, <1>2, <1>3 DEF Classes
<1>5. m \in Objects
  BY <1>3, <1>4 DEF Objects, Edits
<1>6. m # Absent
  BY <1>3, <1>4 DEF Absent, Classes, NodeClassAssumption
<1>7. s = [k \in Kinds |-> IF new.status[k] # stored.status[k]
                           THEN new.status[k] ELSE x.status[k]]
  BY DEF s
<1>8. m = Merged(x, stored, new)
  BY <1>7 DEF Merged, r
<1> HIDE DEF m
<1> QED
  BY <1>4, <1>5, <1>6, <1>8

\* The copy that a reconcile works on stays an object.
LEMMA NewTypes ==
  ASSUME NodeClassAssumption, NEW x \in Objects, x # Absent,
         NEW s \in Resolutions, NEW v \in ReadyValues
  PROVE  [x EXCEPT !.status = s, !.ready = [value |-> v, gen |-> x.gen]]
           \in Objects
<1>1. x \in Classes /\ (x.deleting => x.finalizer) /\ Edits(x) <= MaxEdits + 1
  BY ClassFacts
<1> DEFINE n == [x EXCEPT !.status = s, !.ready = [value |-> v, gen |-> x.gen]]
<1>2. [value |-> v, gen |-> x.gen] \in [value : ReadyValues, gen : 0..(MaxEdits + 2)]
  BY <1>1 DEF Classes, NodeClassAssumption
<1>3. n \in Classes /\ n.gen = x.gen /\ n.deleting = x.deleting
        /\ n.finalizer = x.finalizer
  BY <1>1, <1>2 DEF Classes
<1> QED
  BY <1>1, <1>3 DEF Objects, Edits

LEMMA ReadinessTypes ==
  ASSUME NEW s \in Resolutions
  PROVE  Readiness(s) \in ReadyValues
BY DEF Readiness, ReadyValues

\* What a step may do to the class, and the types of what it leaves.
LEMMA StatusControllerKeepsTypes ==
  ASSUME TypeOK, StatusController
  PROVE  TypeOK'
<1> USE NodeClassAssumption DEF TypeOK
<1>0. View \in Objects
  BY DEF View
<1>i. Idle \in [step : {"idle", "lookUp", "patch"}, stored : Objects,
                new : Objects, again : BOOLEAN] /\ Idle.step = "idle"
  BY AbsentTypes DEF Idle
<1>1. CASE StatusSkip
  BY <1>1 DEF StatusSkip
<1>2. CASE StatusStart
  BY <1>2, <1>0, <1>i DEF StatusStart, Idle
<1>3. CASE StatusAddFinalizer
  <2> DEFINE n == [class EXCEPT !.finalizer = TRUE]
  <2>1. n \in Objects /\ n # Absent /\ n.uid = class.uid
    <3>1. class \in Classes /\ Edits(class) <= MaxEdits + 1
      BY <1>3, ClassFacts DEF StatusAddFinalizer
    <3>2. n \in Classes /\ n.finalizer /\ n.gen = class.gen
            /\ n.deleting = class.deleting /\ n.uid = class.uid
      BY <3>1 DEF Classes
    <3> QED
      BY <3>1, <3>2, AbsentTypes DEF Objects, Edits
  <2>2. class' = n /\ sync' = [Idle EXCEPT !.step = "lookUp", !.stored = n]
    BY <1>3 DEF StatusAddFinalizer
  <2> HIDE DEF n
  <2>3. sync' \in [step : {"idle", "lookUp", "patch"}, stored : Objects,
                   new : Objects, again : BOOLEAN] /\ sync'.stored = n
    BY <2>1, <2>2, <1>i DEF Idle
  <2> QED
    BY <1>3, <2>1, <2>2, <2>3 DEF StatusAddFinalizer
<1>4. CASE StatusLookUp
  <2>1. PICK found \in Found(sync.stored), failed \in SUBSET Kinds :
          LET status == [k \in Kinds |-> IF k \in failed
                           THEN sync.stored.status[k] ELSE found[k]]
          IN /\ IF failed = {} THEN UNCHANGED faults ELSE Fault
             /\ sync' = [sync EXCEPT
                  !.step = "patch",
                  !.new = [sync.stored EXCEPT
                             !.status = status,
                             !.ready = [value |-> Readiness(status),
                                        gen |-> sync.stored.gen]],
                  !.again = failed # {} \/ AsksAgain(found)]
    BY <1>4 DEF StatusLookUp
  <2> DEFINE s == [k \in Kinds |-> IF k \in failed
                     THEN sync.stored.status[k] ELSE found[k]]
             n == [sync.stored EXCEPT
                     !.status = s,
                     !.ready = [value |-> Readiness(s), gen |-> sync.stored.gen]]
  <2>2. sync.stored \in Objects /\ sync.stored # Absent
    BY <1>4 DEF StatusLookUp
  <2>3. s \in Resolutions
    <3>1. found \in Resolutions
      BY DEF Found
    <3>2. sync.stored.status \in Resolutions
      BY <2>2, ObjectFields
    <3>3. failed \in SUBSET Kinds
      OBVIOUS
    <3> QED
      BY ONLY <3>1, <3>2, <3>3, MixedResolution
  <2>5. /\ sync' = [sync EXCEPT !.step = "patch", !.new = n,
                     !.again = failed # {} \/ AsksAgain(found)]
        /\ IF failed = {} THEN UNCHANGED faults ELSE Fault
    BY <2>1
  <2> HIDE DEF s
  <2>4. n \in Objects
    BY <2>2, <2>3, NewTypes, ReadinessTypes
  <2> HIDE DEF n
  <2>6. faults' \in 0..MaxFaults
    BY <2>5 DEF Fault
  <2>7. (failed # {} \/ AsksAgain(found)) \in BOOLEAN
    BY DEF AsksAgain
  <2>8. sync' \in [step : {"idle", "lookUp", "patch"}, stored : Objects,
                   new : Objects, again : BOOLEAN] /\ sync'.stored = sync.stored
    BY <2>4, <2>5, <2>7
  <2> QED
    BY <1>4, <2>2, <2>6, <2>8 DEF StatusLookUp
<1>5. CASE StatusPatch
  <2>1. class' \in Objects /\ class'.uid \in {0, created}
    BY <1>5, MergedTypes, AbsentTypes DEF StatusPatch
  <2> QED
    BY <1>5, <1>i, <2>1 DEF StatusPatch
<1>6. CASE StatusPatchFails
  BY <1>6, <1>i DEF StatusPatchFails, Fault
<1> QED
  BY <1>1, <1>2, <1>3, <1>4, <1>5, <1>6 DEF StatusController

LEMMA TerminationControllerKeepsTypes ==
  ASSUME TypeOK, TerminationController
  PROVE  TypeOK'
<1> USE NodeClassAssumption, AbsentTypes DEF TypeOK
<1>1. CASE TermSkip
  BY <1>1 DEF TermSkip
<1>2. CASE TermStart
  BY <1>2 DEF TermStart, View
<1>3. CASE TermUpdate
  BY <1>3 DEF TermUpdate
<1>4. CASE TermUpdateFails
  BY <1>4 DEF TermUpdateFails, Fault
<1> QED
  BY <1>1, <1>2, <1>3, <1>4 DEF TerminationController

LEMMA NodeClaimKeepsTypes ==
  ASSUME TypeOK, NEW c \in Claims, NodeClaim(c)
  PROVE  TypeOK'
<1> USE DEF TypeOK
<1>1. CASE CreateClaim(c)
  BY <1>1 DEF CreateClaim
<1>2. CASE ResolveNodeClass(c)
  BY <1>2 DEF ResolveNodeClass
<1>3. CASE EndCreate(c)
  BY <1>3 DEF EndCreate
<1>4. CASE RemoveClaim(c)
  BY <1>4 DEF RemoveClaim
<1> QED
  BY <1>1, <1>2, <1>3, <1>4 DEF NodeClaim

LEMMA EnvironmentKeepsTypes ==
  ASSUME TypeOK, Environment
  PROVE  TypeOK'
<1> USE NodeClassAssumption DEF TypeOK
<1>1. CASE CreateClass
  <2> DEFINE n == [Absent EXCEPT !.uid = created + 1, !.gen = 1]
  <2>1. n \in Objects /\ n.uid = created + 1
    <3>1. Unknown \in [value : ReadyValues, gen : 0..(MaxEdits + 2)]
      BY DEF Unknown, ReadyValues
    <3>2. Absent \in [uid : Nat, gen : Nat, deleting : BOOLEAN,
                      finalizer : BOOLEAN, status : Resolutions,
                      ready : [value : ReadyValues, gen : 0..(MaxEdits + 2)]]
      BY <3>1, AbsentTypes DEF Absent
    <3>3. created + 1 \in 1..MaxClasses
      BY <1>1 DEF CreateClass
    <3>4. 1 \in 1..(MaxEdits + 2) /\ ~Absent.deleting
      BY AbsentTypes
    <3>5. n \in Classes /\ ~n.deleting /\ n.gen = 1 /\ n.uid = created + 1
      BY ONLY <3>2, <3>3, <3>4 DEF Classes
    <3> HIDE DEF n
    <3>6. Edits(n) <= MaxEdits + 1
      BY <3>5 DEF Edits
    <3> QED
      BY <3>5, <3>6 DEF Objects
  <2>2. class' = n /\ created' = created + 1 /\ created' \in 0..MaxClasses
    BY <1>1 DEF CreateClass
  <2> HIDE DEF n
  <2> QED
    BY <1>1, <2>1, <2>2 DEF CreateClass
<1>2. CASE EditSpec
  <2> DEFINE n == [class EXCEPT !.gen = @ + 1]
  <2>1. n \in Objects /\ n.uid = class.uid
    <3>1. class \in Classes /\ (class.deleting => class.finalizer)
            /\ class.gen <= MaxEdits
      BY <1>2, ClassFacts DEF EditSpec
    <3>2. n.gen = class.gen + 1 /\ n.uid = class.uid
            /\ n.deleting = class.deleting /\ n.finalizer = class.finalizer
      BY <3>1 DEF Classes
    <3>3. n.gen \in 1..(MaxEdits + 2) /\ Edits(n) <= MaxEdits + 1
      BY <3>1, <3>2 DEF Edits, Classes
    <3>4. n \in Classes
      BY <3>1, <3>3 DEF Classes
    <3> QED
      BY <3>1, <3>2, <3>3, <3>4 DEF Objects
  <2>2. class' = n
    BY <1>2 DEF EditSpec
  <2> HIDE DEF n
  <2> QED
    BY <1>2, <2>1, <2>2 DEF EditSpec
<1>3. CASE DeleteClass
  <2> DEFINE n == [class EXCEPT !.deleting = TRUE, !.gen = @ + 1]
  <2>1. ASSUME class.finalizer
        PROVE  n \in Objects /\ n.uid = class.uid
    <3>1. class \in Classes /\ ~class.deleting /\ Edits(class) <= MaxEdits + 1
      BY <1>3, ClassFacts DEF DeleteClass
    <3>2. n.gen = class.gen + 1 /\ n.uid = class.uid
            /\ n.deleting /\ n.finalizer = class.finalizer
      BY <3>1 DEF Classes
    <3>3. n.gen \in 1..(MaxEdits + 2) /\ Edits(n) <= MaxEdits + 1
      BY <3>1, <3>2 DEF Edits, Classes
    <3>4. n \in Classes
      BY <3>1, <3>3 DEF Classes
    <3> QED
      BY <2>1, <3>2, <3>3, <3>4 DEF Objects
  <2>2. class' = IF class.finalizer THEN n ELSE Absent
    BY <1>3 DEF DeleteClass
  <2> HIDE DEF n
  <2>3. class' \in Objects /\ class'.uid \in {0, created}
    BY <2>1, <2>2, AbsentTypes
  <2> QED
    BY <1>3, <2>3 DEF DeleteClass
<1>4. CASE CloudChanges
  BY <1>4 DEF CloudChanges
<1>5. CASE Deliver
  BY <1>5 DEF Deliver
<1>6. CASE Notify
  BY <1>6 DEF Notify
<1>7. CASE Restart
  <2>1. sync' = Idle /\ Idle.step = "idle"
          /\ Idle \in [step : {"idle", "lookUp", "patch"}, stored : Objects,
                        new : Objects, again : BOOLEAN]
    BY <1>7, AbsentTypes DEF Restart, Idle
  <2>2. claims' \in [Claims -> {"absent", "pending", "launching", "launched", "gone"}]
    BY <1>7 DEF Restart
  <2> QED
    BY <1>7, <2>1, <2>2, AbsentTypes DEF Restart, Fault
<1> QED
  BY <1>1, <1>2, <1>3, <1>4, <1>5, <1>6, <1>7 DEF Environment

\* Whatever is read, merged and written by name, the class, its cached copy
\* and the copies in flight stay well formed: a deleting class has its
\* finalizer, and the object under the name is the last one created.
THEOREM TypeCorrect == Spec => []TypeOK
<1>1. Init => TypeOK
  <2> SUFFICES ASSUME Init PROVE TypeOK
    OBVIOUS
  <2>1. Idle.step = "idle"
          /\ Idle \in [step : {"idle", "lookUp", "patch"}, stored : Objects,
                        new : Objects, again : BOOLEAN]
    BY AbsentTypes DEF Idle
  <2>2. 0 \in 0..MaxFaults /\ 0 \in 0..MaxClasses
    BY NodeClassAssumption
  <2> QED
    BY <2>1, <2>2, AbsentTypes DEF Init, TypeOK
<1>2. TypeOK /\ [Next]_vars => TypeOK'
  <2> SUFFICES ASSUME TypeOK, [Next]_vars
               PROVE  TypeOK'
    OBVIOUS
  <2>1. CASE UNCHANGED vars
    BY <2>1 DEF vars, TypeOK
  <2> QED
    BY <2>1, StatusControllerKeepsTypes, TerminationControllerKeepsTypes,
       NodeClaimKeepsTypes, EnvironmentKeepsTypes DEF Next
<1> QED
  BY <1>1, <1>2, PTL DEF Spec

-----------------------------------------------------------------------------
(* A class in use is kept.                                                 *)
Used == \E c \in Claims : claims[c] \in {"launching", "launched"}

\* Before the class was created nobody knows of it.
NotCreated ==
  created = 0 => /\ class = Absent /\ seen = Absent /\ condemned = Absent
                 /\ sync.step = "idle"
                 /\ ~Used

\* Readiness is written after the finalizer; and whoever saw the finalizer,
\* in the cache, in a reconcile or by launching, may rely on it.
FinalizerHolds ==
  /\ Ready(class) => class.finalizer
  /\ Ready(seen) => seen.finalizer
  /\ (class # Absent /\ (seen.finalizer \/ sync.step # "idle" \/ Used))
       => class.finalizer

\* A deletion is not taken back.
DeletionHolds == seen.deleting => (class = Absent \/ class.deleting)

\* What is about to be finalized is not launched from any more.
CondemnedIsUnused ==
  condemned # Absent => /\ (View = Absent \/ View.deleting)
                        /\ (class = Absent \/ class.deleting)
                        /\ ~Used

KeptInv == NotCreated /\ FinalizerHolds /\ DeletionHolds /\ CondemnedIsUnused

LEMMA StatusControllerKeepsKept ==
  ASSUME TypeOK, KeptInv, StatusController
  PROVE  KeptInv'
<1> USE NodeClassAssumption
    DEF KeptInv, NotCreated, FinalizerHolds, DeletionHolds, CondemnedIsUnused, Used, View
<1>0. /\ class \in Objects /\ seen \in Objects
      /\ class # Absent => class.uid \in 1..MaxClasses
      /\ class # Absent => created # 0
  BY ClassFacts DEF TypeOK
<1>1. CASE StatusSkip
  BY <1>1 DEF StatusSkip
<1>2. CASE StatusStart
  <2>1. sync'.step # "idle" /\ View.finalizer /\ View # Absent
    BY <1>2 DEF StatusStart, Idle
  <2>2. UNCHANGED <<class, seen, created, condemned, claims>>
    BY <1>2 DEF StatusStart
  <2> QED
    BY <2>1, <2>2
<1>3. CASE StatusAddFinalizer
  <2>1. /\ class' # Absent /\ class'.finalizer
        /\ class'.deleting = class.deleting /\ class'.ready = class.ready
    <3>1. class \in Classes
      BY <1>3, ClassFacts DEF TypeOK, StatusAddFinalizer
    <3>2. class' = [class EXCEPT !.finalizer = TRUE]
      BY <1>3 DEF StatusAddFinalizer
    <3>3. class'.finalizer /\ class'.deleting = class.deleting
            /\ class'.ready = class.ready
      BY <3>1, <3>2 DEF Classes
    <3> QED
      BY <3>3, AbsentTypes
  <2>2. UNCHANGED <<seen, created, condemned, claims>> /\ class # Absent
    BY <1>3 DEF StatusAddFinalizer
  <2> QED
    BY <2>1, <2>2, <1>0 DEF Ready
<1>4. CASE StatusLookUp
  <2>1. sync.step = "lookUp"
    BY <1>4 DEF StatusLookUp
  <2>2. UNCHANGED <<class, seen, created, condemned, claims>>
    BY <1>4 DEF StatusLookUp
  <2> QED
    BY <2>1, <2>2
<1>5. CASE StatusPatch
  <2>1. UNCHANGED <<seen, created, condemned, claims>> /\ sync'.step = "idle"
          /\ sync.step # "idle"
    BY <1>5 DEF StatusPatch, Idle
  <2>2. CASE class = Absent
    <3>1. class' = class
      BY <1>5, <2>2 DEF StatusPatch
    <3> QED
      BY <2>1, <3>1
  <2>3. CASE class # Absent
    <3>1. /\ class' # Absent
          /\ class'.deleting = class.deleting /\ class'.finalizer = class.finalizer
      BY <1>5, <2>3, MergedTypes DEF StatusPatch, TypeOK
    <3>2. class.finalizer
      BY <2>1, <2>3
    <3> QED
      BY <2>1, <2>3, <3>1, <3>2, <1>0
  <2> QED
    BY <2>2, <2>3
<1>6. CASE StatusPatchFails
  <2>1. UNCHANGED <<class, seen, created, condemned, claims>> /\ sync'.step = "idle"
    BY <1>6 DEF StatusPatchFails, Idle
  <2> QED
    BY <2>1
<1> QED
  BY <1>1, <1>2, <1>3, <1>4, <1>5, <1>6 DEF StatusController

LEMMA TerminationControllerKeepsKept ==
  ASSUME TypeOK, KeptInv, TerminationController
  PROVE  KeptInv'
<1> USE NodeClassAssumption, AbsentTypes
    DEF KeptInv, NotCreated, FinalizerHolds, DeletionHolds, CondemnedIsUnused, Used, View
<1>1. CASE TermSkip
  BY <1>1 DEF TermSkip
<1>2. CASE TermStart
  BY <1>2 DEF TermStart, ClaimExists
<1>3. CASE TermUpdate
  BY <1>3 DEF TermUpdate
<1>4. CASE TermUpdateFails
  BY <1>4 DEF TermUpdateFails
<1> QED
  BY <1>1, <1>2, <1>3, <1>4 DEF TerminationController

LEMMA NodeClaimKeepsKept ==
  ASSUME TypeOK, KeptInv, NEW c \in Claims, NodeClaim(c)
  PROVE  KeptInv'
<1> USE NodeClassAssumption, AbsentTypes
    DEF KeptInv, NotCreated, FinalizerHolds, DeletionHolds, CondemnedIsUnused, Used, View
<1>0. claims \in [Claims -> {"absent", "pending", "launching", "launched", "gone"}]
  BY DEF TypeOK
<1>1. CASE CreateClaim(c)
  BY <1>0, <1>1 DEF CreateClaim
<1>2. CASE ResolveNodeClass(c)
  BY <1>0, <1>2 DEF ResolveNodeClass
<1>3. CASE EndCreate(c)
  BY <1>0, <1>3 DEF EndCreate
<1>4. CASE RemoveClaim(c)
  BY <1>0, <1>4 DEF RemoveClaim
<1> QED
  BY <1>1, <1>2, <1>3, <1>4 DEF NodeClaim

LEMMA EnvironmentKeepsKept ==
  ASSUME TypeOK, KeptInv, Environment, MaxClasses = 1
  PROVE  KeptInv'
<1> USE NodeClassAssumption, AbsentTypes
    DEF KeptInv, NotCreated, FinalizerHolds, DeletionHolds, CondemnedIsUnused, Used, View
<1>0. class # Absent => class \in Classes
  BY ClassFacts DEF TypeOK
<1>1. CASE CreateClass
  <2>1. created = 0 /\ created' = 1
    BY <1>1 DEF CreateClass, TypeOK
  <2>2. class'.ready = Unknown /\ class' # Absent
    <3> DEFINE n == [Absent EXCEPT !.uid = created', !.gen = 1]
    <3>1. n.ready = Absent.ready /\ n.uid = created'
      BY DEF Absent
    <3>2. class' = n
      BY <1>1 DEF CreateClass
    <3> HIDE DEF n
    <3> QED
      BY <2>1, <3>1, <3>2
  <2>3. UNCHANGED <<seen, condemned, claims, sync>>
    BY <1>1 DEF CreateClass
  <2> QED
    BY <2>1, <2>2, <2>3 DEF Ready, Unknown
<1>2. CASE EditSpec
  <2>1. /\ class'.deleting = class.deleting /\ class'.finalizer = class.finalizer
        /\ class'.ready = class.ready /\ class # Absent
    BY <1>0, <1>2 DEF EditSpec, Classes
  <2>2. class'.uid = class.uid /\ class.uid # 0
    BY <1>0, <1>2 DEF EditSpec, Classes
  <2>3. UNCHANGED <<seen, created, condemned, claims, sync>> /\ class' # Absent
    BY <1>2, <2>2 DEF EditSpec
  <2> QED
    BY <2>1, <2>3 DEF Ready
<1>3. CASE DeleteClass
  <2>1. UNCHANGED <<seen, created, condemned, claims, sync>> /\ class # Absent
    BY <1>3 DEF DeleteClass
  <2>2. CASE class.finalizer
    <3>1. class'.deleting /\ class'.finalizer
      BY <1>0, <1>3, <2>2 DEF DeleteClass, Classes
    <3> QED
      BY <2>1, <2>2, <3>1
  <2>3. CASE ~class.finalizer
    <3>1. class' = Absent
      BY <1>3, <2>3 DEF DeleteClass
    <3> QED
      BY <2>1, <3>1
  <2> QED
    BY <2>2, <2>3
<1>4. CASE CloudChanges
  BY <1>4 DEF CloudChanges
<1>5. CASE Deliver
  BY <1>5 DEF Deliver
<1>6. CASE Notify
  BY <1>6 DEF Notify
<1>7. CASE Restart
  <2>1. Used' => Used
    BY <1>7 DEF Restart, TypeOK
  <2>2. sync'.step = "idle" /\ condemned' = Absent /\ seen' = class
          /\ class' = class /\ created' = created
    BY <1>7 DEF Restart, Idle
  <2> QED
    BY <2>1, <2>2
<1> QED
  BY <1>1, <1>2, <1>3, <1>4, <1>5, <1>6, <1>7 DEF Environment

\* A step that removes the class is the update of the termination controller
\* or the deletion of a class without its finalizer.
LEMMA RemovalIsUnused ==
  ASSUME TypeOK, KeptInv, Next, class # Absent, class' = Absent
  PROVE  ~Used
<1> USE NodeClassAssumption, AbsentTypes
<1>1. CASE StatusController
  <2>1. CASE StatusAddFinalizer
    <3>1. class \in Classes
      BY ClassFacts DEF TypeOK
    <3>2. class'.finalizer
      BY <2>1, <3>1 DEF StatusAddFinalizer, Classes
    <3> QED
      BY <3>2
  <2>2. CASE StatusPatch
    BY <2>2, MergedTypes DEF StatusPatch, TypeOK
  <2> QED
    BY <1>1, <2>1, <2>2 DEF StatusController, StatusSkip, StatusStart, StatusLookUp,
       StatusPatchFails
<1>2. CASE TerminationController
  <2>1. CASE TermUpdate
    BY <2>1 DEF TermUpdate, KeptInv, CondemnedIsUnused
  <2> QED
    BY <1>2, <2>1 DEF TerminationController, TermSkip, TermStart, TermUpdateFails
<1>3. ASSUME NEW c \in Claims, NodeClaim(c)
      PROVE  ~Used
  BY <1>3 DEF NodeClaim, CreateClaim, ResolveNodeClass, EndCreate, RemoveClaim
<1>4. CASE Environment
  <2>1. CASE EditSpec
    <3>1. class \in Classes
      BY ClassFacts DEF TypeOK
    <3>2. class'.uid = class.uid /\ class.uid # 0
      BY <2>1, <3>1 DEF EditSpec, Classes
    <3> QED
      BY <3>2
  <2>2. CASE DeleteClass
    <3>1. class \in Classes
      BY ClassFacts DEF TypeOK
    <3>2. class.finalizer => class'.deleting
      BY <2>2, <3>1 DEF DeleteClass, Classes
    <3>3. ~class.finalizer
      BY <3>2
    <3> QED
      BY <3>3 DEF KeptInv, FinalizerHolds
  <2> QED
    BY <1>4, <2>1, <2>2 DEF Environment, CreateClass, CloudChanges, Deliver, Notify,
       Restart
<1> QED
  BY <1>1, <1>2, <1>3, <1>4 DEF Next

\* As long as the name of a class is not used again, no class goes away under
\* a launch that it let pass, even with a lagging cache: Create and finalize
\* read the class and the NodeClaims from the same cache.
THEOREM UsedClassIsKept ==
  ASSUME MaxClasses = 1
  PROVE  Spec => ClassKeptWhileUsed
<1>1. Init => KeptInv
  BY AbsentTypes DEF Init, KeptInv, NotCreated, FinalizerHolds, DeletionHolds,
     CondemnedIsUnused, Used, Idle
<1>2. TypeOK /\ KeptInv /\ [Next]_vars => KeptInv'
  <2> SUFFICES ASSUME TypeOK, KeptInv, [Next]_vars
               PROVE  KeptInv'
    OBVIOUS
  <2>1. CASE UNCHANGED vars
    BY <2>1 DEF vars, KeptInv, NotCreated, FinalizerHolds, DeletionHolds,
       CondemnedIsUnused, Used, View
  <2> QED
    BY <2>1, StatusControllerKeepsKept, TerminationControllerKeepsKept,
       NodeClaimKeepsKept, EnvironmentKeepsKept DEF Next
<1> DEFINE A == class # Absent /\ class' = Absent =>
                  \A c \in Claims : claims[c] \notin {"launching", "launched"}
<1>3. TypeOK /\ KeptInv /\ [Next]_vars => A \/ UNCHANGED vars
  BY RemovalIsUnused DEF Used
<1>4. A \/ UNCHANGED vars <=> [A]_vars
  OBVIOUS
<1>5. TypeOK /\ KeptInv /\ [Next]_vars => [A]_vars
  BY <1>3, <1>4
<1>6. Spec => [][A]_vars
  BY <1>1, <1>2, <1>5, TypeCorrect, PTL DEF Spec
<1> QED
  BY <1>6 DEF ClassKeptWhileUsed

-----------------------------------------------------------------------------
(* A class with the finalizer is kept while it is used, be the name reused *)
(* or not.  What is about to be finalized is matched with the class by its *)
(* number, so that neither a lagging cache nor a recreation confuses them. *)

\* A class that has the finalizer, which every class gets before its first
\* own status patch, is not removed under a launch: finalize never takes an
\* old class, or old NodeClaims, for the present ones (termination finalize).
FinalizerKeepsUsed ==
  [][class # Absent /\ class.finalizer /\ class' = Absent =>
       \A c \in Claims : claims[c] \notin {"launching", "launched"}]_vars

\* Copies of the class are not newer than the class, and a deletion that is
\* seen of the present class is true.
CopiesAreOld ==
  /\ seen.uid <= created /\ condemned.uid <= created
  /\ class # Absent /\ seen.uid = class.uid /\ seen.deleting => class.deleting

\* The present class, if it is about to be finalized, is deleting and unused,
\* and no launch passes its gate any more.
FinalizedIsUnused ==
  condemned # Absent /\ class # Absent /\ class.uid = condemned.uid =>
    class.deleting /\ ~Used /\ (View = Absent \/ View.deleting)

SparedInv == CopiesAreOld /\ FinalizedIsUnused

\* The class is removed, or stays the one it is; a deletion is not taken back.
SameClass ==
  \/ class' = class
  \/ class' = Absent
  \/ /\ class # Absent /\ class'.uid = class.uid
     /\ class.deleting => class'.deleting

LEMMA SameClassSpares ==
  ASSUME SparedInv, SameClass, Used' => Used, UNCHANGED <<seen, created, condemned>>
  PROVE  SparedInv'
BY DEF SparedInv, CopiesAreOld, FinalizedIsUnused, SameClass, View

LEMMA ClassStaysTheSame ==
  ASSUME TypeOK, StatusController \/ TermUpdate \/ EditSpec \/ DeleteClass
  PROVE  SameClass
<1> USE NodeClassAssumption, AbsentTypes DEF SameClass
<1>0. class # Absent => class \in Classes
  BY ClassFacts DEF TypeOK
<1>1. CASE StatusController
  <2>1. CASE StatusAddFinalizer
    BY <1>0, <2>1 DEF StatusAddFinalizer, Classes
  <2>2. CASE StatusPatch
    BY <2>2, MergedTypes DEF StatusPatch, TypeOK
  <2> QED
    BY <1>1, <2>1, <2>2 DEF StatusController, StatusSkip, StatusStart, StatusLookUp,
       StatusPatchFails
<1>2. CASE TermUpdate
  BY <1>2 DEF TermUpdate
<1>3. CASE EditSpec
  BY <1>0, <1>3 DEF EditSpec, Classes
<1>4. CASE DeleteClass
  BY <1>0, <1>4 DEF DeleteClass, Classes
<1> QED
  BY <1>1, <1>2, <1>3, <1>4

LEMMA TerminationControllerSpares ==
  ASSUME TypeOK, SparedInv, TerminationController
  PROVE  SparedInv'
<1> USE NodeClassAssumption, AbsentTypes
<1>0. created \in Nat /\ Absent.uid = 0
  BY DEF TypeOK, Absent
<1>1. CASE TermSkip
  BY <1>1, SameClassSpares DEF TermSkip, SameClass, Used
<1>2. CASE TermStart
  BY <1>0, <1>2
  DEF TermStart, SparedInv, CopiesAreOld, FinalizedIsUnused, View, Used, ClaimExists, TypeOK
<1>3. CASE TermUpdate \/ TermUpdateFails
  <2>1. condemned' = Absent /\ UNCHANGED <<seen, created, claims>>
    BY <1>3 DEF TermUpdate, TermUpdateFails
  <2>2. SameClass
    BY <1>3, ClassStaysTheSame DEF TermUpdateFails, SameClass
  <2> QED
    BY <1>0, <2>1, <2>2 DEF SparedInv, CopiesAreOld, FinalizedIsUnused, SameClass
<1> QED
  BY <1>1, <1>2, <1>3 DEF TerminationController

LEMMA NodeClaimSpares ==
  ASSUME TypeOK, SparedInv, NEW c \in Claims, NodeClaim(c)
  PROVE  SparedInv'
<1>1. CASE ResolveNodeClass(c)
  \* The class is not deleting, so it is not about to be finalized.
  BY <1>1 DEF ResolveNodeClass, SparedInv, CopiesAreOld, FinalizedIsUnused, View
<1>2. CASE CreateClaim(c) \/ EndCreate(c) \/ RemoveClaim(c)
  <2>1. Used' => Used
    BY <1>2 DEF CreateClaim, EndCreate, RemoveClaim, Used, TypeOK
  <2> QED
    BY <1>2, <2>1, SameClassSpares DEF CreateClaim, EndCreate, RemoveClaim, SameClass
<1> QED
  BY <1>1, <1>2 DEF NodeClaim

LEMMA EnvironmentSpares ==
  ASSUME TypeOK, SparedInv, Environment
  PROVE  SparedInv'
<1> USE NodeClassAssumption, AbsentTypes
<1>0. /\ class # Absent => class \in Classes
      /\ class.uid \in {0, created} /\ created \in Nat /\ Absent.uid = 0
  BY ClassFacts DEF TypeOK, Absent
<1>1. CASE CreateClass
  \* The new number is nobody's yet.
  <2>1. class'.uid = created + 1 /\ created' = created + 1
    <3> DEFINE n == [Absent EXCEPT !.uid = created', !.gen = 1]
    <3>1. n.uid = created'
      BY DEF Absent
    <3>2. class' = n
      BY <1>1 DEF CreateClass
    <3> HIDE DEF n
    <3> QED
      BY <1>1, <3>1, <3>2 DEF CreateClass
  <2>2. UNCHANGED <<seen, condemned>>
    BY <1>1 DEF CreateClass
  <2>3. seen.uid \in Nat /\ condemned.uid \in Nat
    BY <1>0, ClassFacts DEF TypeOK
  <2> QED
    BY <1>0, <2>1, <2>2, <2>3 DEF SparedInv, CopiesAreOld, FinalizedIsUnused
<1>2. CASE EditSpec \/ DeleteClass
  BY <1>2, ClassStaysTheSame, SameClassSpares DEF EditSpec, DeleteClass, Used
<1>3. CASE CloudChanges \/ Notify
  BY <1>3, SameClassSpares DEF CloudChanges, Notify, SameClass, Used
<1>4. CASE Deliver
  BY <1>0, <1>4 DEF Deliver, SparedInv, CopiesAreOld, FinalizedIsUnused, View, Used
<1>5. CASE Restart
  BY <1>0, <1>5 DEF Restart, SparedInv, CopiesAreOld, FinalizedIsUnused
<1> QED
  BY <1>1, <1>2, <1>3, <1>4, <1>5 DEF Environment

\* Nothing but the update of the termination controller removes a class that
\* has the finalizer.
LEMMA FinalizerRemovalIsUnused ==
  ASSUME TypeOK, SparedInv, Next, class # Absent, class.finalizer, class' = Absent
  PROVE  ~Used
<1> USE NodeClassAssumption, AbsentTypes
<1>0. class \in Classes
  BY ClassFacts DEF TypeOK
<1>1. CASE StatusController
  <2>1. CASE StatusAddFinalizer
    BY <1>0, <2>1 DEF StatusAddFinalizer
  <2>2. CASE StatusPatch
    BY <2>2, MergedTypes DEF StatusPatch, TypeOK
  <2> QED
    BY <1>1, <2>1, <2>2 DEF StatusController, StatusSkip, StatusStart, StatusLookUp,
       StatusPatchFails
<1>2. CASE TerminationController
  <2>1. CASE TermUpdate
    BY <2>1 DEF TermUpdate, SparedInv, FinalizedIsUnused
  <2> QED
    BY <1>2, <2>1 DEF TerminationController, TermSkip, TermStart, TermUpdateFails
<1>3. ASSUME NEW c \in Claims, NodeClaim(c)
      PROVE  ~Used
  BY <1>3 DEF NodeClaim, CreateClaim, ResolveNodeClass, EndCreate, RemoveClaim
<1>4. CASE Environment
  <2>1. CASE EditSpec
    <3>1. class'.uid = class.uid /\ class.uid # 0
      BY <1>0, <2>1 DEF EditSpec, Classes
    <3> QED
      BY <3>1
  <2>2. CASE DeleteClass
    <3>1. class'.deleting
      BY <1>0, <2>2 DEF DeleteClass, Classes
    <3> QED
      BY <3>1
  <2> QED
    BY <1>4, <2>1, <2>2 DEF Environment, CreateClass, CloudChanges, Deliver, Notify,
       Restart
<1> QED
  BY <1>1, <1>2, <1>3, <1>4 DEF Next

\* However often the name is reused and however far the cache lags, finalize
\* removes no class under a launch that it let pass.
THEOREM FinalizeSparesUsedClasses == Spec => FinalizerKeepsUsed
<1>1. Init => SparedInv
  BY AbsentTypes DEF Init, SparedInv, CopiesAreOld, FinalizedIsUnused, Absent
<1>2. TypeOK /\ SparedInv /\ [Next]_vars => SparedInv'
  <2> SUFFICES ASSUME TypeOK, SparedInv, [Next]_vars
               PROVE  SparedInv'
    OBVIOUS
  <2>1. CASE UNCHANGED vars
    BY <2>1, SameClassSpares DEF vars, SameClass, Used
  <2>2. CASE StatusController
    <3>1. UNCHANGED <<seen, created, condemned, claims>>
      BY <2>2 DEF StatusController, StatusSkip, StatusStart, StatusAddFinalizer,
         StatusLookUp, StatusPatch, StatusPatchFails
    <3> QED
      BY <2>2, <3>1, ClassStaysTheSame, SameClassSpares DEF Used
  <2> QED
    BY <2>1, <2>2, TerminationControllerSpares, NodeClaimSpares, EnvironmentSpares
    DEF Next
<1> DEFINE A == class # Absent /\ class.finalizer /\ class' = Absent =>
                  \A c \in Claims : claims[c] \notin {"launching", "launched"}
<1>3. TypeOK /\ SparedInv /\ [Next]_vars => A \/ UNCHANGED vars
  BY FinalizerRemovalIsUnused DEF Used
<1>4. A \/ UNCHANGED vars <=> [A]_vars
  OBVIOUS
<1>5. TypeOK /\ SparedInv /\ [Next]_vars => [A]_vars
  BY <1>3, <1>4
<1>6. Spec => [][A]_vars
  BY <1>1, <1>2, <1>5, TypeCorrect, PTL DEF Spec
<1> QED
  BY <1>6 DEF FinalizerKeepsUsed

-----------------------------------------------------------------------------
(* A class that is Ready without what readiness asks for is looked at      *)
(* again.  A patch undoes nothing: while a reconcile works on a copy that  *)
(* is not the class, either the name is queued again, or the copy is the   *)
(* one in the cache, or the cache will still learn of a newer class.       *)
Justified(x) == x.status["subnets"] # Nothing /\ x.status["securityGroups"] # Nothing

\* y is a later version of the class than x, or a later class.
Older(x, y) ==
  \/ x.uid < y.uid
  \/ x.uid = y.uid /\ (x.gen < y.gen \/ (y.finalizer /\ ~x.finalizer))

SeenIsNotAhead ==
  /\ seen.uid <= created
  /\ class # Absent /\ seen.uid = class.uid => seen.gen <= class.gen

SyncIsCurrent ==
  sync.step # "idle" =>
    \/ statusQueued \/ class = Absent
    \/ sync.stored \in {class, seen}
    \/ Older(seen, class)

NewIsJustified ==
  sync.step = "patch" /\ Ready(sync.new) => Justified(sync.new)

\* When the cache is up to date, a queued request or the reconcile of this very
\* copy will replace a condition that is not justified.
WillBeJustified ==
  Ready(class) /\ ~Justified(class) /\ seen = class =>
    statusQueued \/ (sync.step # "idle" /\ sync.stored = class)

RevisitInv == SeenIsNotAhead /\ SyncIsCurrent /\ NewIsJustified /\ WillBeJustified

\* Only subnets and security groups make a class ready.
LEMMA ReadinessIsJustified ==
  ASSUME NEW s, Readiness(s) = "true"
  PROVE  s["subnets"] # Nothing /\ s["securityGroups"] # Nothing
BY DEF Readiness

\* A patch of a class that nobody changed turns it into what was computed.
LEMMA PatchOfCurrent ==
  ASSUME NodeClassAssumption, NEW x \in Objects, x # Absent, NEW new \in Objects,
         Ready(new) => Justified(new)
  PROVE  Ready(Merged(x, x, new)) => Justified(Merged(x, x, new))
<1> DEFINE m == Merged(x, x, new)
<1>1. x \in Classes
  BY ClassFacts
<1>2. /\ m.status = [k \in Kinds |-> IF new.status[k] # x.status[k]
                                     THEN new.status[k] ELSE x.status[k]]
      /\ m.ready = IF new.ready # x.ready THEN new.ready ELSE x.ready
  BY <1>1 DEF Merged, Classes
<1>3. m.ready = new.ready
  BY <1>2
<1>4. /\ m.status["subnets"] = new.status["subnets"]
      /\ m.status["securityGroups"] = new.status["securityGroups"]
  BY <1>2 DEF Kinds
<1> QED
  BY <1>3, <1>4 DEF Ready, Justified

\* A patch never brings a class back to the copy that it started from.
LEMMA PatchUndoesNothing ==
  ASSUME NodeClassAssumption, NEW x \in Objects, x # Absent,
         NEW stored \in Objects, NEW new \in Objects,
         Merged(x, stored, new) = stored
  PROVE  x = stored
<1> DEFINE m == Merged(x, stored, new)
<1>1. x \in Classes
  BY ClassFacts
<1>2. /\ m.status = [k \in Kinds |-> IF new.status[k] # stored.status[k]
                                     THEN new.status[k] ELSE x.status[k]]
      /\ m.ready = IF new.ready # stored.ready THEN new.ready ELSE x.ready
      /\ m = [x EXCEPT !.status = m.status, !.ready = m.ready]
  BY <1>1 DEF Merged, Classes
<1>3. m.ready = x.ready
  BY <1>2
<1>4. \A k \in Kinds : m.status[k] = x.status[k]
  BY <1>2
<1>5. m.status = x.status
  <2>1. x.status \in [Kinds -> AnyAnswer]
    BY <1>1 DEF Classes, Resolutions
  <2> QED
    BY <1>2, <1>4, <2>1
<1>6. m = x
  BY <1>1, <1>2, <1>3, <1>5 DEF Classes
<1> QED
  BY <1>6

LEMMA VersionFacts ==
  ASSUME TypeOK
  PROVE  /\ created \in Nat /\ seen.uid \in Nat /\ class.uid \in Nat
         /\ seen.gen \in Nat /\ class.gen \in Nat
         /\ class # Absent => class.uid = created /\ class.uid # 0
<1>1. \A x \in Objects : x.uid \in Nat /\ x.gen \in Nat
  BY NodeClassAssumption DEF Objects, Classes, Absent
<1>2. class # Absent => class.uid # 0
  BY NodeClassAssumption, ClassFacts DEF TypeOK
<1> QED
  BY <1>1, <1>2, NodeClassAssumption DEF TypeOK

LEMMA StatusControllerRevisits ==
  ASSUME TypeOK, RevisitInv, StatusController
  PROVE  RevisitInv'
<1> USE NodeClassAssumption
<1>0. SeenIsNotAhead /\ SyncIsCurrent /\ NewIsJustified /\ WillBeJustified
  BY DEF RevisitInv
<1>1. CASE StatusSkip
  <2>1. /\ UNCHANGED <<class, seen, created, sync>>
        /\ sync.step = "idle" /\ View = Absent
    BY <1>1 DEF StatusSkip
  <2>2. SeenIsNotAhead' /\ SyncIsCurrent' /\ NewIsJustified'
    BY <1>0, <2>1 DEF SeenIsNotAhead, SyncIsCurrent, NewIsJustified
  <2>3. ~(Ready(class) /\ seen = class)
    BY <2>1, AbsentTypes DEF View
  <2>4. WillBeJustified'
    BY <2>1, <2>3 DEF WillBeJustified
  <2> QED
    BY <2>2, <2>4 DEF RevisitInv
<1>2. CASE StatusStart
  <2>1. /\ UNCHANGED <<class, seen, created>>
        /\ sync'.step = "lookUp" /\ sync'.stored = View
    BY <1>2 DEF StatusStart, Idle
  <2>2. View \in {class, seen} /\ (seen = class => View = class)
    BY DEF View
  <2>3. SeenIsNotAhead' /\ SyncIsCurrent' /\ NewIsJustified'
    BY <1>0, <2>1, <2>2 DEF SeenIsNotAhead, SyncIsCurrent, NewIsJustified
  <2>4. WillBeJustified'
    BY <2>1, <2>2 DEF WillBeJustified
  <2> QED
    BY <2>3, <2>4 DEF RevisitInv
<1>3. CASE StatusAddFinalizer
  <2>1. /\ UNCHANGED <<seen, created>> /\ class # Absent
        /\ class' = [class EXCEPT !.finalizer = TRUE]
        /\ sync'.step = "lookUp" /\ sync'.stored = class'
    BY <1>3 DEF StatusAddFinalizer, Idle
  <2>2. class'.uid = class.uid /\ class'.gen = class.gen
    BY <2>1, ClassFacts DEF TypeOK, Classes
  <2>3. SeenIsNotAhead' /\ SyncIsCurrent' /\ NewIsJustified'
    BY <1>0, <2>1, <2>2 DEF SeenIsNotAhead, SyncIsCurrent, NewIsJustified
  <2>4. WillBeJustified'
    BY <2>1 DEF WillBeJustified
  <2> QED
    BY <2>3, <2>4 DEF RevisitInv
<1>4. CASE StatusLookUp
  <2>1. /\ UNCHANGED <<class, seen, created, statusQueued>> /\ sync.step = "lookUp"
    BY <1>4 DEF StatusLookUp
  <2>2. PICK found \in Found(sync.stored), failed \in SUBSET Kinds :
          LET status == [k \in Kinds |-> IF k \in failed
                           THEN sync.stored.status[k] ELSE found[k]]
          IN /\ IF failed = {} THEN UNCHANGED faults ELSE Fault
             /\ sync' = [sync EXCEPT
                  !.step = "patch",
                  !.new = [sync.stored EXCEPT
                             !.status = status,
                             !.ready = [value |-> Readiness(status),
                                        gen |-> sync.stored.gen]],
                  !.again = failed # {} \/ AsksAgain(found)]
    BY <1>4 DEF StatusLookUp
  <2>3. /\ sync \in [step : {"idle", "lookUp", "patch"}, stored : Objects,
                     new : Objects, again : BOOLEAN]
        /\ sync.stored \in Classes
    BY <2>1, ClassFacts DEF TypeOK
  <2> DEFINE s == [k \in Kinds |-> IF k \in failed
                     THEN sync.stored.status[k] ELSE found[k]]
             n == [sync.stored EXCEPT
                     !.status = s,
                     !.ready = [value |-> Readiness(s), gen |-> sync.stored.gen]]
  <2>a. sync' = [sync EXCEPT !.step = "patch", !.new = n,
                   !.again = failed # {} \/ AsksAgain(found)]
    BY <2>2
  <2> HIDE DEF s
  <2>4. n.status = s /\ n.ready.value = Readiness(s)
    BY <2>3 DEF Classes
  <2> HIDE DEF n
  <2>5. sync'.step = "patch" /\ sync'.stored = sync.stored /\ sync'.new = n
    BY <2>a, <2>3
  <2>6. Ready(n) => Justified(n)
    BY <2>4, ReadinessIsJustified DEF Ready, Justified
  <2>7. SeenIsNotAhead' /\ SyncIsCurrent' /\ NewIsJustified'
    BY <1>0, <2>1, <2>5, <2>6 DEF SeenIsNotAhead, SyncIsCurrent, NewIsJustified
  <2>8. WillBeJustified'
    BY <1>0, <2>1, <2>5 DEF WillBeJustified
  <2> QED
    BY <2>7, <2>8 DEF RevisitInv
<1>5. CASE StatusPatch
  <2>1. /\ UNCHANGED <<seen, created>> /\ sync.step = "patch" /\ sync'.step = "idle"
        /\ statusQueued => statusQueued'
        /\ class' = IF class = Absent THEN Absent
                    ELSE Merged(class, sync.stored, sync.new)
    BY <1>5 DEF StatusPatch, Idle
  <2>2. sync.stored \in Objects /\ sync.new \in Objects /\ class \in Objects
    BY DEF TypeOK
  <2>3. class # Absent => /\ class'.uid = class.uid /\ class'.gen = class.gen
                          /\ class'.finalizer = class.finalizer
    BY <2>1, <2>2, MergedTypes
  <2>4. SeenIsNotAhead' /\ SyncIsCurrent' /\ NewIsJustified'
    BY <1>0, <2>1, <2>3 DEF SeenIsNotAhead, SyncIsCurrent, NewIsJustified
  <2>5. WillBeJustified'
    <3> SUFFICES ASSUME Ready(class'), ~Justified(class'), seen = class', ~statusQueued
                 PROVE  FALSE
      BY <2>1 DEF WillBeJustified
    <3>1. class # Absent /\ class' = Merged(class, sync.stored, sync.new)
      BY <2>1, AbsentTypes
    <3>2. sync.stored # class
      BY <1>0, <2>1, <2>2, <3>1, PatchOfCurrent DEF NewIsJustified
    <3>3. sync.stored # seen
      BY <2>2, <3>1, <3>2, PatchUndoesNothing
    <3>4. ~Older(seen, class)
      BY <2>3, <3>1, VersionFacts DEF Older
    <3> QED
      BY <1>0, <2>1, <3>1, <3>2, <3>3, <3>4 DEF SyncIsCurrent
  <2> QED
    BY <2>4, <2>5 DEF RevisitInv
<1>6. CASE StatusPatchFails
  <2>1. UNCHANGED <<class, seen, created>> /\ statusQueued' /\ sync'.step = "idle"
    BY <1>6 DEF StatusPatchFails, Idle
  <2> QED
    BY <1>0, <2>1 DEF RevisitInv, SeenIsNotAhead, SyncIsCurrent, NewIsJustified,
       WillBeJustified
<1> QED
  BY <1>1, <1>2, <1>3, <1>4, <1>5, <1>6 DEF StatusController

\* What leaves class, cache, queue and reconcile alone.
LEMMA OthersRevisit ==
  ASSUME RevisitInv, UNCHANGED <<class, seen, created, statusQueued, sync>>
  PROVE  RevisitInv'
BY DEF RevisitInv, SeenIsNotAhead, SyncIsCurrent, NewIsJustified, WillBeJustified,
   Justified, Ready, Older

\* A class that goes away is no trouble.
LEMMA RemovalRevisits ==
  ASSUME RevisitInv, class' = Absent, UNCHANGED <<seen, created, statusQueued, sync>>
  PROVE  RevisitInv'
BY AbsentTypes DEF RevisitInv, SeenIsNotAhead, SyncIsCurrent, NewIsJustified,
   WillBeJustified

\* A user's write makes a version that is newer than what the cache has.
LEMMA NewVersionRevisits ==
  ASSUME TypeOK, RevisitInv, class' # Absent, Older(seen, class'),
         seen.uid <= created', seen.uid = class'.uid => seen.gen <= class'.gen,
         UNCHANGED <<seen, statusQueued, sync>>
  PROVE  RevisitInv'
<1>1. SeenIsNotAhead' /\ SyncIsCurrent' /\ NewIsJustified'
  BY DEF RevisitInv, SeenIsNotAhead, SyncIsCurrent, NewIsJustified, Older
<1>2. seen # class'
  BY VersionFacts DEF Older
<1>3. WillBeJustified'
  BY <1>2 DEF WillBeJustified
<1> QED
  BY <1>1, <1>3 DEF RevisitInv

LEMMA SeenBeforeNewVersion ==
  ASSUME TypeOK, SeenIsNotAhead, class # Absent, NEW y,
         y.uid = class.uid, y.gen = class.gen + 1
  PROVE  /\ y # Absent /\ seen.uid <= y.uid /\ seen.uid <= created
         /\ seen.uid = y.uid => seen.gen < y.gen
<1>1. /\ class.uid = created /\ class.uid # 0 /\ created \in Nat /\ seen.uid \in Nat
      /\ seen.gen \in Nat /\ class.gen \in Nat
  BY VersionFacts
<1>2. seen.uid <= created /\ (seen.uid = class.uid => seen.gen <= class.gen)
  BY DEF SeenIsNotAhead
<1>3. y # Absent
  BY <1>1, AbsentTypes
<1> QED
  BY <1>1, <1>2, <1>3

LEMMA EnvironmentRevisits ==
  ASSUME TypeOK, RevisitInv, Environment
  PROVE  RevisitInv'
<1> USE NodeClassAssumption
<1>0. SeenIsNotAhead /\ SyncIsCurrent /\ NewIsJustified /\ WillBeJustified
  BY DEF RevisitInv
<1>1. CASE CreateClass
  <2> DEFINE n == [Absent EXCEPT !.uid = created + 1, !.gen = 1]
  <2>1. n.uid = created + 1
    BY DEF Absent
  <2>2. class' = n /\ created' = created + 1
    BY <1>1 DEF CreateClass
  <2> HIDE DEF n
  <2>3. class' # Absent /\ seen.uid < class'.uid /\ seen.uid <= created'
    BY <1>0, <2>1, <2>2, VersionFacts, AbsentTypes DEF SeenIsNotAhead
  <2>4. seen.uid # class'.uid
    BY <2>3, <2>1, <2>2, VersionFacts
  <2> QED
    BY <1>1, <2>3, <2>4, NewVersionRevisits DEF CreateClass, Older
<1>2. CASE EditSpec
  <2>1. class # Absent /\ class \in Classes /\ class' = [class EXCEPT !.gen = @ + 1]
    BY <1>2, ClassFacts DEF EditSpec, TypeOK
  <2>2. class'.uid = class.uid /\ class'.gen = class.gen + 1
    BY <2>1 DEF Classes
  <2>3. class' # Absent /\ seen.uid <= class'.uid /\ seen.uid <= created
        /\ (seen.uid = class'.uid => seen.gen < class'.gen)
    BY <1>0, <2>1, <2>2, SeenBeforeNewVersion
  <2>4. Older(seen, class')
    BY <2>2, <2>3, VersionFacts DEF Older
  <2> QED
    BY <1>2, <2>2, <2>3, <2>4, VersionFacts, NewVersionRevisits DEF EditSpec
<1>3. CASE DeleteClass
  <2>1. CASE ~class.finalizer
    BY <1>3, <2>1, RemovalRevisits DEF DeleteClass
  <2>2. CASE class.finalizer
    <3>1. /\ class # Absent /\ class \in Classes
          /\ class' = [class EXCEPT !.deleting = TRUE, !.gen = @ + 1]
      BY <1>3, <2>2, ClassFacts DEF DeleteClass, TypeOK
    <3>2. class'.uid = class.uid /\ class'.gen = class.gen + 1
      BY <3>1 DEF Classes
    <3>3. class' # Absent /\ seen.uid <= class'.uid /\ seen.uid <= created
          /\ (seen.uid = class'.uid => seen.gen < class'.gen)
      BY <1>0, <3>1, <3>2, SeenBeforeNewVersion
    <3>4. Older(seen, class')
      BY <3>2, <3>3, VersionFacts DEF Older
    <3> QED
      BY <1>3, <3>2, <3>3, <3>4, VersionFacts, NewVersionRevisits DEF DeleteClass
  <2> QED
    BY <2>1, <2>2
<1>4. CASE CloudChanges
  BY <1>4, OthersRevisit DEF CloudChanges
<1>5. CASE Deliver \/ Notify
  <2>1. /\ statusQueued' /\ seen' \in {class, seen}
        /\ UNCHANGED <<class, created, sync>>
    BY <1>5 DEF Deliver, Notify
  <2>2. SeenIsNotAhead'
    BY <1>0, <2>1, VersionFacts, AbsentTypes DEF SeenIsNotAhead
  <2> QED
    BY <1>0, <2>1, <2>2 DEF RevisitInv, SyncIsCurrent, NewIsJustified, WillBeJustified
<1>6. CASE Restart
  <2>1. /\ seen' = class /\ UNCHANGED <<class, created>> /\ sync'.step = "idle"
        /\ statusQueued' = (class # Absent)
    BY <1>6 DEF Restart, Idle
  <2>2. SeenIsNotAhead'
    BY <2>1, VersionFacts, AbsentTypes DEF SeenIsNotAhead
  <2>3. WillBeJustified'
    BY <2>1, AbsentTypes DEF WillBeJustified
  <2> QED
    BY <2>1, <2>2, <2>3 DEF RevisitInv, SyncIsCurrent, NewIsJustified
<1> QED
  BY <1>1, <1>2, <1>3, <1>4, <1>5, <1>6 DEF Environment

\* Whatever a patch by name made of the class, no condition is left standing
\* that its lists do not justify: for any number of classes of that name, edits
\* and failures, and with a cache that lags.
THEOREM UnjustifiedReadyIsRevisited == Spec => []ReadyIsRevisited
<1>1. Init => RevisitInv
  BY AbsentTypes DEF Init, RevisitInv, SeenIsNotAhead, SyncIsCurrent, NewIsJustified,
     WillBeJustified, Idle
<1>2. TypeOK /\ RevisitInv /\ [Next]_vars => RevisitInv'
  <2> SUFFICES ASSUME TypeOK, RevisitInv, [Next]_vars
               PROVE  RevisitInv'
    OBVIOUS
  <2>1. CASE TerminationController
    <3>1. CASE TermUpdate
      <4>1. class' \in {Absent, class} /\ UNCHANGED <<seen, created, statusQueued, sync>>
        BY <3>1 DEF TermUpdate
      <4> QED
        BY <4>1, OthersRevisit, RemovalRevisits
    <3> QED
      BY <2>1, <3>1, OthersRevisit
      DEF TerminationController, TermSkip, TermStart, TermUpdateFails
  <2>2. ASSUME NEW c \in Claims, NodeClaim(c)
        PROVE  RevisitInv'
    BY <2>2, OthersRevisit
    DEF NodeClaim, CreateClaim, ResolveNodeClass, EndCreate, RemoveClaim
  <2>3. CASE UNCHANGED vars
    BY <2>3, OthersRevisit DEF vars
  <2> QED
    BY <2>1, <2>2, <2>3, StatusControllerRevisits, EnvironmentRevisits DEF Next
<1>3. RevisitInv => ReadyIsRevisited
  BY DEF RevisitInv, WillBeJustified, ReadyIsRevisited, Justified
<1> QED
  BY <1>1, <1>2, <1>3, TypeCorrect, PTL DEF Spec
=============================================================================
