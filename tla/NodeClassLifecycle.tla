------------------------- MODULE NodeClassLifecycle -------------------------
(***************************************************************************)
(* One name of a TKEMachineNodeClass and the two controllers that work on  *)
(* the object behind it, next to users who create, edit and delete it, and *)
(* NodeClaims whose launch is gated by its condition Ready:                *)
(*                                                                         *)
(*   - the status controller adds the finalizer, looks up what the         *)
(*     selectors resolve to and patches what changed into the status;      *)
(*   - the termination controller removes the finalizer of a deleting      *)
(*     class when no NodeClaim refers to it.                               *)
(*                                                                         *)
(* Both read the class from the informer's cache, which may lag, and write *)
(* to the API server; a status patch goes by name and carries no version.  *)
(* The reconciles of one controller for one name do not overlap.           *)
(*                                                                         *)
(* Simplifications.  A request that was requeued with a delay is queued:   *)
(* the delay is the time until it is taken.  A NodeClaim counts from when  *)
(* it is in the informer's cache, which core and this provider share.  The *)
(* answer of a cloud query is one value, be it a list.  Updates succeed if *)
(* the object equals what was read, in place of its version.               *)
(*                                                                         *)
(* Definitions named Faulty... are mistakes the code does not make; each   *)
(* is refuted by the property that guards against it.                      *)
(***************************************************************************)
EXTENDS Integers

CONSTANTS
  Claims,      \* names of NodeClaims that refer to the class
  Answers,     \* what the query of each kind may resolve to
  Nothing,     \* the answer of a query that resolves to nothing
  Lag,         \* may the informer's cache be behind the API server?
  MaxClasses,  \* bound on how often the class is created
  MaxEdits,    \* bound on the edits of one class's spec, its deletion counted
               \*   as one when the spec is edited after it
  MaxFaults    \* bound on restarts, failed queries and failed writes

Kinds == {"subnets", "securityGroups", "sshKeys"}
AnyAnswer == {Nothing} \cup UNION {Answers[k] : k \in Kinds}
Resolutions ==
  {r \in [Kinds -> AnyAnswer] : \A k \in Kinds : r[k] \in Answers[k] \cup {Nothing}}

ASSUME NodeClassAssumption ==
  /\ DOMAIN Answers = Kinds
  /\ \A k \in Kinds : Nothing \notin Answers[k]
  /\ Lag \in BOOLEAN
  /\ MaxClasses \in Nat /\ MaxEdits \in Nat /\ MaxFaults \in Nat

VARIABLES
  class,         \* the object of that name at the API server, or Absent
  seen,          \* the copy in the informer's cache
  created,       \* how often the class was created
  answers,       \* what the queries of the class's spec resolve to
  statusQueued,  \* is the name in the queue of the status controller,
  termQueued,    \*   and of the termination controller?
  sync,          \* the status controller's reconcile
  condemned,     \* what a termination reconcile read, or Absent
  claims,        \* the NodeClaims
  faults         \* faults so far

vars == <<class, seen, created, answers, statusQueued, termQueued, sync,
          condemned, claims, faults>>

-----------------------------------------------------------------------------
NothingResolved == [k \in Kinds |-> Nothing]
Unknown == [value |-> "unknown", gen |-> 0]

Absent ==
  [uid |-> 0, gen |-> 0, deleting |-> FALSE, finalizer |-> FALSE,
   status |-> NothingResolved, ready |-> Unknown]

Idle == [step |-> "idle", stored |-> Absent, new |-> Absent, again |-> FALSE]

\* What a reconcile and CloudProvider.Create get for the class.
View == IF Lag THEN seen ELSE class

\* Readiness.Reconcile: SSH keys are optional.
Readiness(status) ==
  CASE status["subnets"] = Nothing -> "noSubnets"
    [] status["subnets"] # Nothing /\ status["securityGroups"] = Nothing
         -> "noSecurityGroups"
    [] OTHER -> "true"

ClaimExists(c) == claims[c] \in {"pending", "launching", "launched"}

Ready(x) == x.ready.value = "true"

\* The merge patch from stored to new, applied to x: what did not change in
\* between is left as it is, whatever it is.
Merged(x, stored, new) ==
  [x EXCEPT
     !.status = [k \in Kinds |-> IF new.status[k] # stored.status[k]
                                 THEN new.status[k] ELSE x.status[k]],
     !.ready = IF new.ready # stored.ready THEN new.ready ELSE x.ready]

\* Generations count the edits of the spec, and the deletion as one more.
Edits(x) == x.gen - (IF x.deleting THEN 1 ELSE 0)

ReadyValues == {"unknown", "noSubnets", "noSecurityGroups", "true"}
Classes ==
  [uid : 1..MaxClasses, gen : 1..(MaxEdits + 2), deleting : BOOLEAN,
   finalizer : BOOLEAN, status : Resolutions,
   ready : [value : ReadyValues, gen : 0..(MaxEdits + 2)]]

\* A class that is deleted is kept by its finalizer only.
Objects ==
  {x \in Classes : (x.deleting => x.finalizer) /\ Edits(x) <= MaxEdits + 1}
    \cup {Absent}

TypeOK ==
  /\ class \in Objects /\ class.uid \in {0, created}
  /\ seen \in Objects
  /\ created \in 0..MaxClasses
  /\ answers \in Resolutions
  /\ statusQueued \in BOOLEAN /\ termQueued \in BOOLEAN
  /\ sync \in [step : {"idle", "lookUp", "patch"}, stored : Objects,
               new : Objects, again : BOOLEAN]
  /\ sync.step # "idle" => sync.stored # Absent
  /\ condemned \in Objects
  /\ claims \in [Claims -> {"absent", "pending", "launching", "launched", "gone"}]
  /\ faults \in 0..MaxFaults

Init ==
  /\ class = Absent /\ seen = Absent
  /\ created = 0
  /\ answers = NothingResolved
  /\ statusQueued = FALSE /\ termQueued = FALSE
  /\ sync = Idle /\ condemned = Absent
  /\ claims = [c \in Claims |-> "absent"]
  /\ faults = 0

Fault == faults < MaxFaults /\ faults' = faults + 1

-----------------------------------------------------------------------------
(* The status controller.                                                  *)

\* The class is not in the cache: there is nothing to do.
StatusSkip ==
  /\ statusQueued /\ sync.step = "idle"
  /\ View = Absent
  /\ statusQueued' = FALSE
  /\ UNCHANGED <<class, seen, created, answers, termQueued, sync, condemned,
                 claims, faults>>

StatusStart ==
  /\ statusQueued /\ sync.step = "idle"
  /\ View # Absent /\ View.finalizer
  /\ sync' = [Idle EXCEPT !.step = "lookUp", !.stored = View]
  /\ statusQueued' = FALSE
  /\ UNCHANGED <<class, seen, created, answers, termQueued, condemned, claims,
                 faults>>

\* Without the finalizer it is patched first, and the reconcile goes on with
\* the object that the API server returned.  (If the class is gone the patch
\* fails and the request stays queued.)
StatusAddFinalizer ==
  /\ statusQueued /\ sync.step = "idle"
  /\ View # Absent /\ ~View.finalizer
  /\ class # Absent
  /\ class' = [class EXCEPT !.finalizer = TRUE]
  /\ sync' = [Idle EXCEPT !.step = "lookUp", !.stored = class']
  /\ statusQueued' = FALSE
  /\ UNCHANGED <<seen, created, answers, termQueued, condemned, claims, faults>>

\* The queries are those of the spec that was read.  If it is not the current
\* one, they may resolve to anything.
Found(stored) ==
  IF stored.uid = class.uid /\ Edits(stored) = Edits(class)
  THEN {answers} ELSE Resolutions

\* Each part that resolved to something asks to be run again in a minute.
AsksAgain(found) == \E k \in Kinds : found[k] # Nothing

\* A query that resolves to nothing leaves the old answer.
FaultyStatusLookUpKeepsOld ==
  /\ sync.step = "lookUp"
  /\ \E found \in Found(sync.stored) :
       LET status == [k \in Kinds |-> IF found[k] = Nothing
                        THEN sync.stored.status[k] ELSE found[k]]
       IN sync' = [sync EXCEPT
            !.step = "patch",
            !.new = [sync.stored EXCEPT
                       !.status = status,
                       !.ready = [value |-> Readiness(status),
                                  gen |-> sync.stored.gen]],
            !.again = AsksAgain(found)]
  /\ UNCHANGED <<class, seen, created, answers, statusQueued, termQueued,
                 condemned, claims, faults>>

\* The queries and, on their answers, readiness.  A query that fails leaves
\* the old answer, and the reconcile goes on.  It will run again after an
\* error, or in a minute if something was resolved.
StatusLookUp ==
  /\ sync.step = "lookUp"
  /\ \E found \in Found(sync.stored), failed \in SUBSET Kinds :
       LET status == [k \in Kinds |-> IF k \in failed THEN sync.stored.status[k]
                                                       ELSE found[k]]
       IN /\ IF failed = {} THEN UNCHANGED faults ELSE Fault
          /\ sync' = [sync EXCEPT
               !.step = "patch",
               !.new = [sync.stored EXCEPT
                          !.status = status,
                          !.ready = [value |-> Readiness(status),
                                     gen |-> sync.stored.gen]],
               !.again = failed # {} \/ AsksAgain(found)]
  /\ UNCHANGED <<class, seen, created, answers, statusQueued, termQueued,
                 condemned, claims>>

\* The patch creates what is not there.
FaultyStatusPatch ==
  /\ sync.step = "patch"
  /\ class' = Merged(class, sync.stored, sync.new)
  /\ statusQueued' = (statusQueued \/ sync.again)
  /\ sync' = Idle
  /\ UNCHANGED <<seen, created, answers, termQueued, condemned, claims, faults>>

\* The patch of the status; that the class is gone is not an error.
StatusPatch ==
  /\ sync.step = "patch"
  /\ class' = IF class = Absent THEN Absent
              ELSE Merged(class, sync.stored, sync.new)
  /\ statusQueued' = (statusQueued \/ sync.again)
  /\ sync' = Idle
  /\ UNCHANGED <<seen, created, answers, termQueued, condemned, claims, faults>>

StatusPatchFails ==
  /\ sync.step = "patch" /\ sync.new # sync.stored
  /\ Fault
  /\ statusQueued' = TRUE
  /\ sync' = Idle
  /\ UNCHANGED <<class, seen, created, answers, termQueued, condemned, claims>>

-----------------------------------------------------------------------------
(* The termination controller.                                             *)
TermSkip ==
  /\ termQueued /\ condemned = Absent
  /\ ~View.deleting
  /\ termQueued' = FALSE
  /\ UNCHANGED <<class, seen, created, answers, statusQueued, sync, condemned,
                 claims, faults>>

\* Only launched claims count.
FaultyTermStartLaunched ==
  /\ termQueued /\ condemned = Absent
  /\ View.deleting
  /\ \A c \in Claims : claims[c] # "launched"
  /\ condemned' = View
  /\ termQueued' = FALSE
  /\ UNCHANGED <<class, seen, created, answers, statusQueued, sync, claims, faults>>

\* A class that is not ready was never used and is left alone.
FaultyTermStartReady ==
  /\ termQueued /\ condemned = Absent
  /\ View.deleting
  /\ \A c \in Claims : ~ClaimExists(c)
  /\ condemned' = IF Ready(View) THEN View ELSE Absent
  /\ termQueued' = FALSE
  /\ UNCHANGED <<class, seen, created, answers, statusQueued, sync, claims, faults>>

\* finalize: the class is deleting and no NodeClaim refers to it.  (As long
\* as one does, or the list fails, the request is queued again.)
TermStart ==
  /\ termQueued /\ condemned = Absent
  /\ View.deleting
  /\ \A c \in Claims : ~ClaimExists(c)
  /\ condemned' = View
  /\ termQueued' = FALSE
  /\ UNCHANGED <<class, seen, created, answers, statusQueued, sync, claims, faults>>

\* ... then the update without the finalizer, with which a deleting class is
\* gone.  After a conflict it starts over; NotFound is not an error.
TermUpdate ==
  /\ condemned # Absent
  /\ class' = IF class = condemned THEN Absent ELSE class
  /\ termQueued' = (termQueued \/ class \notin {condemned, Absent})
  /\ condemned' = Absent
  /\ UNCHANGED <<seen, created, answers, statusQueued, sync, claims, faults>>

TermUpdateFails ==
  /\ condemned # Absent
  /\ Fault
  /\ termQueued' = TRUE
  /\ condemned' = Absent
  /\ UNCHANGED <<class, seen, created, answers, statusQueued, sync, claims>>

-----------------------------------------------------------------------------
(* NodeClaims, as far as they matter here: CloudProvider.Create reads the  *)
(* class and refuses one that is deleting or not ready.                    *)
CreateClaim(c) ==
  /\ claims[c] = "absent"
  /\ claims' = [claims EXCEPT ![c] = "pending"]
  /\ UNCHANGED <<class, seen, created, answers, statusQueued, termQueued, sync,
                 condemned, faults>>

ResolveNodeClass(c) ==
  /\ claims[c] = "pending"
  /\ View # Absent /\ ~View.deleting
  /\ Ready(View)
  /\ claims' = [claims EXCEPT ![c] = "launching"]
  /\ UNCHANGED <<class, seen, created, answers, statusQueued, termQueued, sync,
                 condemned, faults>>

EndCreate(c) ==
  /\ claims[c] = "launching"
  /\ \E outcome \in {"launched", "pending"} :
       claims' = [claims EXCEPT ![c] = outcome]
  /\ UNCHANGED <<class, seen, created, answers, statusQueued, termQueued, sync,
                 condemned, faults>>

\* A claim that is refused, or ends, is removed; the termination controller
\* watches for that.  Core does not finalize a claim that it is launching.
RemoveClaim(c) ==
  /\ claims[c] \in {"pending", "launched"}
  /\ claims' = [claims EXCEPT ![c] = "gone"]
  /\ termQueued' = TRUE
  /\ UNCHANGED <<class, seen, created, answers, statusQueued, sync, condemned,
                 faults>>

-----------------------------------------------------------------------------
(* Users, the cloud, the informer and restarts.                            *)
CreateClass ==
  /\ class = Absent /\ created < MaxClasses
  /\ created' = created + 1
  /\ class' = [Absent EXCEPT !.uid = created', !.gen = 1]
  /\ answers' \in Resolutions
  /\ UNCHANGED <<seen, statusQueued, termQueued, sync, condemned, claims, faults>>

EditSpec ==
  /\ class # Absent /\ class.gen <= MaxEdits
  /\ class' = [class EXCEPT !.gen = @ + 1]
  /\ answers' \in Resolutions
  /\ UNCHANGED <<seen, created, statusQueued, termQueued, sync, condemned,
                 claims, faults>>

DeleteClass ==
  /\ class # Absent /\ ~class.deleting
  /\ class' = IF class.finalizer
              THEN [class EXCEPT !.deleting = TRUE, !.gen = @ + 1]
              ELSE Absent
  /\ UNCHANGED <<seen, created, answers, statusQueued, termQueued, sync,
                 condemned, claims, faults>>

\* Subnets, security groups or keys appear, change or disappear in the cloud,
\* of which nobody is told.
CloudChanges ==
  /\ class # Absent
  /\ answers' \in Resolutions
  /\ UNCHANGED <<class, seen, created, statusQueued, termQueued, sync, condemned,
                 claims, faults>>

\* A predicate lets only new generations through.
FaultyDeliver ==
  /\ seen # class
  /\ seen' = class
  /\ statusQueued' = (statusQueued \/ seen.gen # class.gen)
  /\ termQueued' = TRUE
  /\ UNCHANGED <<class, created, answers, sync, condemned, claims, faults>>

\* The informer catches up and both controllers are notified: neither filters
\* the events of the class.
Deliver ==
  /\ seen # class
  /\ seen' = class
  /\ statusQueued' = TRUE /\ termQueued' = TRUE
  /\ UNCHANGED <<class, created, answers, sync, condemned, claims, faults>>

\* An annotation is edited, or the informer resyncs (every ten hours).
Notify ==
  /\ seen # Absent
  /\ statusQueued' = TRUE /\ termQueued' = TRUE
  /\ UNCHANGED <<class, seen, created, answers, sync, condemned, claims, faults>>

\* The process stops and starts again.
Restart ==
  /\ Fault
  /\ seen' = class
  /\ statusQueued' = (class # Absent) /\ termQueued' = (class # Absent)
  /\ sync' = Idle /\ condemned' = Absent
  /\ claims' = [c \in Claims |-> IF claims[c] = "launching" THEN "pending"
                                 ELSE claims[c]]
  /\ UNCHANGED <<class, created, answers>>

-----------------------------------------------------------------------------
StatusController ==
  \/ StatusSkip \/ StatusStart \/ StatusAddFinalizer \/ StatusLookUp
  \/ StatusPatch \/ StatusPatchFails

TerminationController ==
  \/ TermSkip \/ TermStart \/ TermUpdate \/ TermUpdateFails

NodeClaim(c) ==
  \/ CreateClaim(c) \/ ResolveNodeClass(c) \/ EndCreate(c) \/ RemoveClaim(c)

Environment ==
  \/ CreateClass \/ EditSpec \/ DeleteClass \/ CloudChanges
  \/ Deliver \/ Notify \/ Restart

Next ==
  \/ StatusController \/ TerminationController
  \/ \E c \in Claims : NodeClaim(c)
  \/ Environment

Spec == Init /\ [][Next]_vars

\* Queued requests are taken and reconciles go on; the informer catches up
\* and resyncs; the cloud changes finitely often.
Fairness ==
  /\ WF_vars(StatusSkip \/ StatusStart \/ StatusAddFinalizer)
  /\ WF_vars(StatusLookUp) /\ WF_vars(StatusPatch)
  /\ WF_vars(TermSkip \/ TermStart) /\ WF_vars(TermUpdate)
  /\ WF_vars(Deliver) /\ WF_vars(Notify)
  /\ <>[][~CloudChanges]_vars

FairSpec == Spec /\ Fairness

-----------------------------------------------------------------------------
(* Properties.                                                             *)

\* The comment of ConditionTypeNodeClassReady: Ready indicates that subnets
\* and security groups were resolved.  The condition and the lists are parts
\* of one status, but what a patch writes of them depends on what changed.
ReadyIsJustified ==
  Ready(class) => /\ class.status["subnets"] # Nothing
                  /\ class.status["securityGroups"] # Nothing

\* A class that is Ready without what readiness asks for is not left alone:
\* its status is about to be reconciled from a copy that is up to date, so
\* that no Create relies for long on lists that are empty (StatusPatch).
ReadyIsRevisited ==
  Ready(class)
    => \/ /\ class.status["subnets"] # Nothing
          /\ class.status["securityGroups"] # Nothing
       \/ statusQueued \/ seen # class \/ sync.step # "idle"

\* A class is not removed while a launch that its readiness let pass is under
\* way or succeeded, although finalize reads the NodeClaims before its update
\* and Create reads the class before it launches (termination finalize).
ClassKeptWhileUsed ==
  [][class # Absent /\ class' = Absent =>
       \A c \in Claims : claims[c] \notin {"launching", "launched"}]_vars

Settled ==
  /\ class.status = answers
  /\ class.ready = [value |-> Readiness(answers), gen |-> class.gen]

\* When the cloud stops changing, the status becomes and stays what the
\* selectors of the present class resolve to, whatever lagging reads, patches
\* by name on a recreated class, failures and restarts did before.
StatusConverges == <>[](class = Absent \/ Settled)

\* A deletion ends once the NodeClaims are gone: no conflict with a status
\* patch, failure or restart leaves the finalizer in place.
DeletionEnds ==
  <>[](\A c \in Claims : ~ClaimExists(c)) => [](class.deleting => <>(class = Absent))
=============================================================================
