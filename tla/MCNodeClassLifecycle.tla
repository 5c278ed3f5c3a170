------------------------ MODULE MCNodeClassLifecycle ------------------------
(* Model checking of NodeClassLifecycle: what each query may resolve to.   *)
EXTENDS NodeClassLifecycle

OneEach ==
  [k \in Kinds |-> CASE k = "subnets" -> {"a"}
                     [] k = "securityGroups" -> {"a"}
                     [] k = "sshKeys" -> {}]
\* Bound of the safety run: a class whose spec was edited is not deleted once
\* it has its finalizer.
DeleteUnedited == (class.finalizer => Edits(class) = 1) /\ DeleteClass
SafetyNext ==
  \/ StatusController \/ TerminationController
  \/ \E c \in Claims : NodeClaim(c)
  \/ CreateClass \/ EditSpec \/ DeleteUnedited \/ CloudChanges
  \/ Deliver \/ Notify \/ Restart
SafetySpec == Init /\ [][SafetyNext]_vars

SubnetsOnly == [k \in Kinds |-> IF k = "subnets" THEN {"a"} ELSE {}]
=============================================================================
