---------------------------- MODULE Calculations -----------------------------
(***************************************************************************)
(* The calculations behind a launch, asked one question: what becomes of a *)
(* zone's name (ZoneIDs), what a class's terms select (Selectors), and     *)
(* what a type offers and a NodeClaim sees of it (InstanceCapacity).  None *)
(* of them keeps a state; the question stands for their callers.           *)
(***************************************************************************)
EXTENDS ZoneIDs, Selectors, InstanceCapacity

CONSTANTS
  Questions,   \* what may be asked
  Metas        \* MachineMetaAnnotations that a claim may have

VARIABLE question

ZoneQuestion(q) ==
  /\ q.about = "zone"
  /\ q.region \in Seq(STRING) /\ Len(q.region) \in {2, 3} /\ q.number \in 0..1000

SelectorQuestion(q) ==
  /\ q.about = "selector"
  /\ q.kind \in {"subnet", "other"} /\ q.terms \in Seq(Terms)
  /\ q.tags \in [Resources -> SUBSET (Conditions \cup {InVPC})]

CapacityQuestion(q) ==
  /\ q.about = "capacity"
  /\ q.item.cpus \in Nat \ {0} /\ q.item.gb \in Nat \ {0} /\ q.item.gpus \in Nat
  /\ q.item = [cpus |-> q.item.cpus, gb |-> q.item.gb, gpus |-> q.item.gpus]
  /\ q.cluster # None => q.cluster.maxNodePodNum \in Nat
  /\ q.limits # None => /\ DOMAIN q.limits \subseteq {"eniip", "directeni", "subeni"}
                        /\ \A r \in DOMAIN q.limits : q.limits[r] \in Nat

ASSUME QuestionsAssumption ==
  /\ None \notin Questions
  /\ \A q \in Questions : ZoneQuestion(q) \/ SelectorQuestion(q) \/ CapacityQuestion(q)
  /\ \A meta \in Metas : DOMAIN meta = Groups

Unasked == question = None
Ask == Unasked /\ question' \in Questions
CalculationsSpec == Unasked /\ [][Ask]_question

About(subject) == question # None /\ question.about = subject

-----------------------------------------------------------------------------
\* A name turns into an ID and back, whatever the order of the loop
\* (ZoneIDs!RoundTrips).
ZonesRoundTrip ==
  About("zone") => RoundTrips(question.region, question.number)

\* What a class selects is found and nothing else, however its IDs fall into
\* batches (Selectors!FindsWhatIsSelected).
SelectorsFind ==
  About("selector") => FindsWhatIsSelected(question.kind, question.terms, question.tags)

\* A bigger node leaves no less to pods, across every level
\* (InstanceCapacity!BiggerIsNoSmaller).
CapacityGrows ==
  About("capacity") =>
    BiggerIsNoSmaller(question.item, StorageInGB(50, question.disks), question.newer,
                      question.cluster, question.limits)

\* A later server reserves no more, with the pods that the limits give
\* (InstanceCapacity!NewerReservesNoMore).
ReservationShrinks ==
  About("capacity") =>
    NewerReservesNoMore(question.item.cpus,
                        pods(MaxPods(question.cluster), UsedLimits(question.cluster, question.limits)),
                        question.item.gb)

\* A NodeClaim promises what the type did that it was launched for, but for what
\* its annotations name (InstanceCapacity!ClaimHasItsType).
ClaimsHaveTheirTypes ==
  About("capacity") => \A meta \in Metas :
    ClaimHasItsType(NewInstanceType(question.item, StorageInGB(50, question.disks), question.newer,
                                    question.cluster, question.limits), meta)
=============================================================================
