------------------------- MODULE NodeClaimContract --------------------------
(***************************************************************************)
(* What karpenter core may rely on, whatever controllers, faults and other *)
(* actors do in between: a Machine is made for one active NodeClaim; while *)
(* an active claim holds it, it is ended only if it was condemned before   *)
(* it was known that the claim holds it; the instance ID a claim reports   *)
(* is that of a Machine made for it; and a claim that reports an instance  *)
(* is not finished before that Machine is gone.                            *)
(*                                                                         *)
(* MachineLifecycle implements this specification.                         *)
(***************************************************************************)
CONSTANTS
  NodeClaims, Machines, NoMachine, NoClaim

VARIABLES
  claim,     \* "absent", "active", "deleting" or "gone"
  holds,     \* the Machine that a claim is annotated with
  known,     \* the Machine that a claim is known to be annotated with
  reported,  \* the Machine whose instance ID is in the status of a claim
  machine,   \* "absent", "live", "terminating" or "gone"
  madeFor,   \* the claim that a Machine was made for
  condemned  \* Machines taken for abandoned, to be ended

vars == <<claim, holds, known, reported, machine, madeFor, condemned>>

TypeOK ==
  /\ claim \in [NodeClaims -> {"absent", "active", "deleting", "gone"}]
  /\ holds \in [NodeClaims -> Machines \cup {NoMachine}]
  /\ known \in [NodeClaims -> Machines \cup {NoMachine}]
  /\ reported \in [NodeClaims -> Machines \cup {NoMachine}]
  /\ machine \in [Machines -> {"absent", "live", "terminating", "gone"}]
  /\ madeFor \in [Machines -> NodeClaims \cup {NoClaim}]
  /\ condemned \subseteq Machines

HeldBy(c, m) == claim[c] = "active" /\ holds[c] = m
Lasts(c) == claim[c] \in {"active", "deleting"}

Init ==
  /\ claim = [c \in NodeClaims |-> "absent"]
  /\ holds = [c \in NodeClaims |-> NoMachine]
  /\ known = [c \in NodeClaims |-> NoMachine]
  /\ reported = [c \in NodeClaims |-> NoMachine]
  /\ machine = [m \in Machines |-> "absent"]
  /\ madeFor = [m \in Machines |-> NoClaim]
  /\ condemned = {}

Open(c) ==
  /\ claim[c] = "absent"
  /\ claim' = [claim EXCEPT ![c] = "active"]
  /\ UNCHANGED <<holds, known, reported, machine, madeFor, condemned>>

Close(c) ==
  /\ claim[c] = "active"
  /\ claim' = [claim EXCEPT ![c] = "deleting"]
  /\ UNCHANGED <<holds, known, reported, machine, madeFor, condemned>>

Finish(c) ==
  /\ claim[c] = "deleting"
  /\ reported[c] # NoMachine => machine[reported[c]] = "gone"
  /\ claim' = [claim EXCEPT ![c] = "gone"]
  /\ UNCHANGED <<holds, known, reported, machine, madeFor, condemned>>

Make(c, m) ==
  /\ claim[c] = "active" /\ machine[m] = "absent"
  /\ machine' = [machine EXCEPT ![m] = "live"]
  /\ madeFor' = [madeFor EXCEPT ![m] = c]
  /\ UNCHANGED <<claim, holds, known, reported, condemned>>

\* What a claim is given was made for it; it may have ended by then.
Hold(c, m) ==
  /\ Lasts(c)
  /\ madeFor[m] = c
  /\ holds' = [holds EXCEPT ![c] = m]
  /\ UNCHANGED <<claim, known, reported, machine, madeFor, condemned>>

\* The report may be taken back for a while.
Report(c) ==
  /\ Lasts(c)
  /\ \E m \in {n \in Machines : madeFor[n] = c} \cup {NoMachine} :
        reported' = [reported EXCEPT ![c] = m]
  /\ UNCHANGED <<claim, holds, known, machine, madeFor, condemned>>

\* News of the claims arrives, and Machines are condemned or spared; none
\* that a claim is known to hold is condemned anew.
Judge ==
  /\ known' \in [NodeClaims -> Machines \cup {NoMachine}]
  /\ \A c \in NodeClaims :
       known'[c] \in {known[c], IF Lasts(c) THEN holds[c] ELSE NoMachine}
  /\ \E S \in SUBSET Machines :
        /\ \A m \in S \ condemned : \A c \in NodeClaims : known[c] # m
        /\ condemned' = S
  /\ UNCHANGED <<claim, holds, reported, machine, madeFor>>

\* A Machine is ended because no active claim holds it ...
End(m) ==
  /\ machine[m] = "live"
  /\ \A c \in NodeClaims : ~HeldBy(c, m)
  /\ machine' = [machine EXCEPT ![m] = "terminating"]
  /\ UNCHANGED <<claim, holds, known, reported, madeFor, condemned>>

\* ... or because it was condemned, whoever holds it by now.
Collect(m) ==
  /\ machine[m] = "live" /\ m \in condemned
  /\ machine' = [machine EXCEPT ![m] = "terminating"]
  /\ condemned' = condemned \ {m}
  /\ UNCHANGED <<claim, holds, known, reported, madeFor>>

Vanish(m) ==
  /\ machine[m] = "terminating"
  /\ machine' = [machine EXCEPT ![m] = "gone"]
  /\ UNCHANGED <<claim, holds, known, reported, madeFor, condemned>>

Next ==
  \/ \E c \in NodeClaims :
       \/ Open(c) \/ Close(c) \/ Finish(c) \/ Report(c)
       \/ \E m \in Machines : Make(c, m) \/ Hold(c, m)
  \/ \E m \in Machines : End(m) \/ Collect(m) \/ Vanish(m)
  \/ Judge

Spec == Init /\ [][Next]_vars

-----------------------------------------------------------------------------
(* What core concludes.                                                    *)

\* A claim is annotated with, and reports, Machines made for it only: no two
\* claims share a Machine.
OwnMachines ==
  \A c \in NodeClaims : \A m \in {holds[c], reported[c]} \ {NoMachine} :
    m \in Machines /\ madeFor[m] = c

\* The instance of a finished claim is gone.
FinishedIsGone ==
  \A c \in NodeClaims :
    claim[c] = "gone" /\ reported[c] # NoMachine => machine[reported[c]] = "gone"

\* A Machine that an active claim holds, and is known to hold, goes on living
\* for as long as the claim is active and holds it, unless it is condemned:
\* the collection a claim has to fear is the one already under way.
HeldIsKept ==
  [][\A c \in NodeClaims :
       /\ claim[c] = "active" /\ holds[c] # NoMachine /\ known[c] = holds[c]
       /\ machine[holds[c]] = "live" /\ holds[c] \notin condemned
       => machine'[holds[c]] = "live"
          /\ (claim'[c] = "active" /\ holds'[c] = holds[c]
                => known'[c] = holds[c] /\ holds[c] \notin condemned')]_vars
=============================================================================
