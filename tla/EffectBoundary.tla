--------------------------- MODULE EffectBoundary ---------------------------
(***************************************************************************)
(* What the effect boundary promises about one financial effect per        *)
(* idempotency key: the lifecycle of docs/adlc/architecture.md up to the   *)
(* provider's acceptance, with what it leaves to the reader made explicit. *)
(* Nothing is claimed that no reviewer granted, money moves only for a     *)
(* claimed action and once, and an action that reached an end stays there. *)
(* Threads, requests, interrupts, approval rows and quotes are left out.   *)
(***************************************************************************)
CONSTANT Keys

VARIABLES
  phase,    \* phase[k]: where the effect of key k stands
  granted,  \* keys for which a reviewer has approved some request
  paid      \* keys whose money the provider has been told to move

vars == <<phase, granted, paid>>

Init ==
  /\ phase = [k \in Keys |-> "none"]
  /\ granted = {}
  /\ paid = {}

Move(k, from, to) ==
  /\ phase[k] = from
  /\ phase' = [phase EXCEPT ![k] = to]

Propose(k) ==
  /\ Move(k, "none", "denied") \/ Move(k, "none", "pending_approval")
  /\ UNCHANGED <<granted, paid>>

\* The first verdict moves a pending action; one that comes after it is only
\* recorded.
Grant(k) ==
  /\ granted' = granted \cup {k}
  /\ \/ Move(k, "pending_approval", "approved")
     \/ phase[k] # "pending_approval" /\ UNCHANGED phase
  /\ UNCHANGED paid

\* A reviewer rejects, or an approved action is found expired.
Cancel(k) ==
  /\ Move(k, "pending_approval", "cancelled") \/ Move(k, "approved", "cancelled")
  /\ UNCHANGED <<granted, paid>>

Claim(k) ==
  /\ k \in granted \ paid
  /\ Move(k, "approved", "executing")
  /\ UNCHANGED <<granted, paid>>

Pay(k) ==
  /\ phase[k] = "executing" /\ k \notin paid
  /\ paid' = paid \cup {k}
  /\ UNCHANGED <<phase, granted>>

\* Success is reported only of money that moved.
Report(k) ==
  /\ \/ k \in paid /\ Move(k, "executing", "submitted")
     \/ Move(k, "executing", "failed")
  /\ UNCHANGED <<granted, paid>>

Next == \E k \in Keys : Propose(k) \/ Grant(k) \/ Cancel(k) \/ Claim(k)
                        \/ Pay(k) \/ Report(k)

Spec == Init /\ [][Next]_vars
=============================================================================
