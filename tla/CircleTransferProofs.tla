------------------------ MODULE CircleTransferProofs ------------------------
(***************************************************************************)
(* Theorems about CircleTransfer, for any number of transfers, threads and *)
(* concurrent requests, any costs and opening balance and any faults.      *)
(*                                                                         *)
(* None of TypeOK, ClaimExclusive, PaidUnderClaim and EffectApproved is    *)
(* inductive alone.  Inv adds what a request has established at each of    *)
(* its steps (Local) and how the rows refer to one another (Rows).         *)
(* Reviewed and Wallet, inductive under Inv, add what the policy permitted *)
(* and what the quotes that requests hold leave of the balance.            *)
(***************************************************************************)
EXTENDS CircleTransfer, FiniteSetTheorems, WellFoundedInduction, TLAPS

\* What a request knows at each step: it runs a tool on a thread and a key, has
\* prepared a digest, has seen an approval, has quoted a sufficient balance.
Local(p) ==
  /\ pc[p] # "idle" => job[p].thread \in Threads
  /\ pc[p] \notin {"idle", "resume"} => job[p].key \in Keys
  /\ pc[p] \in {"lookup", "insert", "approvals"} => job[p].digest \in Digests
  /\ pc[p] \in {"interrupt", "check"} => job[p].seen \in Procs
  /\ pc[p] \in {"submit", "debit"} => Cost[job[p].key] <= job[p].quote
  /\ pc[p] \in {"approvals", "request"} => status[job[p].key] # "none"
  /\ pc[p] \in {"debit", "success"} => job[p].key \in txns
  /\ pc[p] = "request" => approval[job[p].key][p] = "none"

Locals == \A p \in Procs : Local(p)

\* An approval is requested only for an action that was inserted, and such an
\* action names its thread.
Rows ==
  \A k \in Keys :
    /\ status[k] # "none" => home[k] \in Threads
    /\ \A a \in Procs :
         approval[k][a] # "none" => status[k] # "none" /\ latest[k] # None

\* The inductive invariant.
Inv == TypeOK /\ Locals /\ Rows /\ ClaimExclusive /\ EffectApproved
       /\ PaidUnderClaim /\ NeverPaidTwice

\* A step of request p leaves the other requests alone.
Alone(p) ==
  \A q \in Procs \ {p} : pc'[q] = pc[q] /\ job'[q] = job[q]

\* A step of p that keeps what the other requests know of the rows.
Keeps(p) ==
  /\ Alone(p)
  /\ \A k \in Keys : /\ status[k] # "none" => status'[k] # "none"
                     /\ \A q \in Procs \ {p} :
                          approval[k][q] = "none" => approval'[k][q] = "none"
  /\ txns \subseteq txns'

\* A step of p that neither claims, pays nor reports: what executes keeps
\* executing, and p is not between the claim and the result.
Harmless(p) ==
  /\ Keeps(p)
  /\ pc'[p] \notin Running
  /\ \A k \in Keys : status[k] = "executing" => status'[k] = "executing"
  /\ txns' = txns

-----------------------------------------------------------------------------
(* Lemmas about the ways a request moves.                                  *)

LEMMA NoJobType == OpeningBalance \in Nat /\ NoJob \in Jobs
  BY TransferAssumption DEF NoJob, Jobs

\* Assigning local variables of a request keeps its type.
LEMMA JobAssign ==
  ASSUME NEW j \in Jobs, NEW t \in Threads, NEW k \in Keys,
         NEW d \in Digests \cup {None}, NEW a \in Procs \cup {None},
         NEW r \in Requests \cup {None}, NEW q \in 0 .. OpeningBalance
  PROVE  /\ [j EXCEPT !.digest = d] \in Jobs
         /\ [j EXCEPT !.seen = a] \in Jobs
         /\ [j EXCEPT !.key = k] \in Jobs
         /\ [j EXCEPT !.quote = q] \in Jobs
         /\ [j EXCEPT !.digest = d, !.seen = a] \in Jobs
         /\ [j EXCEPT !.resume = r, !.seen = a] \in Jobs
         /\ [j EXCEPT !.thread = t, !.key = k] \in Jobs
         /\ [j EXCEPT !.thread = t, !.resume = r] \in Jobs
  <1>1. /\ [j EXCEPT !.digest = d] \in Jobs
        /\ [j EXCEPT !.seen = a] \in Jobs
        /\ [j EXCEPT !.key = k] \in Jobs
        /\ [j EXCEPT !.quote = q] \in Jobs
    BY DEF Jobs
  <1>2. /\ [j EXCEPT !.digest = d, !.seen = a] \in Jobs
        /\ [j EXCEPT !.resume = r, !.seen = a] \in Jobs
    BY DEF Jobs
  <1>3. /\ [j EXCEPT !.thread = t, !.key = k] \in Jobs
        /\ [j EXCEPT !.thread = t, !.resume = r] \in Jobs
    BY DEF Jobs
  <1>4. QED
    BY <1>1, <1>2, <1>3

LEMMA ContinueMoves ==
  ASSUME NEW p \in Procs, NEW s \in Steps, TypeOK, Continue(p, s)
  PROVE  /\ waiting' \in [Threads -> Keys \cup {None}]
         /\ pc' \in [Procs -> Steps] /\ job' \in [Procs -> Jobs]
         /\ Alone(p) /\ pc'[p] = s /\ job'[p] = job[p]
  BY DEF TypeOK, Continue, Goto, Alone

LEMMA LeaveMoves ==
  ASSUME NEW p \in Procs, TypeOK, Leave(p)
  PROVE  /\ pc' \in [Procs -> Steps] /\ job' \in [Procs -> Jobs]
         /\ Alone(p) /\ pc'[p] = "idle" /\ job'[p] = NoJob /\ Local(p)'
  BY NoJobType DEF TypeOK, Leave, Goto, Steps, Alone, Local

LEMMA FinishMoves ==
  ASSUME NEW p \in Procs, TypeOK, Local(p), pc[p] # "idle", Finish(p)
  PROVE  /\ waiting' \in [Threads -> Keys \cup {None}]
         /\ pc' \in [Procs -> Steps] /\ job' \in [Procs -> Jobs]
         /\ Alone(p) /\ pc'[p] = "idle" /\ job'[p] = NoJob /\ Local(p)'
  BY LeaveMoves DEF TypeOK, Local, Finish

\* A request moves to step s with new locals j.
LEMMA AssignMoves ==
  ASSUME NEW p \in Procs, NEW s \in Steps, NEW j \in Jobs, TypeOK,
         job' = [job EXCEPT ![p] = j], Goto(p, s)
  PROVE  /\ pc' \in [Procs -> Steps] /\ job' \in [Procs -> Jobs]
         /\ Alone(p) /\ pc'[p] = s /\ job'[p] = j
  BY DEF TypeOK, Goto, Alone

\* The compare-and-set moves at most one row, and only from the old status.
LEMMA StatusMoves ==
  ASSUME TypeOK, NEW k \in Keys, NEW old \in Statuses, NEW new \in Statuses,
         SetStatus(k, old, new)
  PROVE  /\ status' \in [Keys -> Statuses]
         /\ \A i \in Keys \ {k} : status'[i] = status[i]
         /\ status'[k] = IF status[k] = old THEN new ELSE status[k]
  BY DEF TypeOK, SetStatus

\* What the other requests know stays true, and so does the exclusive claim.
LEMMA KeepsLocals ==
  ASSUME NEW p \in Procs, Inv, Keeps(p), Local(p)' PROVE Locals'
  <1> SUFFICES ASSUME NEW q \in Procs, q # p PROVE Local(q)'
    BY DEF Locals
  <1>1. pc'[q] = pc[q] /\ job'[q] = job[q] /\ Local(q)
    BY DEF Inv, Locals, Keeps, Alone
  <1>2. QED
    BY <1>1 DEF Local, Keeps

LEMMA HarmlessClaims ==
  ASSUME NEW p \in Procs, Inv, Harmless(p)
  PROVE  ClaimExclusive' /\ NeverPaidTwice'
  <1>1. \A q \in Procs : pc'[q] \in Running =>
          q # p /\ pc[q] \in Running /\ job'[q] = job[q] /\ pc'[q] = pc[q]
          /\ job[q].key \in Keys
    BY DEF Inv, Locals, Local, Harmless, Keeps, Alone, Running
  <1>2. ClaimExclusive'
    BY <1>1 DEF Inv, ClaimExclusive, Harmless, Keeps
  <1>3. NeverPaidTwice'
    BY <1>1 DEF Inv, NeverPaidTwice, Harmless, Keeps, Running
  <1>4. QED
    BY <1>2, <1>3

\* A request working on its claimed action works on alone.
LEMMA WorkingClaims ==
  ASSUME NEW p \in Procs, Inv, Alone(p), pc[p] \in Running,
         job'[p].key = job[p].key, UNCHANGED status
  PROVE  ClaimExclusive'
  <1>1. \A q \in Procs : pc'[q] \in Running =>
          pc[q] \in Running /\ job'[q].key = job[q].key
    BY DEF Alone
  <1>2. QED
    BY <1>1 DEF Inv, ClaimExclusive

LEMMA InitInv == Init => Inv
  BY TransferAssumption
  DEF Init, Inv, TypeOK, Locals, Local, Rows, ClaimExclusive, EffectApproved,
      PaidUnderClaim, NeverPaidTwice, Statuses, Verdicts, Steps, Jobs, NoJob,
      Running

-----------------------------------------------------------------------------
(* Every step keeps the invariant: first the requests' own steps.          *)

LEMMA MessageInv ==
  ASSUME NEW p \in Procs, NEW t \in Threads, NEW k \in Keys, Inv, Message(p, t, k)
  PROVE Inv'
  <1> USE DEF Message, At, store, rows, asks, clock
  <1> DEFINE j == [NoJob EXCEPT !.thread = t, !.key = k]
  <1>1. j \in Jobs /\ j.thread = t /\ j.key = k
    <2>1. j \in Jobs
      BY NoJobType DEF Jobs
    <2>2. QED
      BY <2>1 DEF NoJob
  <1>2. /\ pc' \in [Procs -> Steps] /\ job' \in [Procs -> Jobs]
        /\ Alone(p) /\ pc'[p] = "prepare" /\ job'[p] = j
    BY <1>1, AssignMoves DEF Inv, Steps
  <1>3. TypeOK'
    BY <1>2 DEF Inv, TypeOK
  <1>4. Harmless(p) /\ Local(p)'
    BY <1>1, <1>2 DEF Harmless, Keeps, Local, Running
  <1>5. Rows' /\ EffectApproved' /\ PaidUnderClaim'
    BY DEF Inv, Rows, EffectApproved, PaidUnderClaim
  <1>6. QED
    BY <1>3, <1>4, <1>5, KeepsLocals, HarmlessClaims DEF Inv, Harmless

LEMMA PrepareInv == ASSUME NEW p \in Procs, Inv, Prepare(p) PROVE Inv'
  <1> USE DEF Prepare, At, store, rows, asks, clock
  <1> DEFINE d == [balance |-> balance, world |-> world]
             j == [job[p] EXCEPT !.digest = d]
  <1>1. d \in Digests /\ job[p] \in Jobs /\ job[p].thread \in Threads
        /\ job[p].key \in Keys
    BY DEF Inv, TypeOK, Digests, Locals, Local
  <1>2. j \in Jobs /\ j.digest = d /\ j.thread = job[p].thread /\ j.key = job[p].key
    BY <1>1 DEF Jobs
  <1>3. /\ pc' \in [Procs -> Steps] /\ job' \in [Procs -> Jobs]
        /\ Alone(p) /\ pc'[p] = "lookup" /\ job'[p] = j
    <2>1. job' = [job EXCEPT ![p] = j]
      OBVIOUS
    <2>2. QED
      BY <1>2, <2>1, AssignMoves DEF Inv, Steps
  <1>4. TypeOK'
    BY <1>3 DEF Inv, TypeOK
  <1>5. Harmless(p) /\ Local(p)'
    BY <1>1, <1>2, <1>3 DEF Harmless, Keeps, Local, Running
  <1>6. Rows' /\ EffectApproved' /\ PaidUnderClaim'
    BY DEF Inv, Rows, EffectApproved, PaidUnderClaim
  <1>7. QED
    BY <1>4, <1>5, <1>6, KeepsLocals, HarmlessClaims DEF Inv, Harmless

LEMMA LookupInv == ASSUME NEW p \in Procs, Inv, Lookup(p) PROVE Inv'
  <1> USE DEF Lookup, At, store, rows, asks, clock
  <1>1. Local(p) /\ TypeOK
    BY DEF Inv, Locals
  <1>2. /\ waiting' \in [Threads -> Keys \cup {None}]
        /\ pc' \in [Procs -> Steps] /\ job' \in [Procs -> Jobs]
        /\ Alone(p) /\ pc'[p] \notin Running /\ Local(p)'
    <2>1. CASE Continue(p, "insert")
      BY <1>1, <2>1, ContinueMoves DEF Steps, Local, Running
    <2>2. CASE Continue(p, "approvals") /\ status[job[p].key] # "none"
      BY <1>1, <2>2, ContinueMoves DEF Steps, Local, Running
    <2>3. CASE Finish(p)
      BY <1>1, <2>3, FinishMoves DEF Running
    <2>4. QED
      BY <2>1, <2>2, <2>3
  <1>3. TypeOK' /\ Harmless(p)
    BY <1>1, <1>2 DEF TypeOK, Harmless, Keeps
  <1>4. Rows' /\ EffectApproved' /\ PaidUnderClaim'
    BY DEF Inv, Rows, EffectApproved, PaidUnderClaim
  <1>5. QED
    BY <1>2, <1>3, <1>4, KeepsLocals, HarmlessClaims DEF Inv, Harmless

LEMMA InsertInv == ASSUME NEW p \in Procs, Inv, Insert(p) PROVE Inv'
  <1> USE DEF Insert, Free, At, store, rows, asks, clock
  <1> DEFINE k == job[p].key
  <1>1. /\ Local(p) /\ TypeOK /\ k \in Keys /\ job[p].thread \in Threads
        /\ job[p].digest \in Digests
    BY DEF Inv, Locals, Local
  <1>2. CASE ~Free(k) /\ Finish(p) /\ UNCHANGED rows
    <2>1. /\ waiting' \in [Threads -> Keys \cup {None}]
          /\ pc' \in [Procs -> Steps] /\ job' \in [Procs -> Jobs]
          /\ Alone(p) /\ pc'[p] = "idle" /\ Local(p)'
      BY <1>1, <1>2, FinishMoves
    <2>2. TypeOK' /\ Harmless(p)
      BY <1>1, <1>2, <2>1 DEF TypeOK, Harmless, Keeps, Running
    <2>3. Rows' /\ EffectApproved' /\ PaidUnderClaim'
      BY <1>2 DEF Inv, Rows, EffectApproved, PaidUnderClaim
    <2>4. QED
      BY <2>1, <2>2, <2>3, KeepsLocals, HarmlessClaims DEF Inv, Harmless
  <1>3. CASE Free(k) /\ Continue(p, "approvals")
             /\ status' = [status EXCEPT ![k] = Verdict(k, job[p].digest)]
             /\ digest' = [digest EXCEPT ![k] = job[p].digest]
             /\ home' = [home EXCEPT ![k] = job[p].thread]
    <2>1. Verdict(k, job[p].digest) \in {"pending_approval", "denied"}
      BY DEF Verdict
    <2>2. /\ waiting' \in [Threads -> Keys \cup {None}]
          /\ pc' \in [Procs -> Steps] /\ job' \in [Procs -> Jobs]
          /\ Alone(p) /\ pc'[p] = "approvals" /\ job'[p] = job[p]
      BY <1>1, <1>3, ContinueMoves DEF Steps
    <2>3. TypeOK'
      BY <1>1, <1>3, <2>1, <2>2 DEF TypeOK, Statuses
    <2>4. Harmless(p)
      BY <1>1, <1>3, <2>1, <2>2 DEF TypeOK, Harmless, Keeps, Running
    <2>5. Local(p)'
      BY <1>1, <1>3, <2>1, <2>2 DEF TypeOK, Local
    <2>6. Rows' /\ EffectApproved' /\ PaidUnderClaim'
      BY <1>1, <1>3, <2>1 DEF Inv, TypeOK, Rows, EffectApproved, PaidUnderClaim
    <2>7. QED
      BY <2>3, <2>4, <2>5, <2>6, KeepsLocals, HarmlessClaims DEF Inv, Harmless
  <1>4. QED
    BY <1>2, <1>3

LEMMA ApprovalsInv == ASSUME NEW p \in Procs, Inv, Approvals(p) PROVE Inv'
  <1> USE DEF Approvals, At, store, rows, asks, clock
  <1> DEFINE k == job[p].key
             a == latest[k]
             j == [job[p] EXCEPT !.digest = None, !.seen = a]
             s == IF a = None THEN "request"
                  ELSE IF approval[k][a] = "pending" THEN "interrupt" ELSE "check"
  <1>1. /\ Local(p) /\ TypeOK /\ k \in Keys /\ job[p].thread \in Threads
        /\ status[k] # "none" /\ job[p] \in Jobs /\ a \in Procs \cup {None}
    BY DEF Inv, Locals, Local, TypeOK
  <1>2. /\ waiting' \in [Threads -> Keys \cup {None}]
        /\ pc' \in [Procs -> Steps] /\ job' \in [Procs -> Jobs]
        /\ Alone(p) /\ pc'[p] \notin Running /\ Local(p)'
    <2>1. CASE Finish(p)
      BY <1>1, <2>1, FinishMoves DEF Running
    <2>2. CASE job' = [job EXCEPT ![p] = j] /\ Goto(p, s) /\ UNCHANGED waiting
      <3>1. j \in Jobs /\ j.thread = job[p].thread /\ j.key = k /\ j.seen = a
        BY <1>1 DEF Jobs
      <3>2. s \in {"request", "interrupt", "check"}
            /\ (s # "request" => a # None)
        OBVIOUS
      <3>3. /\ pc' \in [Procs -> Steps] /\ job' \in [Procs -> Jobs]
            /\ Alone(p) /\ pc'[p] = s /\ job'[p] = j
        <4>1. s \in Steps
          BY <3>2 DEF Steps
        <4> HIDE DEF j, s
        <4>2. QED
          BY <1>1, <2>2, <3>1, <4>1, AssignMoves
      <3>4. a = None => approval[k][p] = "none"
        BY <1>1 DEF Inv, Rows
      <3>5. Local(p)'
        <4>1. s = "request" => approval'[k][p] = "none"
          BY <3>4
        <4> HIDE DEF j, s
        <4>2. QED
          BY <1>1, <3>1, <3>2, <3>3, <4>1 DEF Local
      <3>6. QED
        BY <1>1, <2>2, <3>2, <3>3, <3>5 DEF TypeOK, Running
    <2>3. QED
      BY <2>1, <2>2
  <1>3. TypeOK' /\ Harmless(p)
    BY <1>1, <1>2 DEF TypeOK, Harmless, Keeps
  <1>4. Rows' /\ EffectApproved' /\ PaidUnderClaim'
    BY DEF Inv, Rows, EffectApproved, PaidUnderClaim
  <1>5. QED
    BY <1>2, <1>3, <1>4, KeepsLocals, HarmlessClaims DEF Inv, Harmless

LEMMA RequestInv == ASSUME NEW p \in Procs, Inv, Request(p) PROVE Inv'
  <1> USE DEF Request, At, store, rows, asks, clock
  <1> DEFINE k == job[p].key
             j == [job[p] EXCEPT !.seen = p]
  <1>1. /\ Local(p) /\ TypeOK /\ k \in Keys /\ job[p].thread \in Threads
        /\ status[k] # "none" /\ job[p] \in Jobs
    BY DEF Inv, Locals, Local, TypeOK
  <1>2. j \in Jobs /\ j.thread = job[p].thread /\ j.key = k /\ j.seen = p
    BY <1>1 DEF Jobs
  <1>3. /\ pc' \in [Procs -> Steps] /\ job' \in [Procs -> Jobs]
        /\ Alone(p) /\ pc'[p] = "interrupt" /\ job'[p] = j
    <2>1. job' = [job EXCEPT ![p] = j]
      OBVIOUS
    <2>2. QED
      BY <1>1, <1>2, <2>1, AssignMoves DEF Steps
  <1>4. approval' \in [Keys -> [Procs -> Verdicts]]
        /\ latest' \in [Keys -> Procs \cup {None}]
    <2>1. /\ approval \in [Keys -> [Procs -> Verdicts]]
          /\ latest \in [Keys -> Procs \cup {None}]
      BY <1>1 DEF TypeOK
    <2>2. /\ approval' = [approval EXCEPT ![k][p] = "pending"]
          /\ latest' = [latest EXCEPT ![k] = p] \/ latest' = latest
      OBVIOUS
    <2>3. latest' \in [Keys -> Procs \cup {None}]
      BY <1>1, <2>1, <2>2
    <2>4. approval' \in [Keys -> [Procs -> Verdicts]]
      BY <1>1, <2>1, <2>2 DEF Verdicts
    <2>5. QED
      BY <2>3, <2>4
  <1>5. TypeOK' /\ Harmless(p) /\ Local(p)'
    <2>1. TypeOK'
      BY <1>1, <1>3, <1>4 DEF TypeOK
    <2>2. Harmless(p)
      BY <1>1, <1>3, <2>1 DEF Harmless, Keeps, Running
    <2>3. Local(p)'
      BY <1>1, <1>2, <1>3 DEF Local
    <2>4. QED
      BY <2>1, <2>2, <2>3
  <1>6. \A i \in Keys, a \in Procs :
          approval'[i][a] = IF i = k /\ a = p THEN "pending" ELSE approval[i][a]
    BY <1>1 DEF TypeOK
  <1>7. EffectApproved'
    <2> SUFFICES ASSUME NEW i \in Keys,
                        status[i] \in {"approved", "executing", "submitted", "failed"}
                 PROVE  \E a \in Procs : approval'[i][a] = "approved"
      BY DEF EffectApproved
    <2>1. PICK a \in Procs : approval[i][a] = "approved"
      BY DEF Inv, EffectApproved
    <2>2. ~(i = k /\ a = p)
      BY <1>1, <2>1 DEF Local
    <2>3. QED
      BY <1>6, <2>1, <2>2
  <1>8. Rows' /\ PaidUnderClaim'
    <2>1. \A i \in Keys : latest[i] # None => latest'[i] # None
      BY <1>1, TransferAssumption DEF TypeOK
    <2>2. latest'[k] # None
      BY <1>1, TransferAssumption DEF TypeOK
    <2>3. QED
      BY <1>1, <1>6, <2>1, <2>2 DEF Inv, Rows, PaidUnderClaim
  <1>9. QED
    BY <1>5, <1>7, <1>8, KeepsLocals, HarmlessClaims DEF Inv, Harmless

LEMMA InterruptInv == ASSUME NEW p \in Procs, Inv, Interrupt(p) PROVE Inv'
  <1> USE DEF Interrupt, At, store, rows, asks, clock
  <1>1. Local(p) /\ TypeOK /\ job[p].thread \in Threads /\ job[p].seen \in Procs
    BY DEF Inv, Locals, Local
  <1>2. /\ waiting' \in [Threads -> Keys \cup {None}]
        /\ pc' \in [Procs -> Steps] /\ job' \in [Procs -> Jobs]
        /\ Alone(p) /\ pc'[p] \notin Running /\ Local(p)'
    <2>1. CASE Leave(p) /\ UNCHANGED waiting
      BY <1>1, <2>1, LeaveMoves DEF TypeOK, Running
    <2>2. CASE Continue(p, "check")
      BY <1>1, <2>2, ContinueMoves DEF Steps, Local, Running
    <2>3. CASE Finish(p)
      BY <1>1, <2>3, FinishMoves DEF Running
    <2>4. QED
      BY <2>1, <2>2, <2>3
  <1>3. TypeOK' /\ Harmless(p)
    BY <1>1, <1>2 DEF TypeOK, Harmless, Keeps
  <1>4. Rows' /\ EffectApproved' /\ PaidUnderClaim'
    BY DEF Inv, Rows, EffectApproved, PaidUnderClaim
  <1>5. QED
    BY <1>2, <1>3, <1>4, KeepsLocals, HarmlessClaims DEF Inv, Harmless

LEMMA CheckInv == ASSUME NEW p \in Procs, Inv, Check(p) PROVE Inv'
  <1> USE DEF Check, At, store, rows, asks, clock
  <1> DEFINE j == [job[p] EXCEPT !.resume = None, !.seen = None]
  <1>1. /\ Local(p) /\ TypeOK /\ job[p].key \in Keys /\ job[p].thread \in Threads
        /\ job[p] \in Jobs
    BY DEF Inv, Locals, Local, TypeOK
  <1>2. /\ waiting' \in [Threads -> Keys \cup {None}]
        /\ pc' \in [Procs -> Steps] /\ job' \in [Procs -> Jobs]
        /\ Alone(p) /\ pc'[p] \notin Running /\ Local(p)'
    <2>1. CASE Finish(p)
      BY <1>1, <2>1, FinishMoves DEF Running
    <2>2. CASE job' = [job EXCEPT ![p] = j] /\ Goto(p, "execute") /\ UNCHANGED waiting
      <3>1. j \in Jobs /\ j.thread = job[p].thread /\ j.key = job[p].key
        BY <1>1 DEF Jobs
      <3>2. /\ pc' \in [Procs -> Steps] /\ job' \in [Procs -> Jobs]
            /\ Alone(p) /\ pc'[p] = "execute" /\ job'[p] = j
        BY <1>1, <2>2, <3>1, AssignMoves DEF Steps
      <3>3. QED
        BY <1>1, <2>2, <3>1, <3>2 DEF TypeOK, Running, Local
    <2>3. QED
      BY <2>1, <2>2
  <1>3. TypeOK' /\ Harmless(p)
    BY <1>1, <1>2 DEF TypeOK, Harmless, Keeps
  <1>4. Rows' /\ EffectApproved' /\ PaidUnderClaim'
    BY DEF Inv, Rows, EffectApproved, PaidUnderClaim
  <1>5. QED
    BY <1>2, <1>3, <1>4, KeepsLocals, HarmlessClaims DEF Inv, Harmless

LEMMA ExecuteInv == ASSUME NEW p \in Procs, Inv, Execute(p) PROVE Inv'
  <1> USE DEF Execute, At, store, rows, asks, clock
  <1> DEFINE k == job[p].key
  <1>1. Local(p) /\ TypeOK /\ k \in Keys /\ job[p].thread \in Threads
    BY DEF Inv, Locals, Local
  <1>2. /\ waiting' \in [Threads -> Keys \cup {None}]
        /\ pc' \in [Procs -> Steps] /\ job' \in [Procs -> Jobs]
        /\ Alone(p) /\ pc'[p] \notin Running /\ Local(p)'
    <2>1. CASE Continue(p, "authorise")
      BY <1>1, <2>1, ContinueMoves DEF Steps, Local, Running
    <2>2. CASE Finish(p)
      BY <1>1, <2>2, FinishMoves DEF Running
    <2>3. QED
      BY <2>1, <2>2
  <1>3. /\ status' \in [Keys -> Statuses]
        /\ \A i \in Keys :
             status'[i] = status[i] \/ (status[i] = "approved" /\ status'[i] = "cancelled")
    BY <1>1, StatusMoves DEF TypeOK, Statuses
  <1>4. TypeOK' /\ Harmless(p)
    BY <1>1, <1>2, <1>3 DEF TypeOK, Harmless, Keeps
  <1>5. Rows' /\ EffectApproved' /\ PaidUnderClaim'
    BY <1>3 DEF Inv, Rows, EffectApproved, PaidUnderClaim
  <1>6. QED
    BY <1>2, <1>4, <1>5, KeepsLocals, HarmlessClaims DEF Inv, Harmless

LEMMA AuthoriseInv == ASSUME NEW p \in Procs, Inv, Authorise(p) PROVE Inv'
  <1> USE DEF Authorise, At, store, rows, asks, clock
  <1>1. Local(p) /\ TypeOK /\ job[p].thread \in Threads
    BY DEF Inv, Locals, Local
  <1>2. /\ waiting' \in [Threads -> Keys \cup {None}]
        /\ pc' \in [Procs -> Steps] /\ job' \in [Procs -> Jobs]
        /\ Alone(p) /\ pc'[p] \notin Running /\ Local(p)'
    <2>1. CASE Continue(p, "claim")
      BY <1>1, <2>1, ContinueMoves DEF Steps, Local, Running
    <2>2. CASE Finish(p)
      BY <1>1, <2>2, FinishMoves DEF Running
    <2>3. QED
      BY <2>1, <2>2
  <1>3. TypeOK' /\ Harmless(p)
    BY <1>1, <1>2 DEF TypeOK, Harmless, Keeps
  <1>4. Rows' /\ EffectApproved' /\ PaidUnderClaim'
    BY DEF Inv, Rows, EffectApproved, PaidUnderClaim
  <1>5. QED
    BY <1>2, <1>3, <1>4, KeepsLocals, HarmlessClaims DEF Inv, Harmless

LEMMA ClaimInv == ASSUME NEW p \in Procs, Inv, Claim(p) PROVE Inv'
  <1> USE DEF Claim, Claimable, At, store, rows, asks, clock
  <1> DEFINE k == job[p].key
  <1>1. Local(p) /\ TypeOK /\ k \in Keys /\ job[p].thread \in Threads
    BY DEF Inv, Locals, Local
  <1>2. CASE ~Claimable(k) /\ Finish(p) /\ UNCHANGED status
    <2>1. /\ waiting' \in [Threads -> Keys \cup {None}]
          /\ pc' \in [Procs -> Steps] /\ job' \in [Procs -> Jobs]
          /\ Alone(p) /\ pc'[p] = "idle" /\ Local(p)'
      BY <1>1, <1>2, FinishMoves
    <2>2. TypeOK' /\ Harmless(p)
      BY <1>1, <1>2, <2>1 DEF TypeOK, Harmless, Keeps, Running
    <2>3. Rows' /\ EffectApproved' /\ PaidUnderClaim'
      BY <1>2 DEF Inv, Rows, EffectApproved, PaidUnderClaim
    <2>4. QED
      BY <2>1, <2>2, <2>3, KeepsLocals, HarmlessClaims DEF Inv, Harmless
  <1>3. CASE Claimable(k) /\ Continue(p, "quote")
             /\ status' = [status EXCEPT ![k] = "executing"]
    <2>1. /\ waiting' \in [Threads -> Keys \cup {None}]
          /\ pc' \in [Procs -> Steps] /\ job' \in [Procs -> Jobs]
          /\ Alone(p) /\ pc'[p] = "quote" /\ job'[p] = job[p]
      BY <1>1, <1>3, ContinueMoves DEF Steps
    <2>2. TypeOK'
      BY <1>1, <1>3, <2>1 DEF TypeOK, Statuses
    <2>3. status'[k] = "executing" /\ \A i \in Keys \ {k} : status'[i] = status[i]
      BY <1>1, <1>3 DEF TypeOK
    <2>4. Keeps(p) /\ Local(p)'
      BY <1>1, <1>3, <2>1, <2>3 DEF Keeps, Local
    <2>5. k \notin txns /\ \A q \in Procs : pc[q] \in Running => job[q].key # k
      BY <1>1, <1>3 DEF Inv, PaidUnderClaim, ClaimExclusive
    <2>6. ClaimExclusive'
      <3>1. \A q \in Procs \ {p} : pc'[q] \in Running =>
              pc[q] \in Running /\ job'[q] = job[q] /\ job[q].key \in Keys \ {k}
        BY <2>1, <2>5 DEF Inv, Locals, Local, Alone, Running
      <3>2. QED
        BY <2>1, <2>3, <3>1 DEF Inv, ClaimExclusive
    <2>7. NeverPaidTwice'
      BY <2>1, <2>5 DEF Inv, NeverPaidTwice, Alone
    <2>8. Rows' /\ EffectApproved' /\ PaidUnderClaim'
      BY <1>1, <1>3, <2>3 DEF Inv, Rows, EffectApproved, PaidUnderClaim
    <2>9. QED
      BY <2>2, <2>4, <2>6, <2>7, <2>8, KeepsLocals DEF Inv
  <1>4. QED
    BY <1>2, <1>3

LEMMA QuoteInv == ASSUME NEW p \in Procs, Inv, Quote(p) PROVE Inv'
  <1> USE DEF Quote, Payable, At, store, rows, asks, clock
  <1> DEFINE k == job[p].key
             j == [job[p] EXCEPT !.quote = balance]
  <1>1. /\ Local(p) /\ TypeOK /\ k \in Keys /\ job[p].thread \in Threads
        /\ job[p] \in Jobs /\ pc[p] \in Running
    BY DEF Inv, Locals, Local, TypeOK, Running
  <1>2. j \in Jobs /\ j.thread = job[p].thread /\ j.key = k /\ j.quote = balance
    BY <1>1 DEF Jobs, TypeOK
  <1>3. /\ pc' \in [Procs -> Steps] /\ job' \in [Procs -> Jobs]
        /\ Alone(p) /\ job'[p].key = k /\ pc'[p] \in {"submit", "failure"} /\ Local(p)'
    <2>1. CASE Payable(k) /\ Goto(p, "submit") /\ job' = [job EXCEPT ![p] = j]
      <3>1. /\ pc' \in [Procs -> Steps] /\ job' \in [Procs -> Jobs]
            /\ Alone(p) /\ pc'[p] = "submit" /\ job'[p] = j
        BY <1>1, <1>2, <2>1, AssignMoves DEF Steps
      <3>2. QED
        BY <1>1, <1>2, <2>1, <3>1 DEF Local
    <2>2. CASE Goto(p, "failure") /\ UNCHANGED job
      BY <1>1, <2>2, ContinueMoves DEF Steps, Continue, Local
    <2>3. QED
      BY <2>1, <2>2
  <1>4. TypeOK' /\ Keeps(p) /\ ClaimExclusive'
    BY <1>1, <1>3, WorkingClaims DEF TypeOK, Keeps
  <1>5. Rows' /\ EffectApproved' /\ PaidUnderClaim' /\ NeverPaidTwice'
    BY <1>3 DEF Inv, Rows, EffectApproved, PaidUnderClaim, NeverPaidTwice, Alone
  <1>6. QED
    BY <1>3, <1>4, <1>5, KeepsLocals DEF Inv

LEMMA SubmitInv == ASSUME NEW p \in Procs, Inv, Submit(p) PROVE Inv'
  <1> USE DEF Submit, At, store, rows, asks, clock
  <1> DEFINE k == job[p].key
  <1>1. /\ Local(p) /\ TypeOK /\ k \in Keys /\ job[p].thread \in Threads
        /\ pc[p] \in Running /\ status[k] = "executing" /\ k \notin txns
    BY DEF Inv, Locals, Local, Running, ClaimExclusive, NeverPaidTwice
  <1>2. /\ waiting' \in [Threads -> Keys \cup {None}]
        /\ pc' \in [Procs -> Steps] /\ job' \in [Procs -> Jobs]
        /\ Alone(p) /\ pc'[p] = "debit" /\ job'[p] = job[p]
    BY <1>1, ContinueMoves DEF Steps
  <1>3. TypeOK' /\ Keeps(p) /\ Local(p)' /\ ClaimExclusive'
    BY <1>1, <1>2, WorkingClaims DEF TypeOK, Keeps, Local
  <1>4. Rows' /\ EffectApproved' /\ PaidUnderClaim'
    BY <1>1 DEF Inv, Rows, EffectApproved, PaidUnderClaim
  <1>5. NeverPaidTwice'
    <2>1. \A q \in Procs \ {p} : pc[q] \in {"quote", "submit"} => job[q].key # k
      BY <1>1 DEF Inv, ClaimExclusive, Running
    <2>2. QED
      BY <1>2, <2>1 DEF Inv, NeverPaidTwice, Alone
  <1>6. QED
    BY <1>3, <1>4, <1>5, KeepsLocals DEF Inv

LEMMA DebitInv == ASSUME NEW p \in Procs, Inv, Debit(p) PROVE Inv'
  <1> USE DEF Debit, NewBalance, At, store, rows, asks, clock
  <1> DEFINE k == job[p].key
             j == [job[p] EXCEPT !.quote = 0]
  <1>1. /\ Local(p) /\ TypeOK /\ k \in Keys /\ job[p].thread \in Threads
        /\ job[p] \in Jobs /\ pc[p] \in Running
    BY DEF Inv, Locals, Local, TypeOK, Running
  <1>2. /\ j \in Jobs /\ j.thread = job[p].thread /\ j.key = k
        /\ balance' \in 0 .. OpeningBalance
    BY <1>1, NoJobType, TransferAssumption DEF Jobs, Local
  <1>3. /\ pc' \in [Procs -> Steps] /\ job' \in [Procs -> Jobs]
        /\ Alone(p) /\ job'[p] = j /\ pc'[p] = "success"
    <2>1. job' = [job EXCEPT ![p] = j]
      OBVIOUS
    <2>2. QED
      BY <1>1, <1>2, <2>1, AssignMoves DEF Steps
  <1>4. TypeOK' /\ Keeps(p) /\ Local(p)' /\ ClaimExclusive'
    BY <1>1, <1>2, <1>3, WorkingClaims DEF TypeOK, Keeps, Local
  <1>5. Rows' /\ EffectApproved' /\ PaidUnderClaim' /\ NeverPaidTwice'
    BY <1>3 DEF Inv, Rows, EffectApproved, PaidUnderClaim, NeverPaidTwice, Alone
  <1>6. QED
    BY <1>4, <1>5, KeepsLocals DEF Inv

LEMMA ProviderErrorInv == ASSUME NEW p \in Procs, Inv, ProviderError(p) PROVE Inv'
  <1> USE DEF ProviderError, At, store, rows, asks, clock
  <1> DEFINE k == job[p].key
             j == [job[p] EXCEPT !.quote = 0]
  <1>1. /\ Local(p) /\ TypeOK /\ k \in Keys /\ job[p].thread \in Threads
        /\ job[p] \in Jobs /\ pc[p] \in Running
    BY DEF Inv, Locals, Local, TypeOK, Running
  <1>2. j \in Jobs /\ j.thread = job[p].thread /\ j.key = k
    BY <1>1, NoJobType DEF Jobs
  <1>3. /\ pc' \in [Procs -> Steps] /\ job' \in [Procs -> Jobs]
        /\ Alone(p) /\ job'[p] = j /\ pc'[p] = "failure"
    <2>1. job' = [job EXCEPT ![p] = j]
      OBVIOUS
    <2>2. QED
      BY <1>1, <1>2, <2>1, AssignMoves DEF Steps
  <1>4. TypeOK' /\ Keeps(p) /\ Local(p)' /\ ClaimExclusive'
    BY <1>1, <1>2, <1>3, WorkingClaims DEF TypeOK, Keeps, Local
  <1>5. Rows' /\ EffectApproved' /\ PaidUnderClaim' /\ NeverPaidTwice'
    BY <1>3 DEF Inv, Rows, EffectApproved, PaidUnderClaim, NeverPaidTwice, Alone
  <1>6. QED
    BY <1>4, <1>5, KeepsLocals DEF Inv

LEMMA StoreErrorInv == ASSUME NEW p \in Procs, Inv, StoreError(p) PROVE Inv'
  <1> USE DEF StoreError, store, rows, asks, clock
  <1>1. Local(p) /\ TypeOK /\ job[p].thread \in Threads
    BY DEF Inv, Locals, Local
  <1>2. /\ waiting' \in [Threads -> Keys \cup {None}]
        /\ pc' \in [Procs -> Steps] /\ job' \in [Procs -> Jobs]
        /\ Alone(p) /\ pc'[p] = "idle" /\ Local(p)'
    BY <1>1, FinishMoves
  <1>3. TypeOK' /\ Harmless(p)
    BY <1>1, <1>2 DEF TypeOK, Harmless, Keeps, Running
  <1>4. Rows' /\ EffectApproved' /\ PaidUnderClaim'
    BY DEF Inv, Rows, EffectApproved, PaidUnderClaim
  <1>5. QED
    BY <1>2, <1>3, <1>4, KeepsLocals, HarmlessClaims DEF Inv, Harmless

LEMMA ResultInv == ASSUME NEW p \in Procs, Inv, Result(p) PROVE Inv'
  <1> USE DEF Result, At, store, rows, asks, clock
  <1> DEFINE k == job[p].key
  <1>1. /\ Local(p) /\ TypeOK /\ k \in Keys /\ job[p].thread \in Threads
        /\ pc[p] \in Running /\ status[k] = "executing"
    BY DEF Inv, Locals, Local, Running, ClaimExclusive
  <1>2. /\ waiting' \in [Threads -> Keys \cup {None}]
        /\ pc' \in [Procs -> Steps] /\ job' \in [Procs -> Jobs]
        /\ Alone(p) /\ pc'[p] = "idle" /\ Local(p)'
    BY <1>1, FinishMoves
  <1>3. /\ status' \in [Keys -> Statuses] /\ status'[k] = Outcome(p)
        /\ \A i \in Keys \ {k} : status'[i] = status[i]
    BY <1>1, StatusMoves DEF Outcome, Statuses
  <1>4. Outcome(p) \in {"submitted", "failed"} /\ (Outcome(p) = "submitted" => k \in txns)
    BY <1>1 DEF Outcome, Local
  <1>5. TypeOK' /\ Keeps(p)
    BY <1>1, <1>2, <1>3, <1>4 DEF TypeOK, Keeps
  <1>6. Rows' /\ EffectApproved' /\ PaidUnderClaim'
    BY <1>1, <1>3, <1>4 DEF Inv, Rows, EffectApproved, PaidUnderClaim
  <1>7. \A q \in Procs : pc'[q] \in Running =>
          q # p /\ pc[q] \in Running /\ pc'[q] = pc[q] /\ job'[q] = job[q]
          /\ job[q].key \in Keys \ {k}
    <2>1. \A q \in Procs \ {p} : pc[q] \in Running => job[q].key \in Keys \ {k}
      BY <1>1 DEF Inv, Locals, Local, ClaimExclusive, Running
    <2>2. QED
      BY <1>2, <2>1 DEF Alone, Running
  <1>8. ClaimExclusive' /\ NeverPaidTwice'
    BY <1>3, <1>7 DEF Inv, ClaimExclusive, NeverPaidTwice, Running
  <1>9. QED
    BY <1>2, <1>5, <1>6, <1>8, KeepsLocals DEF Inv

LEMMA ResumeInv == ASSUME NEW p \in Procs, Inv, Resume(p) PROVE Inv'
  <1> USE DEF Resume, At, store, rows, asks, clock
  <1> DEFINE t == job[p].thread
             j == [job[p] EXCEPT !.key = waiting[t]]
  <1>1. /\ Local(p) /\ TypeOK /\ t \in Threads /\ job[p] \in Jobs
        /\ waiting[t] \in Keys \cup {None}
    BY DEF Inv, Locals, Local, TypeOK
  <1>2. /\ pc' \in [Procs -> Steps] /\ job' \in [Procs -> Jobs]
        /\ Alone(p) /\ pc'[p] \notin Running /\ Local(p)'
    <2>1. CASE Leave(p)
      BY <1>1, <2>1, LeaveMoves DEF Running
    <2>2. CASE waiting[t] # None /\ job' = [job EXCEPT ![p] = j] /\ Goto(p, "prepare")
      <3>1. j \in Jobs /\ j.thread = t /\ j.key \in Keys
        BY <1>1, <2>2 DEF Jobs
      <3>2. /\ pc' \in [Procs -> Steps] /\ job' \in [Procs -> Jobs]
            /\ Alone(p) /\ pc'[p] = "prepare" /\ job'[p] = j
        BY <1>1, <2>2, <3>1, AssignMoves DEF Steps
      <3>3. QED
        BY <1>1, <3>1, <3>2 DEF Running, Local
    <2>3. QED
      BY <2>1, <2>2
  <1>3. TypeOK' /\ Harmless(p)
    BY <1>1, <1>2 DEF TypeOK, Harmless, Keeps
  <1>4. Rows' /\ EffectApproved' /\ PaidUnderClaim'
    BY DEF Inv, Rows, EffectApproved, PaidUnderClaim
  <1>5. QED
    BY <1>2, <1>3, <1>4, KeepsLocals, HarmlessClaims DEF Inv, Harmless

LEMMA StepInv == ASSUME NEW p \in Procs, Inv, Step(p) PROVE Inv'
  BY PrepareInv, LookupInv, InsertInv, ApprovalsInv, RequestInv, InterruptInv,
     CheckInv, ExecuteInv, AuthoriseInv, ClaimInv, QuoteInv, SubmitInv, DebitInv,
     ProviderErrorInv, StoreErrorInv, ResultInv, ResumeInv
  DEF Step

-----------------------------------------------------------------------------
(* The reviewer and the world around the requests.                         *)

LEMMA DecideInv ==
  ASSUME NEW p \in Procs, NEW k \in Keys, NEW a \in Procs, Inv, Decide(p, k, a)
  PROVE  Inv'
  <1> USE DEF Decide, At, Undecided, store, rows, asks, clock, locals
  <1> DEFINE r == [key |-> k, approval |-> a]
             j == [NoJob EXCEPT !.thread = home[k], !.resume = r]
  <1>1. /\ Local(p) /\ TypeOK /\ pc[p] = "idle" /\ approval[k][a] = "pending"
        /\ status[k] # "none" /\ home[k] \in Threads
    BY DEF Inv, Locals, Rows
  <1>2. PICK v \in {"expired", "rejected", "approved"} :
          /\ approval' = [approval EXCEPT ![k][a] = v]
          /\ v = "expired" => UNCHANGED <<status, pc, job>>
          /\ v = "rejected" => UNCHANGED <<pc, job>>
                               /\ SetStatus(k, "pending_approval", "cancelled")
          /\ v = "approved" => SetStatus(k, "pending_approval", "approved")
                               /\ job' = [job EXCEPT ![p] = j] /\ Goto(p, "resume")
    OBVIOUS
  <1>3. /\ approval' \in [Keys -> [Procs -> Verdicts]]
        /\ \A i \in Keys, b \in Procs :
             approval'[i][b] = IF i = k /\ b = a THEN v ELSE approval[i][b]
    BY <1>1, <1>2 DEF TypeOK, Verdicts
  <1>4. /\ status' \in [Keys -> Statuses]
        /\ \A i \in Keys \ {k} : status'[i] = status[i]
        /\ \/ status'[k] = status[k]
           \/ status[k] = "pending_approval" /\ status'[k] = "cancelled"
           \/ status[k] = "pending_approval" /\ status'[k] = "approved" /\ v = "approved"
    BY <1>1, <1>2, StatusMoves DEF TypeOK, Statuses
  <1>5. /\ pc' \in [Procs -> Steps] /\ job' \in [Procs -> Jobs]
        /\ Alone(p) /\ pc'[p] \in {"idle", "resume"} /\ Local(p)'
    <2>1. CASE UNCHANGED <<pc, job>>
      BY <1>1, <2>1 DEF TypeOK, Alone, Local
    <2>2. CASE job' = [job EXCEPT ![p] = j] /\ Goto(p, "resume")
      <3>1. j \in Jobs
        BY <1>1, NoJobType DEF Jobs, Requests
      <3>2. j.thread = home[k]
        BY <3>1 DEF NoJob
      <3>3. /\ pc' \in [Procs -> Steps] /\ job' \in [Procs -> Jobs]
            /\ Alone(p) /\ pc'[p] = "resume" /\ job'[p] = j
        BY <1>1, <2>2, <3>1, AssignMoves DEF Steps
      <3>4. QED
        BY <1>1, <3>2, <3>3 DEF Local
    <2>3. QED
      BY <1>2, <2>1, <2>2
  <1>6. TypeOK' /\ Harmless(p)
    BY <1>1, <1>3, <1>4, <1>5 DEF TypeOK, Harmless, Keeps, Running
  <1>7. Rows' /\ PaidUnderClaim'
    BY <1>1, <1>3, <1>4 DEF Inv, Rows, PaidUnderClaim
  <1>8. EffectApproved'
    <2> SUFFICES ASSUME NEW i \in Keys,
                        status'[i] \in {"approved", "executing", "submitted", "failed"}
                 PROVE  \E b \in Procs : approval'[i][b] = "approved"
      BY DEF EffectApproved
    <2>1. CASE status'[i] = status[i]
      <3>1. PICK b \in Procs : approval[i][b] = "approved"
        BY <2>1 DEF Inv, EffectApproved
      <3>2. QED
        BY <1>1, <1>3, <3>1
    <2>2. CASE i = k /\ v = "approved"
      BY <1>3, <2>2
    <2>3. QED
      BY <1>4, <2>1, <2>2
  <1>9. QED
    BY <1>5, <1>6, <1>7, <1>8, KeepsLocals, HarmlessClaims DEF Inv, Harmless

LEMMA ExpireInv == ASSUME NEW k \in Keys, Inv, Expire(k) PROVE Inv'
  <1> USE DEF Expire, store, rows, asks, locals
  <1>1. TypeOK'
    <2>1. expired \subseteq Keys /\ lapsed \subseteq Keys \X Procs
      BY DEF Inv, TypeOK
    <2>2. expired' \subseteq Keys
      BY <2>1
    <2>3. lapsed' \subseteq Keys \X Procs
      <3>1. CASE UNCHANGED lapsed
        BY <2>1, <3>1
      <3>2. CASE \E a \in Procs : lapsed' = lapsed \cup {<<k, a>>}
        BY <2>1, <3>2
      <3>3. QED
        BY <3>1, <3>2
    <2>4. QED
      BY <2>2, <2>3 DEF Inv, TypeOK
  <1>2. Locals' /\ ClaimExclusive' /\ NeverPaidTwice'
    BY DEF Inv, Locals, Local, ClaimExclusive, NeverPaidTwice
  <1>3. Rows' /\ EffectApproved' /\ PaidUnderClaim'
    BY DEF Inv, Rows, EffectApproved, PaidUnderClaim
  <1>4. QED
    BY <1>1, <1>2, <1>3 DEF Inv

LEMMA WorldChangeInv == ASSUME Inv, WorldChange PROVE Inv'
  BY DEF WorldChange, store, rows, asks, clock, locals, Inv, TypeOK, Locals, Local,
         Rows, ClaimExclusive, EffectApproved, PaidUnderClaim, NeverPaidTwice

LEMMA CrashInv == ASSUME Inv, Crash PROVE Inv'
  <1> USE DEF Crash, store, rows, asks, clock
  <1>1. \A p \in Procs : pc'[p] = "idle"
    OBVIOUS
  <1>2. TypeOK'
    BY NoJobType DEF Inv, TypeOK, Steps
  <1>3. Locals' /\ ClaimExclusive' /\ NeverPaidTwice'
    BY <1>1 DEF Locals, Local, ClaimExclusive, NeverPaidTwice, Running
  <1>4. Rows' /\ EffectApproved' /\ PaidUnderClaim'
    BY DEF Inv, Rows, EffectApproved, PaidUnderClaim
  <1>5. QED
    BY <1>2, <1>3, <1>4 DEF Inv

LEMMA StutterInv == ASSUME Inv, UNCHANGED vars PROVE Inv'
  BY DEF vars, Inv, TypeOK, Locals, Local, Rows, ClaimExclusive, EffectApproved,
         PaidUnderClaim, NeverPaidTwice

LEMMA NextInv == Inv /\ [Next]_vars => Inv'
  BY MessageInv, DecideInv, StepInv, ExpireInv, WorldChangeInv, CrashInv, StutterInv
  DEF Next

-----------------------------------------------------------------------------
(* The theorems.                                                           *)

\* The invariant holds of every reachable state.
THEOREM InvHolds == Spec => []Inv
  BY InitInv, NextInv, PTL DEF Spec

\* Every row and local variable keeps its type; in particular the balance never
\* goes below zero and never above what it was at the start.
THEOREM TypeCorrect == Spec => []TypeOK
  BY InvHolds, PTL DEF Inv

\* One request at a time works on a claimed action, and it stays executing
\* until that request reports: the claim is a lock no step breaks.
THEOREM ClaimIsExclusive == Spec => []ClaimExclusive
  BY InvHolds, PTL DEF Inv

\* Every action that is approved, executing or reported has an approved request.
THEOREM EffectsAreApproved == Spec => []EffectApproved
  BY InvHolds, PTL DEF Inv

\* Transaction rows and action statuses agree.
THEOREM PaymentsAreClaimed == Spec => []PaidUnderClaim
  BY InvHolds, PTL DEF Inv

\* No request comes to insert a transaction its action already has.
THEOREM PaymentsAreUnique == Spec => []NeverPaidTwice
  BY InvHolds, PTL DEF Inv

-----------------------------------------------------------------------------
(* What a step may never do.                                               *)

\* Only Insert writes a digest or a thread, and only where there was no row; no
\* step takes a row away.
LEMMA RowsKept ==
  Inv /\ [Next]_vars =>
    \A k \in Keys : status[k] # "none" =>
      digest'[k] = digest[k] /\ home'[k] = home[k] /\ status'[k] # "none"
  <1> SUFFICES ASSUME Inv, [Next]_vars, NEW k \in Keys, status[k] # "none"
               PROVE  digest'[k] = digest[k] /\ home'[k] = home[k]
                      /\ status'[k] # "none"
    OBVIOUS
  <1> USE DEF store, rows, asks, clock
  <1>1. TypeOK
    BY DEF Inv
  <1>2. CASE \E p \in Procs, t \in Threads, i \in Keys : Message(p, t, i)
    BY <1>2 DEF Message
  <1>3. CASE \E p \in Procs, i \in Keys, a \in Procs : Decide(p, i, a)
    BY <1>1, <1>3 DEF Decide, SetStatus, TypeOK
  <1>4. CASE \E p \in Procs : Step(p)
    <2> PICK p \in Procs : Step(p)
      BY <1>4
    <2>1. Local(p)
      BY DEF Inv, Locals
    <2>2. CASE Prepare(p) \/ Lookup(p) \/ Approvals(p) \/ Interrupt(p) \/ Check(p)
      BY <2>2 DEF Prepare, Lookup, Approvals, Interrupt, Check
    <2>3. CASE Authorise(p) \/ Quote(p) \/ Debit(p) \/ ProviderError(p)
               \/ StoreError(p) \/ Resume(p) \/ Submit(p) \/ Request(p)
      BY <2>3 DEF Authorise, Quote, Debit, ProviderError, StoreError, Resume, Submit,
                  Request
    <2>4. CASE Insert(p)
      BY <1>1, <2>1, <2>4 DEF Insert, Free, TypeOK, Local, At
    <2>5. CASE Execute(p) \/ Claim(p)
      BY <1>1, <2>5 DEF Execute, Claim, SetStatus, TypeOK
    <2>6. CASE Result(p)
      BY <1>1, <2>6 DEF Result, Outcome, SetStatus, TypeOK
    <2>7. QED
      BY <2>2, <2>3, <2>4, <2>5, <2>6 DEF Step
  <1>5. CASE \E i \in Keys : Expire(i)
    BY <1>5 DEF Expire
  <1>6. CASE WorldChange \/ Crash \/ UNCHANGED vars
    BY <1>6 DEF WorldChange, Crash, vars
  <1>7. QED
    BY <1>2, <1>3, <1>4, <1>5, <1>6 DEF Next

\* An action, once inserted, is executed with the digest it was approved with.
THEOREM ProposalsAreImmutable == Spec => ProposalImmutable
  BY InvHolds, RowsKept, PTL DEF Spec, ProposalImmutable

\* Only Request and Decide write an approval, the first where there was none of
\* this process, the second where it was pending.
LEMMA VerdictsKept ==
  Inv /\ [Next]_vars =>
    \A k \in Keys, a \in Procs : approval[k][a] \notin {"none", "pending"} =>
      approval'[k][a] = approval[k][a]
  <1> SUFFICES ASSUME Inv, [Next]_vars, NEW k \in Keys, NEW a \in Procs,
                      approval[k][a] \notin {"none", "pending"}
               PROVE  approval'[k][a] = approval[k][a]
    OBVIOUS
  <1> USE DEF store, rows, asks, clock
  <1>1. TypeOK
    BY DEF Inv
  <1>2. CASE \E p \in Procs, t \in Threads, i \in Keys : Message(p, t, i)
    BY <1>2 DEF Message
  <1>3. CASE \E p \in Procs, i \in Keys, b \in Procs : Decide(p, i, b)
    <2> PICK p \in Procs, i \in Keys, b \in Procs : Decide(p, i, b)
      BY <1>3
    <2>1. approval[i][b] = "pending"
      BY DEF Decide, Undecided
    <2>2. PICK v \in Verdicts : approval' = [approval EXCEPT ![i][b] = v]
      BY DEF Decide, Verdicts
    <2>3. ~(i = k /\ b = a)
      BY <2>1
    <2>4. approval \in [Keys -> [Procs -> Verdicts]]
      BY <1>1 DEF TypeOK
    <2>5. QED
      BY <2>2, <2>3, <2>4
  <1>4. CASE \E p \in Procs : Step(p)
    <2> PICK p \in Procs : Step(p)
      BY <1>4
    <2>1. CASE Prepare(p) \/ Lookup(p) \/ Insert(p) \/ Approvals(p) \/ Interrupt(p)
               \/ Check(p) \/ Execute(p)
      BY <2>1 DEF Prepare, Lookup, Insert, Approvals, Interrupt, Check, Execute
    <2>2. CASE Authorise(p) \/ Claim(p) \/ Quote(p) \/ Submit(p) \/ Debit(p)
               \/ ProviderError(p) \/ StoreError(p) \/ Result(p) \/ Resume(p)
      BY <2>2 DEF Authorise, Claim, Quote, Submit, Debit, ProviderError, StoreError,
                  Result, Resume
    <2>3. CASE Request(p)
      BY <1>1, <2>3 DEF Request, At, Inv, Locals, Local, TypeOK
    <2>4. QED
      BY <2>1, <2>2, <2>3 DEF Step
  <1>5. CASE \E i \in Keys : Expire(i)
    BY <1>5 DEF Expire
  <1>6. CASE WorldChange \/ Crash \/ UNCHANGED vars
    BY <1>6 DEF WorldChange, Crash, vars
  <1>7. QED
    BY <1>2, <1>3, <1>4, <1>5, <1>6 DEF Next

\* A verdict is recorded once, whoever decides at the same time.
THEOREM DecisionsAreFinal == Spec => DecidedOnce
  BY InvHolds, VerdictsKept, PTL DEF Spec, DecidedOnce

-----------------------------------------------------------------------------
(* What the policy permitted.                                              *)

\* The action that the row of k records is one the policy permits.
Sound(k) == Permitted(k, digest[k])

\* A request that looks for the approvals of an action works on the call that
\* its row records, and one that is about to ask for an approval was permitted.
Reviewed ==
  /\ \A k \in Keys : status[k] \notin {"none", "denied"} => Sound(k)
  /\ \A k \in Keys, a \in Procs : approval[k][a] # "none" => Sound(k)
  /\ \A p \in Procs :
       /\ pc[p] = "approvals" => digest[job[p].key] = job[p].digest
       /\ pc[p] = "request" => Sound(job[p].key)

\* A status other than a refusal comes from such a status, or from an insertion
\* of what the policy permits.
LEMMA StatusFrom ==
  ASSUME Inv, [Next]_vars, NEW k \in Keys, status'[k] \notin {"none", "denied"}
  PROVE  \/ status[k] \notin {"none", "denied"}
         \/ \E p \in Procs : Insert(p) /\ job[p].key = k /\ Sound(k)'
  <1> USE DEF store, rows, asks, clock
  <1>1. TypeOK
    BY DEF Inv
  <1>2. CASE \E p \in Procs, t \in Threads, i \in Keys : Message(p, t, i)
    BY <1>2 DEF Message
  <1>3. CASE \E p \in Procs, i \in Keys, a \in Procs : Decide(p, i, a)
    BY <1>1, <1>3 DEF Decide, SetStatus, TypeOK
  <1>4. CASE \E p \in Procs : Step(p)
    <2> PICK p \in Procs : Step(p)
      BY <1>4
    <2>1. Local(p)
      BY DEF Inv, Locals
    <2>2. CASE Prepare(p) \/ Lookup(p) \/ Approvals(p) \/ Interrupt(p) \/ Check(p)
      BY <2>2 DEF Prepare, Lookup, Approvals, Interrupt, Check
    <2>3. CASE Authorise(p) \/ Quote(p) \/ Debit(p) \/ ProviderError(p)
               \/ StoreError(p) \/ Resume(p) \/ Submit(p) \/ Request(p)
      BY <2>3 DEF Authorise, Quote, Debit, ProviderError, StoreError, Resume, Submit,
                  Request
    <2>4. CASE Insert(p)
      <3>1. CASE status' = status
        BY <3>1
      <3>2. CASE /\ status' = [status EXCEPT ![job[p].key] =
                                             Verdict(job[p].key, job[p].digest)]
                 /\ digest' = [digest EXCEPT ![job[p].key] = job[p].digest]
        <4>1. CASE k # job[p].key
          BY <3>2, <4>1
        <4>2. CASE k = job[p].key
          <5>1. /\ status'[k] = Verdict(k, job[p].digest)
                /\ digest'[k] = job[p].digest
            BY <1>1, <3>2, <4>2 DEF TypeOK
          <5>2. Permitted(k, job[p].digest)
            BY <5>1 DEF Verdict
          <5>3. Sound(k)'
            BY <5>1, <5>2 DEF Sound, Permitted
          <5>4. QED
            BY <2>4, <4>2, <5>3
        <4>3. QED
          BY <4>1, <4>2
      <3>3. QED
        BY <2>4, <3>1, <3>2 DEF Insert
    <2>5. CASE Execute(p) \/ Claim(p)
      BY <1>1, <2>5 DEF Execute, Claim, Claimable, SetStatus, TypeOK
    <2>6. CASE Result(p)
      BY <1>1, <2>6 DEF Result, SetStatus, TypeOK
    <2>7. QED
      BY <2>2, <2>3, <2>4, <2>5, <2>6 DEF Step
  <1>5. CASE \E i \in Keys : Expire(i)
    BY <1>5 DEF Expire
  <1>6. CASE WorldChange \/ Crash \/ UNCHANGED vars
    BY <1>6 DEF WorldChange, Crash, vars
  <1>7. QED
    BY <1>2, <1>3, <1>4, <1>5, <1>6 DEF Next

\* Only Request makes an approval request.
LEMMA ApprovalFrom ==
  ASSUME Inv, [Next]_vars, NEW k \in Keys, NEW a \in Procs, approval'[k][a] # "none"
  PROVE  approval[k][a] # "none" \/ (Request(a) /\ job[a].key = k)
  <1> USE DEF store, rows, asks, clock
  <1>1. TypeOK
    BY DEF Inv
  <1>2. CASE \E p \in Procs, i \in Keys, b \in Procs : Decide(p, i, b)
    <2> PICK p \in Procs, i \in Keys, b \in Procs : Decide(p, i, b)
      BY <1>2
    <2>1. approval[i][b] = "pending"
      BY DEF Decide, Undecided
    <2>2. PICK v \in Verdicts : approval' = [approval EXCEPT ![i][b] = v]
      BY DEF Decide, Verdicts
    <2>3. approval \in [Keys -> [Procs -> Verdicts]]
      BY <1>1 DEF TypeOK
    <2>4. QED
      BY <2>1, <2>2, <2>3
  <1>3. CASE \E p \in Procs : Request(p)
    <2> PICK p \in Procs : Request(p)
      BY <1>3
    <2>1. job[p].key \in Keys
      BY DEF Inv, Locals, Local, Request, At
    <2>2. approval' = [approval EXCEPT ![job[p].key][p] = "pending"]
      BY DEF Request
    <2>3. QED
      BY <1>1, <2>1, <2>2 DEF TypeOK
  <1>4. CASE \E p \in Procs : Step(p) /\ ~Request(p)
    <2> PICK p \in Procs : Step(p) /\ ~Request(p)
      BY <1>4
    <2>1. CASE Prepare(p) \/ Lookup(p) \/ Insert(p) \/ Approvals(p) \/ Interrupt(p)
               \/ Check(p) \/ Execute(p)
      BY <2>1 DEF Prepare, Lookup, Insert, Approvals, Interrupt, Check, Execute
    <2>2. CASE Authorise(p) \/ Claim(p) \/ Quote(p) \/ Submit(p) \/ Debit(p)
               \/ ProviderError(p) \/ StoreError(p) \/ Result(p) \/ Resume(p)
      BY <2>2 DEF Authorise, Claim, Quote, Submit, Debit, ProviderError, StoreError,
                  Result, Resume
    <2>3. QED
      BY <2>1, <2>2 DEF Step
  <1>5. CASE \/ \E p \in Procs, t \in Threads, i \in Keys : Message(p, t, i)
             \/ \E i \in Keys : Expire(i)
    BY <1>5 DEF Message, Expire
  <1>6. CASE WorldChange \/ Crash \/ UNCHANGED vars
    BY <1>6 DEF WorldChange, Crash, vars
  <1>7. QED
    BY <1>2, <1>3, <1>4, <1>5, <1>6 DEF Next

\* How a request comes to look for approvals, and to ask for one.
LEMMA AsksAfter ==
  ASSUME Inv, [Next]_vars, NEW q \in Procs, pc'[q] \in {"approvals", "request"}
  PROVE  /\ job'[q].key = job[q].key
         /\ \/ pc'[q] = pc[q] /\ job'[q] = job[q]
            \/ /\ pc'[q] = "approvals" /\ job'[q] = job[q]
               /\ status[job[q].key] # "none" /\ SameCall(q) /\ UNCHANGED digest
            \/ /\ pc'[q] = "approvals" /\ job'[q] = job[q]
               /\ pc[q] = "insert" /\ digest'[job[q].key] = job[q].digest
            \/ /\ pc'[q] = "request" /\ pc[q] = "approvals"
               /\ Permitted(job[q].key, job[q].digest)
  <1> USE DEF Goto, Leave, Continue, Finish, locals
  <1>1. /\ pc \in [Procs -> Steps] /\ job \in [Procs -> Jobs]
        /\ digest \in [Keys -> Digests \cup {None}]
    BY DEF Inv, TypeOK
  <1>2. CASE pc'[q] = pc[q] /\ job'[q] = job[q]
    BY <1>2
  <1>3. ASSUME ~(pc'[q] = pc[q] /\ job'[q] = job[q])
        PROVE  Lookup(q) \/ Insert(q) \/ Approvals(q)
    <2>1. CASE \E p \in Procs, t \in Threads, k \in Keys : Message(p, t, k)
      BY <1>1, <1>3, <2>1 DEF Message
    <2>2. CASE \E p \in Procs, k \in Keys, a \in Procs : Decide(p, k, a)
      BY <1>1, <1>3, <2>2 DEF Decide
    <2>3. CASE \E p \in Procs : Step(p)
      <3> PICK p \in Procs : Step(p)
        BY <2>3
      <3>1. CASE Prepare(p) \/ Request(p) \/ Interrupt(p) \/ Check(p)
        BY <1>1, <1>3, <3>1 DEF Prepare, Request, Interrupt, Check
      <3>2. CASE Execute(p) \/ Authorise(p) \/ Claim(p) \/ Quote(p) \/ Submit(p)
        BY <1>1, <1>3, <3>2 DEF Execute, Authorise, Claim, Quote, Submit
      <3>3. CASE \/ Debit(p) \/ ProviderError(p) \/ StoreError(p)
                 \/ Result(p) \/ Resume(p)
        BY <1>1, <1>3, <3>3 DEF Debit, ProviderError, StoreError, Result, Resume
      <3>4. CASE Lookup(p) \/ Insert(p) \/ Approvals(p)
        <4>1. p = q
          <5>1. CASE Lookup(p)
            BY <1>1, <1>3, <5>1 DEF Lookup
          <5>2. CASE Insert(p)
            BY <1>1, <1>3, <5>2 DEF Insert
          <5>3. CASE Approvals(p)
            BY <1>1, <1>3, <5>3 DEF Approvals
          <5>4. QED
            BY <3>4, <5>1, <5>2, <5>3
        <4>2. QED
          BY <3>4, <4>1
      <3>5. QED
        BY <3>1, <3>2, <3>3, <3>4 DEF Step
    <2>4. CASE (\E k \in Keys : Expire(k)) \/ WorldChange \/ UNCHANGED vars
      BY <1>3, <2>4 DEF Expire, WorldChange, vars
    <2>5. CASE Crash
      BY <2>5 DEF Crash
    <2>6. QED
      BY <2>1, <2>2, <2>3, <2>4, <2>5 DEF Next
  <1>4. CASE Lookup(q)
    BY <1>1, <1>4 DEF Lookup, store, rows
  <1>5. CASE Insert(q)
    BY <1>1, <1>5 DEF Insert, At, Inv, Locals, Local
  <1>6. CASE Approvals(q)
    <2> DEFINE seen == [job[q] EXCEPT !.digest = None, !.seen = latest[job[q].key]]
    <2>1. seen.key = job[q].key
      BY <1>1 DEF Jobs
    <2>2. pc'[q] = "request" /\ pc[q] = "approvals" /\ job'[q] = seen
          /\ Permitted(job[q].key, job[q].digest)
      BY <1>1, <1>6 DEF Approvals, At
    <2>3. QED
      BY <2>1, <2>2
  <1>7. QED
    BY <1>2, <1>3, <1>4, <1>5, <1>6

LEMMA NextReviewed == Inv /\ Reviewed /\ [Next]_vars => Reviewed'
  <1> SUFFICES ASSUME Inv, Reviewed, [Next]_vars PROVE Reviewed'
    OBVIOUS
  <1>1. \A k \in Keys : status[k] # "none" /\ Sound(k) => Sound(k)'
    BY RowsKept DEF Sound, Permitted
  <1>2. ASSUME NEW k \in Keys, status'[k] \notin {"none", "denied"} PROVE Sound(k)'
    BY <1>1, <1>2, StatusFrom DEF Reviewed
  <1>3. ASSUME NEW k \in Keys, NEW a \in Procs, approval'[k][a] # "none"
        PROVE  Sound(k)'
    <2>1. CASE approval[k][a] # "none"
      BY <1>1, <2>1 DEF Inv, Rows, Reviewed
    <2>2. CASE Request(a) /\ job[a].key = k
      BY <1>1, <2>2 DEF Request, At, Inv, Locals, Local, Reviewed
    <2>3. QED
      BY <1>3, <2>1, <2>2, ApprovalFrom
  <1>4. ASSUME NEW q \in Procs, pc'[q] \in {"approvals", "request"}
        PROVE  /\ pc'[q] = "approvals" => digest'[job'[q].key] = job'[q].digest
               /\ pc'[q] = "request" =>
                    Permitted(job'[q].key, digest'[job'[q].key])
    <2> PICK k : k = job[q].key
      OBVIOUS
    <2>1. job'[q].key = k
      BY <1>4, AsksAfter
    <2>2. pc[q] \in {"approvals", "request"} =>
            k \in Keys /\ status[k] # "none" /\ digest'[k] = digest[k]
      BY RowsKept DEF Inv, Locals, Local
    <2>3. CASE pc'[q] = pc[q] /\ job'[q] = job[q]
      BY <1>4, <2>1, <2>2, <2>3 DEF Reviewed, Sound
    <2>4. CASE /\ pc'[q] = "approvals" /\ job'[q] = job[q]
               /\ SameCall(q) /\ UNCHANGED digest
      BY <2>4 DEF SameCall
    <2>5. CASE /\ pc'[q] = "approvals" /\ job'[q] = job[q]
               /\ digest'[k] = job[q].digest
      BY <2>5
    <2>6. CASE /\ pc'[q] = "request" /\ pc[q] = "approvals"
               /\ Permitted(k, job[q].digest)
      BY <2>1, <2>2, <2>6 DEF Reviewed
    <2>7. QED
      BY <1>4, <2>3, <2>4, <2>5, <2>6, AsksAfter
  <1>5. QED
    BY <1>2, <1>3, <1>4 DEF Reviewed, Sound

LEMMA InitReviewed == Init => Reviewed
  BY DEF Init, Reviewed

LEMMA ReviewedHolds == Spec => []Reviewed
  BY InitReviewed, NextReviewed, InvHolds, PTL DEF Spec

\* An action is put to a reviewer, and goes on from there, only if the policy
\* permits what its row records, whichever request evaluated it (transfer_propose).
THEOREM ReviewsArePermitted == Spec => []ReviewedIsPermitted
  <1>1. Reviewed => ReviewedIsPermitted
    BY DEF Reviewed, ReviewedIsPermitted, Sound, Permitted
  <1>2. QED
    BY <1>1, ReviewedHolds, PTL

\* Every transaction is of an action that a reviewer approved and the policy
\* permits as it is recorded.
Justified ==
  \A k \in txns : Permitted(k, digest[k]) /\ \E a \in Procs : approval[k][a] = "approved"

\* Money moves only for what both the policy and a reviewer let through.
THEOREM PaymentsAreJustified == Spec => []Justified
  <1>1. Inv /\ Reviewed => Justified
    BY DEF Inv, TypeOK, PaidUnderClaim, EffectApproved, Reviewed, Sound, Justified
  <1>2. QED
    BY <1>1, InvHolds, ReviewedHolds, PTL

-----------------------------------------------------------------------------
(* The effect lifecycle is implemented.                                    *)

Granted == {k \in Keys : \E a \in Procs : approval[k][a] = "approved"}

\* The steps that touch no status, no approval and no transaction stutter.
LEMMA QuietMaps ==
  ASSUME UNCHANGED <<status, approval, txns>>
  PROVE  UNCHANGED Boundary!vars
  BY DEF Boundary!vars

\* A compare-and-set is a move of the lifecycle, or nothing.
LEMMA MoveMaps ==
  ASSUME TypeOK, NEW k \in Keys, NEW old, NEW new, SetStatus(k, old, new)
  PROVE  Boundary!Move(k, old, new) \/ UNCHANGED status
  <1>1. CASE status[k] = old
    BY <1>1 DEF SetStatus, Boundary!Move
  <1>2. CASE status[k] # old
    BY <1>2 DEF SetStatus, TypeOK
  <1>3. QED
    BY <1>1, <1>2

LEMMA InsertMaps ==
  ASSUME NEW p \in Procs, Inv, Insert(p) PROVE [Boundary!Next]_Boundary!vars
  <1> USE DEF Insert, Free, rows, asks, At
  <1> DEFINE k == job[p].key
  <1>1. k \in Keys
    BY DEF Inv, Locals, Local
  <1>2. CASE UNCHANGED rows
    BY <1>2, QuietMaps
  <1>3. CASE Free(k) /\ status' = [status EXCEPT ![k] = Verdict(k, job[p].digest)]
    <2>1. Boundary!Propose(k)
      BY <1>3 DEF Verdict, Boundary!Propose, Boundary!Move
    <2>2. QED
      BY <1>1, <2>1 DEF Boundary!Next
  <1>4. QED
    BY <1>2, <1>3

LEMMA RequestMaps ==
  ASSUME NEW p \in Procs, Inv, Request(p) PROVE UNCHANGED Boundary!vars
  <1> USE DEF Request, rows, asks, At
  <1> DEFINE k == job[p].key
  <1>1. TypeOK /\ k \in Keys /\ approval[k][p] = "none"
    BY DEF Inv, Locals, Local
  <1>2. \A i \in Keys, a \in Procs :
          approval'[i][a] = IF i = k /\ a = p THEN "pending" ELSE approval[i][a]
    BY <1>1 DEF TypeOK
  <1>3. Granted' = Granted
    BY <1>1, <1>2 DEF Granted
  <1>4. QED
    BY <1>3 DEF Granted, Boundary!vars

LEMMA ExecuteMaps ==
  ASSUME NEW p \in Procs, Inv, Execute(p) PROVE [Boundary!Next]_Boundary!vars
  <1> USE DEF Execute, asks, At
  <1> DEFINE k == job[p].key
  <1>1. TypeOK /\ k \in Keys
    BY DEF Inv, Locals, Local
  <1>2. CASE UNCHANGED status
    BY <1>2, QuietMaps
  <1>3. CASE Boundary!Move(k, "approved", "cancelled")
    BY <1>1, <1>3 DEF Boundary!Cancel, Boundary!Next
  <1>4. QED
    BY <1>1, <1>2, <1>3, MoveMaps

LEMMA ClaimMaps ==
  ASSUME NEW p \in Procs, Inv, Claim(p) PROVE [Boundary!Next]_Boundary!vars
  <1> USE DEF Claim, Claimable, asks, At
  <1> DEFINE k == job[p].key
  <1>1. k \in Keys
    BY DEF Inv, Locals, Local
  <1>2. CASE UNCHANGED status
    BY <1>2, QuietMaps
  <1>3. CASE Claimable(k) /\ status' = [status EXCEPT ![k] = "executing"]
    <2>1. k \in Granted /\ k \notin txns
      BY <1>1, <1>3 DEF Inv, EffectApproved, PaidUnderClaim, Granted
    <2>2. Boundary!Claim(k)
      BY <1>3, <2>1 DEF Granted, Boundary!Claim, Boundary!Move
    <2>3. QED
      BY <1>1, <2>2 DEF Boundary!Next
  <1>4. QED
    BY <1>2, <1>3

LEMMA SubmitMaps ==
  ASSUME NEW p \in Procs, Inv, Submit(p) PROVE [Boundary!Next]_Boundary!vars
  <1> USE DEF Submit, rows, asks, At
  <1> DEFINE k == job[p].key
  <1>1. k \in Keys /\ status[k] = "executing" /\ k \notin txns
    BY DEF Inv, Locals, Local, ClaimExclusive, NeverPaidTwice, Running
  <1>2. Boundary!Pay(k)
    BY <1>1 DEF Boundary!Pay
  <1>3. QED
    BY <1>1, <1>2 DEF Boundary!Next

LEMMA ResultMaps ==
  ASSUME NEW p \in Procs, Inv, Result(p) PROVE [Boundary!Next]_Boundary!vars
  <1> USE DEF Result, asks, At
  <1> DEFINE k == job[p].key
  <1>1. /\ TypeOK /\ k \in Keys
        /\ Outcome(p) \in {"submitted", "failed"}
        /\ Outcome(p) = "submitted" => k \in txns
    BY DEF Inv, Locals, Local, Outcome
  <1>2. CASE UNCHANGED status
    BY <1>2, QuietMaps
  <1>3. CASE Boundary!Move(k, "executing", Outcome(p))
    BY <1>1, <1>3 DEF Boundary!Report, Boundary!Next
  <1>4. QED
    BY <1>1, <1>2, <1>3, MoveMaps

LEMMA DecideMaps ==
  ASSUME NEW p \in Procs, NEW k \in Keys, NEW a \in Procs, Inv, Decide(p, k, a)
  PROVE  [Boundary!Next]_Boundary!vars
  <1> USE DEF Decide, Undecided, At
  <1>1. TypeOK
    BY DEF Inv
  <1>2. PICK v \in {"expired", "rejected", "approved"} :
          /\ approval' = [approval EXCEPT ![k][a] = v]
          /\ v = "expired" => UNCHANGED status
          /\ v = "rejected" => SetStatus(k, "pending_approval", "cancelled")
          /\ v = "approved" => SetStatus(k, "pending_approval", "approved")
    OBVIOUS
  <1>3. \A i \in Keys, b \in Procs :
          approval'[i][b] = IF i = k /\ b = a THEN v ELSE approval[i][b]
    BY <1>1, <1>2 DEF TypeOK
  <1>4. v # "approved" => Granted' = Granted
    BY <1>3 DEF Granted
  <1>5. v = "approved" => Granted' = Granted \cup {k}
    BY <1>3 DEF Granted
  <1>6. CASE v # "approved" /\ UNCHANGED status
    BY <1>4, <1>6 DEF Granted, Boundary!vars
  <1>7. CASE v = "rejected" /\ Boundary!Move(k, "pending_approval", "cancelled")
    BY <1>4, <1>7 DEF Granted, Boundary!Cancel, Boundary!Next
  <1>8. CASE v = "approved"
    <2>1. \/ Boundary!Move(k, "pending_approval", "approved")
          \/ status[k] # "pending_approval" /\ UNCHANGED status
      BY <1>1, <1>2, <1>8 DEF SetStatus, TypeOK, Boundary!Move
    <2>2. Boundary!Grant(k)
      BY <1>5, <1>8, <2>1 DEF Granted, Boundary!Grant
    <2>3. QED
      BY <2>2 DEF Boundary!Next
  <1>9. QED
    BY <1>1, <1>2, <1>6, <1>7, <1>8, MoveMaps

LEMMA NextMaps == Inv /\ [Next]_vars => [Boundary!Next]_Boundary!vars
  <1> SUFFICES ASSUME Inv, [Next]_vars PROVE [Boundary!Next]_Boundary!vars
    OBVIOUS
  <1> USE DEF store, rows, asks, clock
  <1>1. CASE \E p \in Procs, t \in Threads, k \in Keys : Message(p, t, k)
    BY <1>1, QuietMaps DEF Message
  <1>2. CASE \E p \in Procs, k \in Keys, a \in Procs : Decide(p, k, a)
    BY <1>2, DecideMaps
  <1>3. CASE \E p \in Procs : Step(p)
    <2> PICK p \in Procs : Step(p)
      BY <1>3
    <2>1. CASE Prepare(p) \/ Lookup(p) \/ Approvals(p) \/ Interrupt(p) \/ Check(p)
      BY <2>1, QuietMaps DEF Prepare, Lookup, Approvals, Interrupt, Check
    <2>2. CASE \/ Authorise(p) \/ Quote(p) \/ Debit(p)
               \/ ProviderError(p) \/ StoreError(p) \/ Resume(p)
      BY <2>2, QuietMaps DEF Authorise, Quote, Debit, ProviderError, StoreError,
                             Resume
    <2>3. QED
      BY <2>1, <2>2, InsertMaps, RequestMaps, ExecuteMaps, ClaimMaps, SubmitMaps,
         ResultMaps DEF Step
  <1>4. CASE \E k \in Keys : Expire(k)
    BY <1>4, QuietMaps DEF Expire
  <1>5. CASE WorldChange \/ Crash \/ UNCHANGED vars
    BY <1>5, QuietMaps DEF WorldChange, Crash, vars
  <1>6. QED
    BY <1>1, <1>2, <1>3, <1>4, <1>5 DEF Next

\* The request threads, with their interleavings, repetitions and crashes,
\* implement the lifecycle of an effect in which nothing is paid twice, without
\* a grant or after the end.
THEOREM BoundaryKept == Spec => KeepsBoundary
  <1>1. Init => Boundary!Init
    BY DEF Init, Boundary!Init
  <1>2. QED
    BY <1>1, InvHolds, NextMaps, PTL DEF Spec, KeepsBoundary, Boundary!Spec
-----------------------------------------------------------------------------
(* Sums over finite sets: their equation, that they do not depend on the   *)
(* order of the elements, and what one element more adds.                  *)

\* The element a sum takes next, and the function that computes the sums of c
\* over the subsets of S.
Some(u) == CHOOSE x \in u : TRUE
Adds(f, c, S) ==
  f = [u \in SUBSET S |-> IF u = {} THEN 0
                          ELSE c[Some(u)] + f[u \ {Some(u)}]]

\* Among sets of subsets of a finite set, one has no other below it.
LEMMA LeastSet ==
  ASSUME NEW S, IsFiniteSet(S), NEW B \in SUBSET SUBSET S, B # {}
  PROVE  \E u \in B : \A v \in B : v \subseteq u => v = u
  <1> DEFINE R == StrictSubsetOrdering(S)
  <1>1. IsWellFoundedOn(R, SUBSET S)
    BY FS_StrictSubsetOrderingWellFounded, FS_FiniteSubsetsOfFinite
  <1>2. \A u, v \in SUBSET S : v \subseteq u /\ v # u => <<v, u>> \in R
    BY DEF StrictSubsetOrdering
  <1> HIDE DEF R
  <1>3. PICK u \in B : \A v \in B : <<v, u>> \notin R
    BY <1>1, WFMin
  <1>4. QED
    BY <1>2, <1>3

\* A sum over a subset is the same whichever set it is computed for.
LEMMA AddsAlike ==
  ASSUME NEW c, NEW S, NEW T, IsFiniteSet(S), NEW f, NEW g,
         Adds(f, c, S), Adds(g, c, T)
  PROVE  \A u \in SUBSET (S \cap T) : f[u] = g[u]
  <1> DEFINE B == {u \in SUBSET (S \cap T) : f[u] # g[u]}
  <1> SUFFICES ASSUME B # {} PROVE FALSE
    OBVIOUS
  <1>1. PICK u \in B : \A v \in B : v \subseteq u => v = u
    <2>1. B \in SUBSET SUBSET S
      OBVIOUS
    <2> HIDE DEF B
    <2>2. QED
      BY <2>1, LeastSet
  <1>2. u \in SUBSET S /\ u \in SUBSET T /\ f[u] # g[u]
    OBVIOUS
  <1>3. /\ f[u] = IF u = {} THEN 0 ELSE c[Some(u)] + f[u \ {Some(u)}]
        /\ g[u] = IF u = {} THEN 0 ELSE c[Some(u)] + g[u \ {Some(u)}]
    BY <1>2 DEF Adds
  <1>4. u # {} /\ Some(u) \in u
    BY <1>2, <1>3 DEF Some
  <1>5. f[u \ {Some(u)}] = g[u \ {Some(u)}]
    BY <1>1, <1>4
  <1>6. QED
    BY <1>2, <1>3, <1>4, <1>5

LEMMA AddsExists ==
  ASSUME NEW c, NEW S, IsFiniteSet(S)
  PROVE  \E f : Adds(f, c, S)
  <1> DEFINE B == {u \in SUBSET S : ~ \E f : Adds(f, c, u)}
  <1> SUFFICES ASSUME B # {} PROVE FALSE
    BY S \in SUBSET S
  <1>1. PICK u \in B : \A v \in B : v \subseteq u => v = u
    <2>1. B \in SUBSET SUBSET S
      OBVIOUS
    <2> HIDE DEF B
    <2>2. QED
      BY <2>1, LeastSet
  <1> DEFINE h(v) == CHOOSE f : Adds(f, c, v)
             rest(v) == v \ {Some(v)}
             value(v) == IF v = {} THEN 0 ELSE c[Some(v)] + h(rest(v))[rest(v)]
             f == [v \in SUBSET u |-> value(v)]
  <1>2. \A v \in SUBSET u : v # {} => rest(v) \in SUBSET u /\ rest(v) # u
                                      /\ rest(v) \subseteq v
    BY DEF Some
  <1>3. \A v \in SUBSET u : v # u => Adds(h(v), c, v)
    BY <1>1
  <1>4. ASSUME NEW v \in SUBSET u, v # u PROVE h(v)[v] = value(v)
    <2>1. Adds(h(v), c, v)
      BY <1>3, <1>4
    <2>2. h(v)[v] = IF v = {} THEN 0 ELSE c[Some(v)] + h(v)[rest(v)]
      BY <2>1 DEF Adds
    <2>3. CASE v = {}
      BY <2>2, <2>3
    <2>4. CASE v # {}
      <3>1. Adds(h(rest(v)), c, rest(v)) /\ rest(v) \subseteq v
        BY <1>2, <1>3, <2>4
      <3>2. IsFiniteSet(v)
        BY FS_Subset
      <3> HIDE DEF h, rest
      <3>3. h(v)[rest(v)] = h(rest(v))[rest(v)]
        BY <2>1, <3>1, <3>2, AddsAlike
      <3>4. QED
        BY <2>2, <2>4, <3>3
    <2>5. QED
      BY <2>3, <2>4
  <1>5. ASSUME NEW v \in SUBSET u
        PROVE  f[v] = IF v = {} THEN 0 ELSE c[Some(v)] + f[rest(v)]
    <2>1. CASE v = {}
      BY <2>1
    <2>2. CASE v # {}
      <3>1. rest(v) \in SUBSET u /\ rest(v) # u
        BY <1>2, <2>2
      <3>2. f[rest(v)] = h(rest(v))[rest(v)]
        <4> HIDE DEF h, rest, value
        <4>1. f[rest(v)] = value(rest(v))
          BY <3>1
        <4>2. QED
          BY <1>4, <3>1, <4>1
      <3> HIDE DEF h, rest
      <3>3. QED
        BY <2>2, <3>2
    <2>3. QED
      BY <2>1, <2>2
  <1>6. Adds(f, c, u)
    <2>1. f = [v \in SUBSET u |-> f[v]]
      OBVIOUS
    <2> HIDE DEF f
    <2>2. QED
      BY <1>5, <2>1 DEF Adds
  <1>7. QED
    BY <1>6

\* What SumFunctionOnSet computes.
LEMMA SumIs ==
  ASSUME NEW c, NEW S, IsFiniteSet(S)
  PROVE  \E f : Adds(f, c, S) /\ \A u \in SUBSET S : SumFunctionOnSet(c, u) = f[u]
  <1> DEFINE h(u) == CHOOSE f : Adds(f, c, u)
  <1>1. \A u \in SUBSET S : Adds(h(u), c, u)
    <2> TAKE u \in SUBSET S
    <2>1. IsFiniteSet(u)
      BY FS_Subset
    <2>2. QED
      BY <2>1, AddsExists
  <1>2. \A u \in SUBSET S : SumFunctionOnSet(c, u) = h(u)[u]
    BY DEF SumFunctionOnSet, FoldFunctionOnSet, MapThenFoldSet, Adds, Some
  <1> HIDE DEF h
  <1>3. \A u \in SUBSET S : h(S)[u] = h(u)[u]
    BY <1>1, AddsAlike
  <1>4. QED
    BY <1>1, <1>2, <1>3

LEMMA AddsNat ==
  ASSUME NEW K, NEW c \in [K -> Nat], NEW S \in SUBSET K, IsFiniteSet(S),
         NEW f, Adds(f, c, S)
  PROVE  \A u \in SUBSET S : f[u] \in Nat
  <1> DEFINE B == {u \in SUBSET S : f[u] \notin Nat}
  <1> SUFFICES ASSUME B # {} PROVE FALSE
    OBVIOUS
  <1>1. PICK u \in B : \A v \in B : v \subseteq u => v = u
    <2>1. B \in SUBSET SUBSET S
      OBVIOUS
    <2> HIDE DEF B
    <2>2. QED
      BY <2>1, LeastSet
  <1>2. u \in SUBSET S /\ f[u] \notin Nat
    OBVIOUS
  <1>3. f[u] = IF u = {} THEN 0 ELSE c[Some(u)] + f[u \ {Some(u)}]
    BY <1>2 DEF Adds
  <1>4. u # {} /\ Some(u) \in u
    BY <1>2, <1>3 DEF Some
  <1>5. f[u \ {Some(u)}] \in Nat
    BY <1>1, <1>4
  <1>6. c[Some(u)] \in Nat
    BY <1>2, <1>4
  <1>7. QED
    BY <1>2, <1>3, <1>4, <1>5, <1>6

\* The order in which a sum takes the elements does not matter.
LEMMA AddsAny ==
  ASSUME NEW K, NEW c \in [K -> Nat], NEW S \in SUBSET K, IsFiniteSet(S),
         NEW f, Adds(f, c, S)
  PROVE  \A u \in SUBSET S : \A k \in u : f[u] = c[k] + f[u \ {k}]
  <1> DEFINE B == {u \in SUBSET S : \E k \in u : f[u] # c[k] + f[u \ {k}]}
  <1> SUFFICES ASSUME B # {} PROVE FALSE
    OBVIOUS
  <1>1. PICK u \in B : \A v \in B : v \subseteq u => v = u
    <2>1. B \in SUBSET SUBSET S
      OBVIOUS
    <2> HIDE DEF B
    <2>2. QED
      BY <2>1, LeastSet
  <1>2. PICK k \in u : f[u] # c[k] + f[u \ {k}]
    OBVIOUS
  <1> DEFINE x == Some(u)
             v == u \ {x}
             w == u \ {k}
             z == (u \ {x}) \ {k}
  <1>3. u \in SUBSET S /\ x \in u
    BY DEF Some
  <1>4. f[u] = c[x] + f[v]
    BY <1>3 DEF Adds
  <1>5. x # k
    BY <1>2, <1>4
  <1>6. /\ v \in SUBSET S /\ v \notin B /\ k \in v
        /\ w \in SUBSET S /\ w \notin B /\ x \in w
    BY <1>1, <1>2, <1>3, <1>5
  <1>7. f[v] = c[k] + f[z]
    BY <1>6
  <1>8. f[w] = c[x] + f[z]
    <2>1. w \ {x} = z
      OBVIOUS
    <2>2. QED
      BY <1>6, <2>1
  <1>9. c[x] \in Nat /\ c[k] \in Nat /\ z \in SUBSET S
    BY <1>3
  <1>10. f[z] \in Nat
    BY <1>9, AddsNat
  <1> HIDE DEF x, v, w, z
  <1>11. QED
    BY <1>2, <1>4, <1>7, <1>8, <1>9, <1>10 DEF w

\* The sum grows by the cost of what is added.
LEMMA SumOfOneMore ==
  ASSUME NEW K, NEW c \in [K -> Nat], NEW S \in SUBSET K, IsFiniteSet(S),
         NEW k \in K, k \notin S
  PROVE  /\ SumFunctionOnSet(c, S) \in Nat
         /\ SumFunctionOnSet(c, S \cup {k}) = SumFunctionOnSet(c, S) + c[k]
  <1> DEFINE T == S \cup {k}
  <1>1. IsFiniteSet(T) /\ T \in SUBSET K
    BY FS_AddElement
  <1>2. PICK f : Adds(f, c, T) /\ \A u \in SUBSET T : SumFunctionOnSet(c, u) = f[u]
    BY <1>1, SumIs
  <1>3. T \ {k} = S /\ S \in SUBSET T /\ T \in SUBSET T /\ k \in T
    OBVIOUS
  <1> HIDE DEF T
  <1>4. f[T] = c[k] + f[S] /\ f[S] \in Nat
    BY <1>1, <1>2, <1>3, AddsAny, AddsNat
  <1>5. QED
    BY <1>2, <1>3, <1>4 DEF T

LEMMA SumOfNone == ASSUME NEW c PROVE SumFunctionOnSet(c, {}) = 0
  <1>1. PICK f : Adds(f, c, {}) /\ \A u \in SUBSET {} : SumFunctionOnSet(c, u) = f[u]
    BY SumIs, FS_EmptySet
  <1>2. f[{}] = 0
    BY <1>1 DEF Adds
  <1>3. QED
    BY <1>1, <1>2

-----------------------------------------------------------------------------
(* The wallet.                                                             *)

Spent == SumFunctionOnSet(Cost, txns)

\* A request about to insert its transaction holds a quote that everything
\* inserted makes up for, and one about to write the balance a quote that still
\* does when its own cost is taken off.
Covered ==
  \A p \in Procs :
    /\ pc[p] = "submit" => job[p].quote + Spent >= OpeningBalance
    /\ pc[p] = "debit" => job[p].quote - Cost[job[p].key] + Spent >= OpeningBalance

Wallet == IsFiniteSet(txns) /\ NeverOvercharged /\ Covered

\* A step that leaves the wallet, the transactions and every quote as they are.
Calm ==
  /\ UNCHANGED <<balance, txns>>
  /\ \A q \in Procs : pc'[q] \in {"submit", "debit"} =>
       pc'[q] = pc[q] /\ job'[q] = job[q]

\* Every cost is a number, and so is what was spent.
LEMMA SpentIs ==
  ASSUME Inv, IsFiniteSet(txns)
  PROVE  /\ Spent \in Nat /\ OpeningBalance \in Nat /\ balance \in Nat
         /\ \A k \in Keys : Cost[k] \in Nat
  <1>1. /\ Cost \in [Keys -> Nat] /\ OpeningBalance \in Nat
        /\ txns \in SUBSET Keys /\ balance \in Nat
    BY TransferAssumption DEF Inv, TypeOK
  <1>2. Spent \in Nat
    <2>1. CASE txns = {}
      BY <2>1, SumOfNone DEF Spent
    <2>2. CASE txns # {}
      <3> PICK k \in txns : TRUE
        BY <2>2
      <3> DEFINE S == txns \ {k}
      <3>1. /\ S \in SUBSET Keys /\ IsFiniteSet(S) /\ k \in Keys /\ k \notin S
            /\ txns = S \cup {k}
        BY <1>1, FS_RemoveElement
      <3> HIDE DEF S
      <3>2. /\ SumFunctionOnSet(Cost, S) \in Nat
            /\ SumFunctionOnSet(Cost, txns) = SumFunctionOnSet(Cost, S) + Cost[k]
        BY <1>1, <3>1, SumOfOneMore
      <3>3. QED
        BY <1>1, <3>1, <3>2 DEF Spent
    <2>3. QED
      BY <2>1, <2>2
  <1>3. QED
    BY <1>1, <1>2

\* Everything but a quote, a transaction and a debit is calm.
LEMMA OtherStepsCalm ==
  ASSUME NEW p \in Procs, Inv, Step(p), ~Quote(p), ~Submit(p), ~Debit(p)
  PROVE  Calm
  <1> USE DEF Calm, Goto, Leave, Continue, Finish, store
  <1>1. /\ pc \in [Procs -> Steps] /\ job \in [Procs -> Jobs]
    BY DEF Inv, TypeOK
  <1>2. CASE Prepare(p) \/ Lookup(p) \/ Insert(p)
    BY <1>1, <1>2 DEF Prepare, Lookup, Insert
  <1>3. CASE Approvals(p)
    BY <1>1, <1>3 DEF Approvals
  <1>4. CASE Request(p) \/ Interrupt(p) \/ Check(p)
    BY <1>1, <1>4 DEF Request, Interrupt, Check
  <1>5. CASE Execute(p) \/ Authorise(p) \/ Claim(p)
    BY <1>1, <1>5 DEF Execute, Authorise, Claim
  <1>6. CASE ProviderError(p) \/ StoreError(p) \/ Result(p) \/ Resume(p)
    BY <1>1, <1>6 DEF ProviderError, StoreError, Result, Resume
  <1>7. QED
    BY <1>2, <1>3, <1>4, <1>5, <1>6 DEF Step

LEMMA OthersCalm ==
  ASSUME Inv, [Next]_vars, \A p \in Procs : ~Quote(p) /\ ~Submit(p) /\ ~Debit(p)
  PROVE  Calm
  <1>1. /\ pc \in [Procs -> Steps] /\ job \in [Procs -> Jobs]
    BY DEF Inv, TypeOK
  <1>2. ASSUME NEW p \in Procs, NEW t \in Threads, NEW k \in Keys, Message(p, t, k)
        PROVE  Calm
    BY <1>1, <1>2 DEF Message, Goto, Calm, store
  <1>3. ASSUME NEW p \in Procs, NEW k \in Keys, NEW a \in Procs, Decide(p, k, a)
        PROVE  Calm
    BY <1>1, <1>3 DEF Decide, Goto, Calm, locals
  <1>4. ASSUME NEW k \in Keys, Expire(k) PROVE Calm
    BY <1>4 DEF Expire, Calm, locals
  <1>5. CASE WorldChange \/ UNCHANGED vars
    BY <1>5 DEF WorldChange, Calm, locals, store, vars
  <1>6. CASE Crash
    BY <1>6 DEF Crash, Calm, store
  <1>7. QED
    BY <1>2, <1>3, <1>4, <1>5, <1>6, OtherStepsCalm DEF Next

\* What the three steps that are not calm do.
LEMMA QuoteDoes ==
  ASSUME NEW p \in Procs, Inv, Quote(p)
  PROVE  /\ UNCHANGED <<balance, txns>> /\ Alone(p) /\ pc'[p] # "debit"
         /\ pc'[p] = "submit" => job'[p].quote = balance
         /\ pc[p] = "quote"
  <1>1. pc \in [Procs -> Steps] /\ job \in [Procs -> Jobs]
    BY DEF Inv, TypeOK
  <1>2. UNCHANGED <<balance, txns>> /\ Alone(p) /\ pc[p] = "quote"
    BY <1>1 DEF Quote, Goto, Alone, store, At
  <1>3. pc'[p] \in {"submit", "failure"}
    BY <1>1 DEF Quote, Goto
  <1>4. pc'[p] = "submit" => job'[p].quote = balance
    <2>1. job[p] \in Jobs
      BY <1>1
    <2>2. [job[p] EXCEPT !.quote = balance].quote = balance
      BY <2>1 DEF Jobs
    <2>3. pc'[p] = "submit" => job' = [job EXCEPT ![p].quote = balance]
      BY <1>1 DEF Quote, Goto
    <2>4. QED
      BY <1>1, <2>2, <2>3
  <1>5. QED
    BY <1>2, <1>3, <1>4

LEMMA SubmitDoes ==
  ASSUME NEW p \in Procs, Inv, IsFiniteSet(txns), Submit(p)
  PROVE  /\ job[p].key \in Keys
         /\ balance' = balance /\ UNCHANGED job /\ Alone(p)
         /\ pc[p] = "submit" /\ pc'[p] = "debit"
         /\ IsFiniteSet(txns') /\ Spent' = Spent + Cost[job[p].key]
  <1> DEFINE k == job[p].key
  <1>1. /\ pc \in [Procs -> Steps] /\ pc[p] = "submit"
        /\ k \in Keys /\ k \notin txns
    BY DEF Inv, TypeOK, Locals, Local, NeverPaidTwice, Submit, At
  <1>2. /\ balance' = balance /\ UNCHANGED job /\ Alone(p)
        /\ pc'[p] = "debit" /\ txns' = txns \cup {k}
    BY <1>1 DEF Submit, Continue, Goto, Alone
  <1>3. Cost \in [Keys -> Nat] /\ txns \in SUBSET Keys
    BY TransferAssumption DEF Inv, TypeOK
  <1> HIDE DEF k
  <1>4. IsFiniteSet(txns') /\ Spent' = Spent + Cost[k]
    BY <1>1, <1>2, <1>3, FS_AddElement, SumOfOneMore DEF Spent
  <1>5. QED
    BY <1>1, <1>2, <1>4 DEF k

LEMMA DebitDoes ==
  ASSUME NEW p \in Procs, Inv, Debit(p)
  PROVE  /\ job[p].key \in Keys /\ job[p].quote \in Nat
         /\ balance' = job[p].quote - Cost[job[p].key] /\ UNCHANGED txns
         /\ Alone(p) /\ pc[p] = "debit" /\ pc'[p] = "success"
  <1>1. /\ pc \in [Procs -> Steps] /\ job \in [Procs -> Jobs] /\ pc[p] = "debit"
        /\ job[p].key \in Keys
    BY DEF Inv, TypeOK, Locals, Local, Debit, At
  <1>2. job[p].quote \in Nat
    BY <1>1, TransferAssumption DEF Jobs
  <1>3. QED
    BY <1>1, <1>2 DEF Debit, NewBalance, Goto, Alone

LEMMA CalmWallet == ASSUME Wallet, Calm PROVE Wallet'
  BY DEF Wallet, Calm, NeverOvercharged, Covered, Spent

LEMMA QuotesNat ==
  ASSUME Inv
  PROVE  \A q \in Procs : job[q].quote \in Nat /\ (pc[q] = "debit" => job[q].key \in Keys)
  BY TransferAssumption DEF Inv, TypeOK, Jobs, Locals, Local

LEMMA NextWallet == Inv /\ Wallet /\ [Next]_vars => Wallet'
  <1> SUFFICES ASSUME Inv, Wallet, [Next]_vars PROVE Wallet'
    OBVIOUS
  <1>1. /\ Spent \in Nat /\ OpeningBalance \in Nat /\ balance \in Nat
        /\ \A k \in Keys : Cost[k] \in Nat
        /\ \A q \in Procs : job[q].quote \in Nat
                            /\ (pc[q] = "debit" => job[q].key \in Keys)
    BY SpentIs, QuotesNat DEF Wallet
  <1>2. balance + Spent >= OpeningBalance /\ Covered /\ IsFiniteSet(txns)
    BY DEF Wallet, NeverOvercharged, Spent
  <1>3. ASSUME NEW p \in Procs, Quote(p) PROVE Wallet'
    <2>1. UNCHANGED <<balance, txns>> /\ Spent' = Spent
      BY <1>3, QuoteDoes DEF Spent
    <2>2. Covered'
      BY <1>2, <1>3, <2>1, QuoteDoes DEF Covered, Alone
    <2>3. QED
      BY <1>2, <2>1, <2>2 DEF Wallet, NeverOvercharged, Spent
  <1>4. ASSUME NEW p \in Procs, Submit(p) PROVE Wallet'
    <2> DEFINE k == job[p].key
    <2>1. /\ k \in Keys /\ balance' = balance /\ UNCHANGED job /\ Alone(p)
          /\ pc[p] = "submit" /\ pc'[p] = "debit"
          /\ IsFiniteSet(txns') /\ Spent' = Spent + Cost[k]
      BY <1>2, <1>4, SubmitDoes
    <2>2. \A q \in Procs \ {p} : pc'[q] = pc[q]
      BY <2>1 DEF Alone
    <2>3. Covered'
      BY <1>1, <1>2, <2>1, <2>2 DEF Covered
    <2>4. NeverOvercharged'
      BY <1>1, <1>2, <2>1 DEF NeverOvercharged, Spent
    <2>5. QED
      BY <2>1, <2>3, <2>4 DEF Wallet
  <1>5. ASSUME NEW p \in Procs, Debit(p) PROVE Wallet'
    <2>1. Spent' = Spent /\ UNCHANGED txns
      BY <1>5, DebitDoes DEF Spent
    <2>2. Covered'
      BY <1>2, <1>5, <2>1, DebitDoes DEF Covered, Alone
    <2>3. balance' + Spent' >= OpeningBalance
      BY <1>1, <1>2, <1>5, <2>1, DebitDoes DEF Covered
    <2>4. QED
      BY <1>2, <2>1, <2>2, <2>3 DEF Wallet, NeverOvercharged, Spent
  <1>6. QED
    BY <1>3, <1>4, <1>5, OthersCalm, CalmWallet

LEMMA InitWallet == Init => Wallet
  <1> SUFFICES ASSUME Init PROVE Wallet
    OBVIOUS
  <1>1. txns = {} /\ balance = OpeningBalance /\ \A p \in Procs : pc[p] = "idle"
    BY DEF Init
  <1>2. Covered
    BY <1>1 DEF Covered
  <1>3. NeverOvercharged
    BY <1>1, SumOfNone, TransferAssumption DEF NeverOvercharged
  <1>4. QED
    BY <1>1, <1>2, <1>3, FS_EmptySet DEF Wallet

\* The wallet is never charged for more than the transactions inserted: a debit
\* that another one overwrites is lost, never doubled (submit_transfer).
THEOREM WalletIsNotOvercharged == Spec => []NeverOvercharged
  <1>1. Spec => []Wallet
    BY InitWallet, NextWallet, InvHolds, PTL DEF Spec
  <1>2. QED
    BY <1>1, PTL DEF Wallet

-----------------------------------------------------------------------------
(* When the balance is exact.                                              *)

\* Executions on the wallet that do not overlap: between its quote and its
\* debit a request is the only one there.
OneDebit ==
  \A p, q \in Procs :
    pc[p] \in {"submit", "debit"} /\ pc[q] \in {"submit", "debit"} => p = q

\* A step that cuts no request off between its transaction and its debit.
DebitsFinish ==
  \A p \in Procs : pc[p] = "debit" => pc'[p] = "debit" \/ Debit(p)

\* The balance lacks what was spent but for the debit to come, and the request
\* it is to come from holds the balance as it is.
Exact ==
  /\ (\A p \in Procs : pc[p] # "debit") => balance = OpeningBalance - Spent
  /\ \A p \in Procs :
       /\ pc[p] = "debit" => balance = OpeningBalance - Spent + Cost[job[p].key]
       /\ pc[p] \in {"submit", "debit"} => job[p].quote = balance

LEMMA NextExact ==
  Inv /\ Wallet /\ OneDebit /\ Exact /\ [Next]_vars /\ (DebitsFinish \/ UNCHANGED vars)
    => Exact'
  <1> SUFFICES ASSUME Inv, Wallet, OneDebit, Exact, [Next]_vars,
                      DebitsFinish \/ UNCHANGED vars
               PROVE  Exact'
    OBVIOUS
  <1>1. /\ Spent \in Nat /\ OpeningBalance \in Nat /\ balance \in Nat
        /\ IsFiniteSet(txns) /\ \A k \in Keys : Cost[k] \in Nat
    BY SpentIs DEF Wallet
  <1>2. ASSUME NEW p \in Procs, Quote(p) PROVE Exact'
    <2>1. /\ UNCHANGED <<balance, txns>> /\ Spent' = Spent /\ pc'[p] # "debit"
          /\ pc'[p] = "submit" => job'[p].quote = balance
          /\ pc[p] = "quote"
      BY <1>2, QuoteDoes DEF Spent
    <2>2. \A q \in Procs \ {p} : pc'[q] = pc[q] /\ job'[q] = job[q]
      BY <1>2, QuoteDoes DEF Alone
    <2>3. QED
      BY <2>1, <2>2 DEF Exact
  <1>3. ASSUME NEW p \in Procs, Submit(p) PROVE Exact'
    <2> PICK k \in Keys : k = job[p].key
      BY <1>1, <1>3, SubmitDoes
    <2>1. /\ balance' = balance /\ UNCHANGED job
          /\ pc[p] = "submit" /\ pc'[p] = "debit"
          /\ Spent' = Spent + Cost[k]
      BY <1>1, <1>3, SubmitDoes
    <2>2. \A q \in Procs \ {p} : pc'[q] = pc[q] /\ pc[q] \notin {"submit", "debit"}
      BY <1>1, <1>3, <2>1, SubmitDoes DEF Alone, OneDebit
    <2>3. balance = OpeningBalance - Spent /\ job[p].quote = balance
      BY <2>1, <2>2 DEF Exact
    <2>4. balance' = OpeningBalance - Spent' + Cost[k]
      BY <1>1, <2>1, <2>3
    <2>5. QED
      BY <2>1, <2>2, <2>3, <2>4 DEF Exact
  <1>4. ASSUME NEW p \in Procs, Debit(p) PROVE Exact'
    <2> PICK k \in Keys : k = job[p].key
      BY <1>4, DebitDoes
    <2>1. /\ balance' = job[p].quote - Cost[k] /\ Spent' = Spent
          /\ pc[p] = "debit" /\ pc'[p] = "success"
      BY <1>4, DebitDoes DEF Spent
    <2>2. \A q \in Procs \ {p} : pc'[q] = pc[q] /\ pc[q] \notin {"submit", "debit"}
      BY <1>4, <2>1, DebitDoes DEF Alone, OneDebit
    <2>3. job[p].quote = OpeningBalance - Spent + Cost[k]
      BY <2>1 DEF Exact
    <2>4. balance' = OpeningBalance - Spent'
      BY <1>1, <2>1, <2>3
    <2>5. QED
      BY <2>1, <2>2, <2>4 DEF Exact
  <1>5. CASE \A p \in Procs : ~Quote(p) /\ ~Submit(p) /\ ~Debit(p)
    <2>1. Calm
      BY <1>5, OthersCalm
    <2>2. Spent' = Spent /\ balance' = balance
      BY <2>1 DEF Calm, Spent
    <2>3. \A q \in Procs : pc'[q] = "debit" <=> pc[q] = "debit"
      BY <1>5, <2>1 DEF Calm, DebitsFinish, vars
    <2>4. \A q \in Procs : pc'[q] \in {"submit", "debit"} =>
            pc'[q] = pc[q] /\ job'[q] = job[q]
      BY <2>1 DEF Calm
    <2>5. QED
      BY <2>2, <2>3, <2>4 DEF Exact
  <1>6. QED
    BY <1>2, <1>3, <1>4, <1>5

LEMMA InitExact == Init => Exact
  <1> SUFFICES ASSUME Init PROVE Exact
    OBVIOUS
  <1>1. /\ txns = {} /\ balance = OpeningBalance /\ OpeningBalance \in Nat
        /\ \A p \in Procs : pc[p] = "idle"
    BY TransferAssumption DEF Init
  <1>2. Spent = 0
    BY <1>1, SumOfNone DEF Spent
  <1>3. QED
    BY <1>1, <1>2 DEF Exact

\* As long as executions on the wallet do not overlap and none is cut off
\* before its debit, the balance is what the test suite says it is: the opening
\* balance less what the transactions cost.  What breaks it is the overlap of
\* two executions or a failure there, and nothing else (submit_transfer).
THEOREM BalanceIsExact ==
  Spec /\ []OneDebit /\ [][DebitsFinish]_vars => []BalanceAccurate
  <1>1. Exact => BalanceAccurate
    BY DEF Exact, BalanceAccurate, Spent
  <1>2. Init /\ []Inv /\ []Wallet /\ []OneDebit /\ [][Next]_vars /\ [][DebitsFinish]_vars
          => []Exact
    <2>1. Inv /\ Wallet /\ OneDebit /\ Exact /\ [Next]_vars /\ [DebitsFinish]_vars
            => Exact'
      BY NextExact
    <2>2. QED
      BY InitExact, <2>1, PTL
  <1>3. Spec => []Wallet
    BY InitWallet, NextWallet, InvHolds, PTL DEF Spec
  <1>4. QED
    BY <1>1, <1>2, <1>3, InvHolds, PTL DEF Spec

-----------------------------------------------------------------------------
(* What is over stays over.                                                *)

\* The statuses no store call leads out of.
Ends == {"denied", "submitted", "failed", "cancelled"}

\* A refused, cancelled or reported action stays as it is.
EndsStay == [][\A k \in Keys : status[k] \in Ends => status'[k] = status[k]]_vars

LEMMA EndsKept ==
  ASSUME Inv, [Next]_vars, NEW k \in Keys, status[k] \in Ends
  PROVE  status'[k] = status[k]
  <1> USE DEF store, rows, asks, clock, Ends
  <1>1. TypeOK
    BY DEF Inv
  <1>2. CASE \E p \in Procs, t \in Threads, i \in Keys : Message(p, t, i)
    BY <1>2 DEF Message
  <1>3. CASE \E p \in Procs, i \in Keys, a \in Procs : Decide(p, i, a)
    BY <1>1, <1>3 DEF Decide, SetStatus, TypeOK
  <1>4. CASE \E p \in Procs : Step(p)
    <2> PICK p \in Procs : Step(p)
      BY <1>4
    <2>1. CASE Prepare(p) \/ Lookup(p) \/ Approvals(p) \/ Interrupt(p) \/ Check(p)
      BY <2>1 DEF Prepare, Lookup, Approvals, Interrupt, Check
    <2>2. CASE Authorise(p) \/ Quote(p) \/ Debit(p) \/ ProviderError(p)
               \/ StoreError(p) \/ Resume(p) \/ Submit(p) \/ Request(p)
      BY <2>2 DEF Authorise, Quote, Debit, ProviderError, StoreError, Resume, Submit,
                  Request
    <2>3. CASE Insert(p)
      BY <1>1, <2>3 DEF Insert, Free, TypeOK
    <2>4. CASE Execute(p) \/ Claim(p)
      BY <1>1, <2>4 DEF Execute, Claim, Claimable, SetStatus, TypeOK
    <2>5. CASE Result(p)
      BY <1>1, <2>5 DEF Result, SetStatus, TypeOK
    <2>6. QED
      BY <2>1, <2>2, <2>3, <2>4, <2>5 DEF Step
  <1>5. CASE \E i \in Keys : Expire(i)
    BY <1>5 DEF Expire
  <1>6. CASE WorldChange \/ Crash \/ UNCHANGED vars
    BY <1>6 DEF WorldChange, Crash, vars
  <1>7. QED
    BY <1>2, <1>3, <1>4, <1>5, <1>6 DEF Next

\* Whatever verdicts, expiries, repeated messages and resumptions still arrive
\* for an action that is over, its outcome stays: every update of a status is a
\* compare-and-set from one that is not over.
THEOREM OutcomesAreFinal == Spec => EndsStay
  <1>1. Inv /\ [Next]_vars => \A k \in Keys : status[k] \in Ends => status'[k] = status[k]
    BY EndsKept
  <1>2. QED
    BY <1>1, InvHolds, PTL DEF Spec, EndsStay
=============================================================================
