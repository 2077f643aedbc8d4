-------------------------- MODULE OnboardingProofs --------------------------
(***************************************************************************)
(* Theorems about Onboarding, for any keys, conversations, request threads *)
(* and outcomes of the policy search and any faults.                       *)
(*                                                                         *)
(* That the two tables agree depends on what a request between two of      *)
(* their transactions still knows: Local.  An application is inserted by   *)
(* the one request that inserted its action (Exclusive), which is why it   *)
(* overwrites nothing.  Evidence follows the outcome of the policy search  *)
(* from the proposal to the key, the row and the review.                   *)
(***************************************************************************)
EXTENDS Onboarding, TLAPS, FiniteSetTheorems

\* What a request knows at each step.
Local(p) ==
  /\ pc[p] \notin {"idle", "reject"} => job[p].thread \in Threads
  /\ pc[p] \notin {"idle", "resume", "search"} => job[p].key \in Keys
  /\ pc[p] \in {"lookup", "insert"} => job[p].world \in Worlds
  /\ pc[p] \notin {"idle", "resume", "search", "lookup", "insert"} =>
       status[job[p].key] # "none"
  /\ pc[p] \in {"interrupt", "check"} => job[p].seen \in Procs
  /\ pc[p] = "file" =>
       /\ application[job[p].key] = "none"
       /\ ~Permitted(job[p].world) => status[job[p].key] = "denied"
  /\ pc[p] = "request" => approval[job[p].key][p] = "none"
  /\ pc[p] \in {"refuse", "reject"} => Decided(job[p].key, "rejected")
  /\ pc[p] = "succeed" => application[job[p].key] = "approved"

Locals == \A p \in Procs : Local(p)

Provisions(p) == pc[p] \in {"finalize", "succeed"}

\* One request provisions the account of an action that is executing, and one
\* files the application of an action.
Exclusive ==
  /\ \A p \in Procs : Provisions(p) => status[job[p].key] = "executing"
  /\ \A p, q \in Procs :
       Provisions(p) /\ Provisions(q) /\ job[p].key = job[q].key => p = q
  /\ \A p, q \in Procs :
       pc[p] = "file" /\ pc[q] = "file" /\ job[p].key = job[q].key => p = q

\* How the rows refer to one another.
Rows ==
  \A k \in Keys :
    /\ status[k] = "none" => application[k] = "none"
    /\ status[k] # "none" => home[k] \in Threads
    /\ status[k] \in {"approved", "executing", "succeeded"} =>
         Decided(k, "approved")
    /\ \A a \in Procs : approval[k][a] # "none" =>
         status[k] # "none" /\ latest[k] # None

\* The inductive invariant.
Inv == TypeOK /\ Locals /\ Exclusive /\ Rows /\ TablesAgree

\* A step of request p leaves the other requests alone.
Alone(p) == \A q \in Procs \ {p} : pc'[q] = pc[q] /\ job'[q] = job[q]

\* A step of p that keeps what the other requests know of the rows.
Keeps(p) ==
  /\ Alone(p)
  /\ \A k \in Keys :
       /\ status[k] # "none" => status'[k] # "none"
       /\ status[k] = "denied" => status'[k] = "denied"
       /\ application[k] = "approved" => application'[k] = "approved"
       /\ Decided(k, "rejected") => Decided(k, "rejected")'
       /\ \A q \in Procs \ {p} :
            approval[k][q] = "none" => approval'[k][q] = "none"
  /\ \A q \in Procs \ {p} : pc[q] = "file" =>
       application'[job[q].key] = application[job[q].key]

\* A step of p that takes nothing up: it comes neither to provision nor to file,
\* and what executes keeps executing.
Harmless(p) ==
  /\ Keeps(p)
  /\ Provisions(p)' => Provisions(p) /\ job'[p].key = job[p].key
  /\ pc'[p] # "file"
  /\ \A k \in Keys : status[k] = "executing" => status'[k] = "executing"

tables == <<status, home, application, approval, latest>>

-----------------------------------------------------------------------------
(* Lemmas about the ways a request moves.                                  *)

LEMMA NoJobType == NoJob \in Jobs /\ NoJob.key = None /\ NoJob.resume = None
  BY DEF NoJob, Jobs

\* Assigning local variables of a request keeps its type.
LEMMA JobAssign ==
  ASSUME NEW j \in Jobs, NEW t \in Threads, NEW k \in Keys, NEW w \in Worlds,
         NEW a \in Procs, NEW b \in BOOLEAN, NEW r \in Requests
  PROVE  /\ [NoJob EXCEPT !.thread = t] \in Jobs
         /\ [NoJob EXCEPT !.key = k] \in Jobs
         /\ [NoJob EXCEPT !.thread = t, !.resume = r] \in Jobs
         /\ [j EXCEPT !.world = w, !.key = k] \in Jobs
         /\ [j EXCEPT !.filed = b] \in Jobs
         /\ [j EXCEPT !.seen = a] \in Jobs
  <1>1. /\ [NoJob EXCEPT !.thread = t] \in Jobs
        /\ [NoJob EXCEPT !.key = k] \in Jobs
        /\ [NoJob EXCEPT !.thread = t, !.resume = r] \in Jobs
    BY DEF NoJob, Jobs
  <1>2. /\ [j EXCEPT !.world = w, !.key = k] \in Jobs
        /\ [j EXCEPT !.filed = b] \in Jobs
        /\ [j EXCEPT !.seen = a] \in Jobs
    BY DEF Jobs
  <1>3. QED
    BY <1>1, <1>2

\* A request moves to step s with new locals j.
LEMMA Moves ==
  ASSUME TypeOK, NEW p \in Procs, NEW s \in Steps, NEW j \in Jobs,
         Goto(p, s), job' = [job EXCEPT ![p] = j]
  PROVE  /\ pc' \in [Procs -> Steps] /\ job' \in [Procs -> Jobs]
         /\ pc'[p] = s /\ job'[p] = j /\ Alone(p)
  BY DEF TypeOK, Goto, Alone

LEMMA ContinueMoves ==
  ASSUME TypeOK, NEW p \in Procs, NEW s \in Steps, Continue(p, s)
  PROVE  /\ pc' \in [Procs -> Steps] /\ job' \in [Procs -> Jobs]
         /\ pc'[p] = s /\ job' = job /\ Alone(p) /\ waiting' = waiting
  BY DEF TypeOK, Continue, Goto, Alone

LEMMA LeaveMoves ==
  ASSUME TypeOK, NEW p \in Procs, Leave(p)
  PROVE  /\ pc' \in [Procs -> Steps] /\ job' \in [Procs -> Jobs]
         /\ pc'[p] = "idle" /\ Alone(p) /\ Local(p)'
  <1>1. /\ pc' \in [Procs -> Steps] /\ job' \in [Procs -> Jobs]
        /\ pc'[p] = "idle" /\ job'[p] = NoJob /\ Alone(p)
    BY NoJobType, Moves DEF Leave, Steps
  <1>2. QED
    BY <1>1 DEF Local

LEMMA FinishMoves ==
  ASSUME TypeOK, NEW p \in Procs, Finish(p)
  PROVE  /\ pc' \in [Procs -> Steps] /\ job' \in [Procs -> Jobs]
         /\ pc'[p] = "idle" /\ Alone(p) /\ Local(p)' /\ waiting' \subseteq Threads
  BY LeaveMoves DEF Finish, TypeOK

\* The compare-and-set moves at most one row, and only from the old status.
LEMMA StatusMoves ==
  ASSUME TypeOK, NEW k \in Keys, NEW old \in Statuses, NEW new \in Statuses,
         SetStatus(k, old, new)
  PROVE  /\ status' \in [Keys -> Statuses]
         /\ \A i \in Keys \ {k} : status'[i] = status[i]
         /\ status'[k] = IF status[k] = old THEN new ELSE status[k]
  BY DEF TypeOK, SetStatus

LEMMA FinalizeMoves ==
  ASSUME TypeOK, NEW k \in Keys, NEW new \in Outcomes, Finalize(k, new)
  PROVE  /\ application' \in [Keys -> Outcomes]
         /\ \A i \in Keys \ {k} : application'[i] = application[i]
         /\ application'[k] = IF application[k] = "pending_review" THEN new
                              ELSE application[k]
  BY DEF TypeOK, Finalize

\* What the other requests know stays true.
LEMMA KeepsLocals ==
  ASSUME NEW p \in Procs, Inv, Keeps(p), Local(p)' PROVE Locals'
  <1> SUFFICES ASSUME NEW q \in Procs, q # p PROVE Local(q)'
    BY DEF Locals
  <1>1. pc'[q] = pc[q] /\ job'[q] = job[q] /\ Local(q)
    BY DEF Inv, Locals, Keeps, Alone
  <1> DEFINE k == job[q].key
  <1>2. Decided(k, "rejected") /\ k \in Keys => Decided(job[q].key, "rejected")'
    BY <1>1 DEF Keeps, Decided
  <1>3. pc[q] = "file" => application'[k] = application[k]
    BY DEF Keeps
  <1>4. QED
    BY <1>1, <1>2, <1>3 DEF Local, Keeps

LEMMA HarmlessExclusive ==
  ASSUME NEW p \in Procs, Inv, Harmless(p) PROVE Exclusive'
  <1>1. \A q \in Procs :
          /\ Provisions(q)' => Provisions(q) /\ job'[q].key = job[q].key
          /\ pc'[q] = "file" => q # p /\ pc[q] = "file" /\ job'[q] = job[q]
    BY DEF Harmless, Keeps, Alone, Provisions
  <1>2. \A q \in Procs : Provisions(q) => job[q].key \in Keys
    BY DEF Inv, Locals, Local, Provisions
  <1>3. QED
    BY <1>1, <1>2 DEF Inv, Exclusive, Harmless

\* A step that leaves the tables alone.
LEMMA QuietInv ==
  ASSUME NEW p \in Procs, Inv, TypeOK', UNCHANGED tables, Alone(p), Local(p)',
         Provisions(p)' => Provisions(p) /\ job'[p].key = job[p].key,
         pc'[p] # "file"
  PROVE  Inv'
  <1>1. Keeps(p) /\ Harmless(p)
    BY DEF Keeps, Harmless, tables, Decided
  <1>2. Rows' /\ TablesAgree'
    BY DEF Inv, Rows, TablesAgree, tables, Decided
  <1>3. QED
    BY <1>1, <1>2, KeepsLocals, HarmlessExclusive DEF Inv

LEMMA InitInv == Init => Inv
  <1> SUFFICES ASSUME Init PROVE Inv
    OBVIOUS
  <1>1. TypeOK
    <2>1. NoJob \in Jobs
      BY NoJobType
    <2>2. QED
      BY <2>1 DEF Init, TypeOK, Statuses, Verdicts, Outcomes, Steps
  <1>2. Locals /\ Exclusive
    BY DEF Init, Locals, Local, Exclusive, Provisions
  <1>3. Rows /\ TablesAgree
    BY DEF Init, Rows, TablesAgree
  <1>4. QED
    BY <1>1, <1>2, <1>3 DEF Inv

-----------------------------------------------------------------------------
(* Steps that leave the tables alone.                                      *)

\* A request that goes on with the locals it has, or ends.
LEMMA GoesOn ==
  ASSUME NEW p \in Procs, Inv, UNCHANGED <<store, world>>, NEW s \in Steps,
         Continue(p, s) \/ Finish(p) \/ (Leave(p) /\ UNCHANGED waiting),
         Continue(p, s) => Local(p)' /\ s \notin {"finalize", "succeed", "file"}
  PROVE  Inv'
  <1> USE DEF store, actions, asks, clock
  <1>1. TypeOK
    BY DEF Inv
  <1>2. CASE Continue(p, s)
    <2>1. /\ pc' \in [Procs -> Steps] /\ job' \in [Procs -> Jobs]
          /\ pc'[p] = s /\ job' = job /\ Alone(p) /\ waiting' = waiting
      BY <1>1, <1>2, ContinueMoves
    <2>2. TypeOK'
      BY <1>1, <2>1 DEF TypeOK
    <2>3. QED
      BY <1>2, <2>1, <2>2, QuietInv DEF Provisions, tables
  <1>3. CASE Finish(p)
    <2>1. /\ pc' \in [Procs -> Steps] /\ job' \in [Procs -> Jobs]
          /\ pc'[p] = "idle" /\ Alone(p) /\ Local(p)' /\ waiting' \subseteq Threads
      BY <1>1, <1>3, FinishMoves
    <2>2. TypeOK'
      BY <1>1, <2>1 DEF TypeOK
    <2>3. QED
      BY <2>1, <2>2, QuietInv DEF Provisions, tables
  <1>4. CASE Leave(p) /\ UNCHANGED waiting
    <2>1. /\ pc' \in [Procs -> Steps] /\ job' \in [Procs -> Jobs]
          /\ pc'[p] = "idle" /\ Alone(p) /\ Local(p)'
      BY <1>1, <1>4, LeaveMoves
    <2>2. TypeOK'
      BY <1>1, <1>4, <2>1 DEF TypeOK
    <2>3. QED
      BY <2>1, <2>2, QuietInv DEF Provisions, tables
  <1>5. QED
    BY <1>2, <1>3, <1>4

\* A request that goes on with other locals.
LEMMA Assigns ==
  ASSUME NEW p \in Procs, Inv, UNCHANGED store, world' = world,
         waiting' \subseteq Threads, NEW s \in Steps, NEW j \in Jobs,
         Goto(p, s), job' = [job EXCEPT ![p] = j],
         s \notin {"finalize", "succeed", "file"},
         pc'[p] = s /\ job'[p] = j => Local(p)'
  PROVE  Inv'
  <1> USE DEF store, actions, asks, clock
  <1>1. /\ pc' \in [Procs -> Steps] /\ job' \in [Procs -> Jobs]
        /\ pc'[p] = s /\ job'[p] = j /\ Alone(p)
    BY Moves DEF Inv
  <1>2. TypeOK'
    BY <1>1 DEF Inv, TypeOK
  <1>3. QED
    BY <1>1, <1>2, QuietInv DEF Provisions, tables

LEMMA MessageInv ==
  ASSUME NEW p \in Procs, NEW t \in Threads, Inv, Message(p, t) PROVE Inv'
  <1> DEFINE j == [NoJob EXCEPT !.thread = t]
  <1>1. j \in Jobs /\ j.thread = t
    BY DEF NoJob, Jobs
  <1>2. waiting' \subseteq Threads /\ "search" \in Steps
    BY DEF Message, Inv, TypeOK, Steps
  <1>3. pc'[p] = "search" /\ job'[p] = j => Local(p)'
    BY <1>1 DEF Local
  <1>4. job' = [job EXCEPT ![p] = j] /\ Goto(p, "search") /\ UNCHANGED <<store, world>>
    BY DEF Message
  <1> HIDE DEF j
  <1>5. QED
    BY <1>1, <1>2, <1>3, <1>4, Assigns

LEMMA SearchInv == ASSUME NEW p \in Procs, Inv, Search(p) PROVE Inv'
  <1> DEFINE j == [job[p] EXCEPT !.world = world,
                                 !.key = KeyOf[job[p].thread, world]]
  <1>1. /\ job[p] \in Jobs /\ job[p].thread \in Threads /\ world \in Worlds
        /\ TypeOK
    BY DEF Inv, TypeOK, Locals, Local, Search, At
  <1>2. KeyOf[job[p].thread, world] \in Keys
    BY <1>1, OnboardingAssumption
  <1>3. /\ j \in Jobs /\ j.thread = job[p].thread /\ j.world = world
        /\ j.key \in Keys
    BY <1>1, <1>2 DEF Jobs
  <1>4. waiting' \subseteq Threads /\ "lookup" \in Steps
    BY <1>1 DEF Search, TypeOK, Steps
  <1>5. pc'[p] = "lookup" /\ job'[p] = j => Local(p)'
    BY <1>1, <1>3 DEF Local
  <1>6. job' = [job EXCEPT ![p] = j] /\ Goto(p, "lookup") /\ UNCHANGED <<store, world>>
    BY <1>1 DEF Search, TypeOK
  <1> HIDE DEF j
  <1>7. QED
    BY <1>3, <1>4, <1>5, <1>6, Assigns

LEMMA LookupInv == ASSUME NEW p \in Procs, Inv, Lookup(p) PROVE Inv'
  <1>1. /\ pc[p] = "lookup" /\ Local(p) /\ TypeOK
        /\ {"insert", "application"} \subseteq Steps
    BY DEF Lookup, At, Inv, Locals, Steps
  <1>2. PICK s \in {"insert", "application"} :
          /\ Continue(p, s) \/ Finish(p)
          /\ s = "application" => status[job[p].key] # "none"
    BY DEF Lookup
  <1>3. Continue(p, s) => Local(p)'
    BY <1>1, <1>2, ContinueMoves DEF Local, Lookup, store, actions
  <1>4. QED
    BY <1>1, <1>2, <1>3, GoesOn DEF Lookup

LEMMA ApplicationInv == ASSUME NEW p \in Procs, Inv, Application(p) PROVE Inv'
  <1> DEFINE b == application[job[p].key] # "none"
             j == [job[p] EXCEPT !.filed = b]
  <1>1. /\ pc[p] = "application" /\ Local(p) /\ TypeOK /\ job[p] \in Jobs
        /\ waiting' \subseteq Threads /\ "approvals" \in Steps
    BY DEF Application, At, Inv, Locals, Steps, TypeOK
  <1>2. j \in Jobs /\ j.thread = job[p].thread /\ j.key = job[p].key
    <2>1. b \in BOOLEAN
      OBVIOUS
    <2> HIDE DEF b
    <2>2. QED
      BY <1>1, <2>1 DEF Jobs
  <1>3. job' = [job EXCEPT ![p] = j] /\ Goto(p, "approvals")
        /\ UNCHANGED <<store, world>>
    BY DEF Application
  <1> HIDE DEF j
  <1>4. pc'[p] = "approvals" /\ job'[p] = j => Local(p)'
    BY <1>1, <1>2, <1>3 DEF Local, store, actions
  <1>5. QED
    BY <1>1, <1>2, <1>3, <1>4, Assigns

LEMMA ApprovalsInv == ASSUME NEW p \in Procs, Inv, Approvals(p) PROVE Inv'
  <1> DEFINE k == job[p].key
             a == latest[k]
  <1>1. /\ pc[p] = "approvals" /\ Local(p) /\ TypeOK /\ job[p] \in Jobs
        /\ k \in Keys /\ {"request", "interrupt", "check"} \subseteq Steps
        /\ UNCHANGED <<store, world>>
    BY DEF Approvals, At, Inv, Locals, Local, Steps, TypeOK
  <1>2. CASE Finish(p)
    <2>1. ~Continue(p, "request")
      BY <1>1, <1>2, FinishMoves, ContinueMoves
    <2>2. QED
      BY <1>1, <1>2, <2>1, GoesOn
  <1>3. CASE a = None /\ Continue(p, "request")
    <2>1. approval[k][p] = "none"
      BY <1>1, <1>3 DEF Inv, Rows
    <2>2. Local(p)'
      BY <1>1, <1>3, <2>1, ContinueMoves DEF Local, store, actions, asks
    <2>3. QED
      BY <1>1, <1>3, <2>2, GoesOn
  <1>4. CASE /\ a # None /\ job' = [job EXCEPT ![p].seen = a]
             /\ Goto(p, IF approval[k][a] = "pending" THEN "interrupt" ELSE "check")
             /\ UNCHANGED waiting
    <2> DEFINE j == [job[p] EXCEPT !.seen = a]
    <2>1. a \in Procs
      BY <1>1, <1>4 DEF TypeOK
    <2>2. /\ j \in Jobs /\ j.thread = job[p].thread /\ j.key = k /\ j.seen \in Procs
          /\ job' = [job EXCEPT ![p] = j]
      BY <1>1, <1>4, <2>1 DEF Jobs, TypeOK
    <2>3. waiting' \subseteq Threads
      BY <1>1, <1>4 DEF TypeOK
    <2> HIDE DEF j
    <2>4. PICK s \in {"interrupt", "check"} : Goto(p, s)
      BY <1>4
    <2>5. pc'[p] = s /\ job'[p] = j => Local(p)'
      BY <1>1, <2>2 DEF Local, store, actions
    <2>6. QED
      BY <1>1, <2>2, <2>3, <2>4, <2>5, Assigns
  <1>5. QED
    BY <1>2, <1>3, <1>4 DEF Approvals

LEMMA InterruptInv == ASSUME NEW p \in Procs, Inv, Interrupt(p) PROVE Inv'
  <1>1. /\ pc[p] = "interrupt" /\ Local(p) /\ TypeOK /\ "check" \in Steps
    BY DEF Interrupt, At, Inv, Locals, Steps
  <1>2. Continue(p, "check") => Local(p)'
    BY <1>1, ContinueMoves DEF Local, Interrupt, store, actions
  <1>3. QED
    BY <1>1, <1>2, GoesOn DEF Interrupt

LEMMA CheckInv == ASSUME NEW p \in Procs, Inv, Check(p) PROVE Inv'
  <1>1. /\ pc[p] = "check" /\ Local(p) /\ TypeOK
        /\ {"refuse", "execute"} \subseteq Steps
    BY DEF Check, At, Inv, Locals, Steps
  <1>2. PICK s \in {"refuse", "execute"} :
          /\ Continue(p, s)
          /\ s = "refuse" => Decided(job[p].key, "rejected")
    BY <1>1 DEF Check, Decided, Local
  <1>3. Local(p)'
    BY <1>1, <1>2, ContinueMoves DEF Local, Check, store, actions, asks, Decided
  <1>4. QED
    BY <1>1, <1>2, <1>3, GoesOn DEF Check

LEMMA AuthoriseInv == ASSUME NEW p \in Procs, Inv, Authorise(p) PROVE Inv'
  <1>1. /\ pc[p] = "authorise" /\ Local(p) /\ TypeOK /\ "claim" \in Steps
    BY DEF Authorise, At, Inv, Locals, Steps
  <1>2. Continue(p, "claim") => Local(p)'
    BY <1>1, ContinueMoves DEF Local, Authorise, store, actions
  <1>3. QED
    BY <1>1, <1>2, GoesOn DEF Authorise

LEMMA ResumeInv == ASSUME NEW p \in Procs, Inv, Resume(p) PROVE Inv'
  <1>1. /\ pc[p] = "resume" /\ Local(p) /\ TypeOK /\ "search" \in Steps
    BY DEF Resume, At, Inv, Locals, Steps
  <1>2. Continue(p, "search") => Local(p)'
    BY <1>1, ContinueMoves DEF Local
  <1>3. QED
    BY <1>1, <1>2, GoesOn DEF Resume

-----------------------------------------------------------------------------
(* Steps that write the tables.                                            *)

LEMMA InsertInv == ASSUME NEW p \in Procs, Inv, Insert(p) PROVE Inv'
  <1> USE DEF actions, asks, clock
  <1> DEFINE k == job[p].key
             v == IF Permitted(job[p].world) THEN "pending_approval" ELSE "denied"
  <1>1. /\ pc[p] = "insert" /\ Local(p) /\ TypeOK /\ k \in Keys
        /\ job[p].thread \in Threads /\ job[p].world \in Worlds
    BY DEF Insert, At, Inv, Locals, Local
  <1>2. CASE ~Free(k) /\ Finish(p) /\ UNCHANGED actions
    <2>1. ~Continue(p, "request")
      BY <1>1, <1>2, FinishMoves, ContinueMoves DEF Steps
    <2>2. QED
      BY <1>2, <2>1, GoesOn DEF Insert, store, Steps
  <1>3. CASE /\ Free(k) /\ Continue(p, "file")
             /\ status' = [status EXCEPT ![k] = v]
             /\ digest' = [digest EXCEPT ![k] = job[p].world]
             /\ home' = [home EXCEPT ![k] = job[p].thread]
    <2>1. /\ pc' \in [Procs -> Steps] /\ job' \in [Procs -> Jobs]
          /\ pc'[p] = "file" /\ job' = job /\ Alone(p) /\ waiting' = waiting
      BY <1>1, <1>3, ContinueMoves DEF Steps
    <2>2. /\ status[k] = "none" /\ status'[k] = v /\ home'[k] \in Threads
          /\ v \in {"pending_approval", "denied"}
          /\ application[k] = "none"
          /\ \A i \in Keys \ {k} : status'[i] = status[i] /\ home'[i] = home[i]
          /\ UNCHANGED <<application, approval, latest>>
      BY <1>1, <1>3 DEF TypeOK, Free, Inv, Rows, Insert
    <2>3. TypeOK'
      BY <1>1, <1>3, <2>1, <2>2 DEF TypeOK, Statuses, Insert
    <2>4. Keeps(p)
      BY <2>1, <2>2 DEF Keeps, Decided
    <2>5. Local(p)'
      BY <1>1, <2>1, <2>2 DEF Local
    <2>6. Exclusive'
      <3>1. \A q \in Procs : q # p /\ (Provisions(q) \/ pc[q] = "file") =>
              job[q].key \in Keys /\ job[q].key # k
        BY <2>2 DEF Inv, Locals, Local, Provisions
      <3>2. \A q \in Procs \ {p} : pc'[q] = pc[q]
        BY <2>1 DEF Alone
      <3>3. QED
        BY <2>1, <2>2, <3>1, <3>2 DEF Inv, Exclusive, Provisions
    <2>7. Rows' /\ TablesAgree'
      BY <2>2 DEF Inv, Rows, TablesAgree, Decided
    <2>8. QED
      BY <2>3, <2>4, <2>5, <2>6, <2>7, KeepsLocals DEF Inv
  <1>4. QED
    BY <1>2, <1>3 DEF Insert

LEMMA FileInv == ASSUME NEW p \in Procs, Inv, File(p) PROVE Inv'
  <1> USE DEF actions, asks, clock
  <1> DEFINE k == job[p].key
             o == IF Permitted(job[p].world) THEN "pending_review" ELSE "rejected"
  <1>1. /\ pc[p] = "file" /\ Local(p) /\ TypeOK /\ k \in Keys
        /\ status[k] # "none" /\ application[k] = "none"
        /\ o = "rejected" => status[k] = "denied"
    BY DEF File, At, Inv, Locals, Local
  <1>2. /\ pc' \in [Procs -> Steps] /\ job' \in [Procs -> Jobs]
        /\ pc'[p] = "application" /\ job' = job /\ Alone(p) /\ waiting' = waiting
    BY <1>1, ContinueMoves DEF Steps, File
  <1>3. /\ application'[k] = o /\ o \in {"pending_review", "rejected"}
        /\ \A i \in Keys \ {k} : application'[i] = application[i]
        /\ UNCHANGED <<status, home, approval, latest>>
    BY <1>1 DEF TypeOK, File
  <1>4. TypeOK'
    BY <1>1, <1>2, <1>3 DEF TypeOK, Outcomes, File
  <1>5. \A q \in Procs \ {p} : pc[q] = "file" =>
          application'[job[q].key] = application[job[q].key]
    BY <1>1, <1>3 DEF Inv, Exclusive, Locals, Local
  <1>6. Keeps(p) /\ Harmless(p)
    BY <1>1, <1>2, <1>3, <1>5 DEF Keeps, Harmless, Provisions, Decided
  <1>7. Local(p)'
    BY <1>1, <1>2, <1>3 DEF Local
  <1>8. Rows' /\ TablesAgree'
    BY <1>1, <1>3 DEF Inv, Rows, TablesAgree, Decided
  <1>9. QED
    BY <1>4, <1>6, <1>7, <1>8, KeepsLocals, HarmlessExclusive DEF Inv

LEMMA RequestInv == ASSUME NEW p \in Procs, Inv, Request(p) PROVE Inv'
  <1> USE DEF actions, clock
  <1> DEFINE k == job[p].key
             j == [job[p] EXCEPT !.seen = p]
  <1>1. /\ pc[p] = "request" /\ Local(p) /\ TypeOK /\ k \in Keys
        /\ status[k] # "none" /\ approval[k][p] = "none" /\ job[p] \in Jobs
    BY DEF Request, At, Inv, Locals, Local, TypeOK
  <1>2. /\ \A i \in Keys, a \in Procs :
             approval'[i][a] = IF i = k /\ a = p THEN "pending" ELSE approval[i][a]
        /\ approval' \in [Keys -> [Procs -> Verdicts]]
        /\ UNCHANGED <<status, digest, home, application, expired, lapsed, world>>
    <2>1. /\ approval' = [approval EXCEPT ![k][p] = "pending"]
          /\ approval \in [Keys -> [Procs -> Verdicts]] /\ "pending" \in Verdicts
          /\ UNCHANGED <<status, digest, home, application, expired, lapsed, world>>
      BY <1>1 DEF TypeOK, Request, Verdicts
    <2>2. \A i \in Keys, a \in Procs :
            approval'[i][a] = IF i = k /\ a = p THEN "pending" ELSE approval[i][a]
      BY <1>1, <2>1
    <2>3. QED
      BY <1>1, <2>1, <2>2
  <1>3. /\ latest' \in [Keys -> Procs \cup {None}] /\ latest'[k] # None
        /\ \A i \in Keys : latest[i] # None => latest'[i] # None
    <2>1. latest \in [Keys -> Procs \cup {None}] /\ p # None
      BY <1>1, OnboardingAssumption DEF TypeOK
    <2>2. CASE latest' = [latest EXCEPT ![k] = p]
      BY <1>1, <2>1, <2>2
    <2>3. CASE latest[k] # None /\ UNCHANGED latest
      BY <1>1, <2>1, <2>3
    <2>4. QED
      BY <2>2, <2>3 DEF Request
  <1>4. /\ pc' \in [Procs -> Steps] /\ job' \in [Procs -> Jobs] /\ Alone(p)
        /\ pc'[p] \in {"interrupt", "idle"} /\ Local(p)' /\ waiting' \subseteq Threads
    <2>1. CASE /\ job' = [job EXCEPT ![p].seen = p]
               /\ Goto(p, "interrupt") /\ UNCHANGED waiting
      <3>0. j \in Jobs /\ j.key = k /\ j.thread = job[p].thread /\ j.seen = p
        BY <1>1 DEF Jobs
      <3>1. j \in Jobs /\ job' = [job EXCEPT ![p] = j]
        BY <2>1, <3>0
      <3> HIDE DEF j
      <3>2. /\ pc' \in [Procs -> Steps] /\ job' \in [Procs -> Jobs] /\ Alone(p)
            /\ pc'[p] = "interrupt" /\ job'[p] = j
        BY <1>1, <2>1, <3>1, Moves DEF Steps
      <3>3. Local(p)'
        BY <1>1, <1>2, <3>0, <3>2 DEF Local
      <3>4. QED
        BY <1>1, <2>1, <3>2, <3>3 DEF TypeOK
    <2>2. CASE Finish(p)
      BY <1>1, <2>2, FinishMoves
    <2>3. QED
      BY <2>1, <2>2 DEF Request
  <1>5. TypeOK'
    BY <1>1, <1>2, <1>3, <1>4 DEF TypeOK
  <1>6. \A i \in Keys : \A v \in {"approved", "rejected"} :
          Decided(i, v) <=> Decided(i, v)'
    BY <1>1, <1>2 DEF Decided
  <1>7. Keeps(p) /\ Harmless(p)
    BY <1>1, <1>2, <1>4, <1>6 DEF Keeps, Harmless, Provisions
  <1>8. Rows'
    BY <1>1, <1>2, <1>3, <1>6 DEF Inv, Rows
  <1>9. TablesAgree'
    BY <1>2, <1>6 DEF Inv, TablesAgree
  <1>10. QED
    BY <1>4, <1>5, <1>7, <1>8, <1>9, KeepsLocals, HarmlessExclusive DEF Inv

LEMMA RefuseInv == ASSUME NEW p \in Procs, Inv, Refuse(p) PROVE Inv'
  <1> USE DEF actions, asks, clock
  <1> DEFINE k == job[p].key
  <1>1. /\ pc[p] \in {"refuse", "reject"} /\ Local(p) /\ TypeOK /\ k \in Keys
        /\ Decided(k, "rejected") /\ "rejected" \in Outcomes
    BY DEF Refuse, Inv, Locals, Local, Outcomes
  <1>2. /\ application' \in [Keys -> Outcomes]
        /\ \A i \in Keys \ {k} : application'[i] = application[i]
        /\ application'[k] = IF application[k] = "pending_review" THEN "rejected"
                             ELSE application[k]
        /\ UNCHANGED <<status, digest, home, approval, latest, expired, lapsed, world>>
    BY <1>1, FinalizeMoves DEF Refuse
  <1>3. /\ pc' \in [Procs -> Steps] /\ job' \in [Procs -> Jobs] /\ Alone(p)
        /\ pc'[p] = "idle" /\ Local(p)' /\ waiting' \subseteq Threads
    BY <1>1, FinishMoves, LeaveMoves DEF Refuse, TypeOK
  <1>4. TypeOK'
    BY <1>1, <1>2, <1>3 DEF TypeOK
  <1>5. \A q \in Procs \ {p} : pc[q] = "file" =>
          application'[job[q].key] = application[job[q].key]
    BY <1>2 DEF Inv, Locals, Local
  <1>6. Keeps(p) /\ Harmless(p)
    BY <1>2, <1>3, <1>5 DEF Keeps, Harmless, Provisions, Decided
  <1>7. Rows' /\ TablesAgree'
    BY <1>1, <1>2 DEF Inv, Rows, TablesAgree, Decided
  <1>8. QED
    BY <1>3, <1>4, <1>6, <1>7, KeepsLocals, HarmlessExclusive DEF Inv

LEMMA ExecuteInv == ASSUME NEW p \in Procs, Inv, Execute(p) PROVE Inv'
  <1> USE DEF asks, clock
  <1> DEFINE k == job[p].key
  <1>1. /\ pc[p] = "execute" /\ Local(p) /\ TypeOK /\ k \in Keys
        /\ {"approved", "cancelled"} \subseteq Statuses
    BY DEF Execute, At, Inv, Locals, Local, Statuses
  <1>2. /\ status' \in [Keys -> Statuses]
        /\ \A i \in Keys \ {k} : status'[i] = status[i]
        /\ \/ status'[k] = status[k]
           \/ status[k] = "approved" /\ status'[k] = "cancelled"
        /\ UNCHANGED <<digest, home, application, approval, latest, expired, lapsed,
                       world>>
    BY <1>1, StatusMoves DEF Execute, TypeOK
  <1>3. /\ pc' \in [Procs -> Steps] /\ job' \in [Procs -> Jobs] /\ Alone(p)
        /\ pc'[p] \in {"idle", "authorise"} /\ Local(p)' /\ waiting' \subseteq Threads
    <2>1. CASE Continue(p, "authorise") /\ UNCHANGED status
      <3>1. /\ pc' \in [Procs -> Steps] /\ job' \in [Procs -> Jobs] /\ Alone(p)
            /\ pc'[p] = "authorise" /\ job' = job /\ waiting' = waiting
        BY <1>1, <2>1, ContinueMoves DEF Steps
      <3>2. Local(p)'
        BY <1>1, <2>1, <3>1 DEF Local
      <3>3. QED
        BY <1>1, <3>1, <3>2 DEF TypeOK
    <2>2. CASE Finish(p)
      BY <1>1, <2>2, FinishMoves
    <2>3. QED
      BY <2>1, <2>2 DEF Execute
  <1>4. TypeOK'
    BY <1>1, <1>2, <1>3 DEF TypeOK
  <1>5. Keeps(p) /\ Harmless(p)
    BY <1>2, <1>3 DEF Keeps, Harmless, Provisions, Decided
  <1>6. Rows' /\ TablesAgree'
    BY <1>2 DEF Inv, Rows, TablesAgree, Decided
  <1>7. QED
    BY <1>3, <1>4, <1>5, <1>6, KeepsLocals, HarmlessExclusive DEF Inv

LEMMA ClaimInv == ASSUME NEW p \in Procs, Inv, Claim(p) PROVE Inv'
  <1> USE DEF asks, clock
  <1> DEFINE k == job[p].key
  <1>1. pc[p] = "claim" /\ Local(p) /\ TypeOK /\ k \in Keys
    BY DEF Claim, At, Inv, Locals, Local
  <1>2. CASE ~Claimable(k) /\ Finish(p) /\ UNCHANGED status
    <2>1. ~Continue(p, "request")
      BY <1>1, <1>2, FinishMoves, ContinueMoves DEF Steps
    <2>2. QED
      BY <1>2, <2>1, GoesOn DEF Claim, store, actions, Steps
  <1>3. CASE /\ Claimable(k) /\ Continue(p, "finalize")
             /\ status' = [status EXCEPT ![k] = "executing"]
    <2>1. /\ pc' \in [Procs -> Steps] /\ job' \in [Procs -> Jobs]
          /\ pc'[p] = "finalize" /\ job' = job /\ Alone(p) /\ waiting' = waiting
      BY <1>1, <1>3, ContinueMoves DEF Steps
    <2>2. /\ status[k] = "approved" /\ status'[k] = "executing"
          /\ \A i \in Keys \ {k} : status'[i] = status[i]
          /\ UNCHANGED <<home, application, approval, latest>>
      BY <1>1, <1>3 DEF TypeOK, Claimable, Claim
    <2>3. TypeOK'
      BY <1>1, <1>3, <2>1, <2>2 DEF TypeOK, Statuses, Claim
    <2>4. Keeps(p)
      BY <2>1, <2>2 DEF Keeps, Decided
    <2>5. Local(p)'
      BY <1>1, <2>1, <2>2 DEF Local
    <2>6. Exclusive'
      <3>1. \A q \in Procs : Provisions(q) => job[q].key \in Keys /\ job[q].key # k
        BY <2>2 DEF Inv, Exclusive, Locals, Local, Provisions
      <3>2. \A q \in Procs \ {p} : pc'[q] = pc[q]
        BY <2>1 DEF Alone
      <3>3. QED
        BY <2>1, <2>2, <3>1, <3>2 DEF Inv, Exclusive, Provisions
    <2>7. Rows' /\ TablesAgree'
      BY <1>1, <2>2 DEF Inv, Rows, TablesAgree, Decided
    <2>8. QED
      BY <2>3, <2>4, <2>5, <2>6, <2>7, KeepsLocals DEF Inv
  <1>4. QED
    BY <1>2, <1>3 DEF Claim

LEMMA ProvisionInv == ASSUME NEW p \in Procs, Inv, Provision(p) PROVE Inv'
  <1> USE DEF actions, asks, clock
  <1> DEFINE k == job[p].key
  <1>1. /\ pc[p] = "finalize" /\ Local(p) /\ TypeOK /\ k \in Keys
        /\ status[k] = "executing" /\ "approved" \in Outcomes
    BY DEF Provision, At, Inv, Locals, Local, Exclusive, Provisions, Outcomes
  <1>2. Decided(k, "approved")
    BY <1>1 DEF Inv, Rows
  <1>3. /\ application' \in [Keys -> Outcomes]
        /\ \A i \in Keys \ {k} : application'[i] = application[i]
        /\ application'[k] = IF application[k] = "pending_review" THEN "approved"
                             ELSE application[k]
        /\ UNCHANGED <<status, digest, home, approval, latest, expired, lapsed, world>>
    BY <1>1, FinalizeMoves DEF Provision
  <1>4. /\ pc' \in [Procs -> Steps] /\ job' \in [Procs -> Jobs] /\ Alone(p)
        /\ \/ pc'[p] = "idle"
           \/ pc'[p] = "succeed" /\ job' = job
        /\ Local(p)' /\ waiting' \subseteq Threads
    <2>1. CASE application[k] = "pending_review" /\ Continue(p, "succeed")
      <3>1. /\ pc' \in [Procs -> Steps] /\ job' \in [Procs -> Jobs] /\ Alone(p)
            /\ pc'[p] = "succeed" /\ job' = job /\ waiting' = waiting
        BY <1>1, <2>1, ContinueMoves DEF Steps
      <3>2. Local(p)'
        BY <1>1, <1>3, <2>1, <3>1 DEF Local
      <3>3. QED
        BY <1>1, <3>1, <3>2 DEF TypeOK
    <2>2. CASE Finish(p)
      BY <1>1, <2>2, FinishMoves
    <2>3. QED
      BY <2>1, <2>2 DEF Provision
  <1>5. TypeOK'
    BY <1>1, <1>3, <1>4 DEF TypeOK
  <1>6. \A q \in Procs \ {p} : pc[q] = "file" =>
          application'[job[q].key] = application[job[q].key]
    BY <1>3 DEF Inv, Locals, Local
  <1>7. Keeps(p) /\ Harmless(p)
    BY <1>1, <1>3, <1>4, <1>6 DEF Keeps, Harmless, Provisions, Decided
  <1>8. Rows' /\ TablesAgree'
    BY <1>1, <1>2, <1>3 DEF Inv, Rows, TablesAgree, Decided
  <1>9. QED
    BY <1>4, <1>5, <1>7, <1>8, KeepsLocals, HarmlessExclusive DEF Inv

LEMMA SucceedInv == ASSUME NEW p \in Procs, Inv, Succeed(p) PROVE Inv'
  <1> USE DEF asks, clock
  <1> DEFINE k == job[p].key
  <1>1. /\ pc[p] = "succeed" /\ Local(p) /\ TypeOK /\ k \in Keys
        /\ status[k] = "executing" /\ application[k] = "approved"
        /\ {"executing", "succeeded"} \subseteq Statuses
    BY DEF Succeed, At, Inv, Locals, Local, Exclusive, Provisions, Statuses
  <1>2. /\ status' \in [Keys -> Statuses] /\ status'[k] = "succeeded"
        /\ \A i \in Keys \ {k} : status'[i] = status[i]
        /\ UNCHANGED <<digest, home, application, approval, latest, expired, lapsed,
                       world>>
    BY <1>1, StatusMoves DEF Succeed
  <1>3. /\ pc' \in [Procs -> Steps] /\ job' \in [Procs -> Jobs] /\ Alone(p)
        /\ pc'[p] = "idle" /\ Local(p)' /\ waiting' \subseteq Threads
    BY <1>1, FinishMoves DEF Succeed
  <1>4. TypeOK'
    BY <1>1, <1>2, <1>3 DEF TypeOK
  <1>5. Keeps(p)
    BY <1>1, <1>2, <1>3 DEF Keeps, Decided
  <1>6. Exclusive'
    <2>1. \A q \in Procs : Provisions(q)' =>
            Provisions(q) /\ job'[q] = job[q] /\ job[q].key # k /\ job[q].key \in Keys
      <3>1. \A q \in Procs : Provisions(q)' =>
              q # p /\ Provisions(q) /\ job'[q] = job[q]
        BY <1>3 DEF Provisions, Alone
      <3>2. Provisions(p)
        BY <1>1 DEF Provisions
      <3>3. \A q \in Procs : Provisions(q) => job[q].key \in Keys
        BY DEF Inv, Locals, Local, Provisions
      <3>4. QED
        BY <3>1, <3>2, <3>3 DEF Inv, Exclusive
    <2>2. \A q \in Procs : pc'[q] = "file" => pc[q] = "file" /\ job'[q] = job[q]
      BY <1>3 DEF Alone
    <2>3. QED
      BY <1>2, <2>1, <2>2 DEF Inv, Exclusive
  <1>7. Rows' /\ TablesAgree'
    BY <1>1, <1>2 DEF Inv, Rows, TablesAgree, Decided
  <1>8. QED
    BY <1>3, <1>4, <1>5, <1>6, <1>7, KeepsLocals DEF Inv

LEMMA DecideInv ==
  ASSUME NEW p \in Procs, NEW k \in Keys, NEW a \in Procs, Inv, Decide(p, k, a)
  PROVE  Inv'
  <1> USE DEF clock
  <1>1. /\ TypeOK /\ approval[k][a] = "pending" /\ status[k] # "none"
        /\ home[k] \in Threads /\ pc[p] = "idle"
        /\ {"expired", "rejected", "approved"} \subseteq Verdicts
        /\ {"pending_approval", "approved", "cancelled"} \subseteq Statuses
    BY DEF Decide, At, Inv, Rows, Verdicts, Statuses
  <1>2. PICK v \in {"expired", "rejected", "approved"} :
          /\ approval' = [approval EXCEPT ![k][a] = v]
          /\ v = "expired" => UNCHANGED <<status, locals>>
          /\ v = "rejected" =>
               /\ SetStatus(k, "pending_approval", "cancelled")
               /\ job' = [job EXCEPT ![p] = [NoJob EXCEPT !.key = k]]
               /\ Goto(p, "reject")
          /\ v = "approved" =>
               /\ SetStatus(k, "pending_approval", "approved")
               /\ job' = [job EXCEPT ![p] = [NoJob EXCEPT
                    !.thread = home[k], !.resume = [key |-> k, approval |-> a]]]
               /\ Goto(p, "resume")
    BY DEF Decide, StatusAfter
  <1>3. /\ \A i \in Keys, b \in Procs :
             approval'[i][b] = IF i = k /\ b = a THEN v ELSE approval[i][b]
        /\ approval' \in [Keys -> [Procs -> Verdicts]]
    <2>1. approval \in [Keys -> [Procs -> Verdicts]] /\ v \in Verdicts
      BY <1>1 DEF TypeOK
    <2>2. \A i \in Keys, b \in Procs :
            approval'[i][b] = IF i = k /\ b = a THEN v ELSE approval[i][b]
      BY <1>2, <2>1
    <2>3. QED
      BY <1>2, <2>1, <2>2
  <1>4. /\ \A i \in Keys : \A x \in {"approved", "rejected"} :
             Decided(i, x) => Decided(i, x)'
        /\ v \in {"approved", "rejected"} => Decided(k, v)'
    BY <1>1, <1>3 DEF Decided
  <1>5. /\ status' \in [Keys -> Statuses]
        /\ \A i \in Keys \ {k} : status'[i] = status[i]
        /\ \/ status'[k] = status[k]
           \/ status[k] = "pending_approval" /\ status'[k] = "cancelled"
           \/ status[k] = "pending_approval" /\ status'[k] = "approved" /\ v = "approved"
        /\ UNCHANGED <<digest, home, application, latest, expired, lapsed, world,
                       waiting>>
    BY <1>1, <1>2, StatusMoves DEF TypeOK, Decide
  <1>6. /\ pc' \in [Procs -> Steps] /\ job' \in [Procs -> Jobs] /\ Alone(p)
        /\ pc'[p] \in {"idle", "reject", "resume"} /\ Local(p)'
    <2>1. CASE v = "expired"
      BY <1>1, <1>2, <2>1 DEF TypeOK, locals, Alone, Local
    <2>2. CASE v = "rejected"
      <3> DEFINE j == [NoJob EXCEPT !.key = k]
      <3>1. j \in Jobs /\ j.key = k
        BY DEF NoJob, Jobs
      <3> HIDE DEF j
      <3>2. /\ pc' \in [Procs -> Steps] /\ job' \in [Procs -> Jobs] /\ Alone(p)
            /\ pc'[p] = "reject" /\ job'[p] = j
        BY <1>1, <1>2, <2>2, <3>1, Moves DEF Steps, j
      <3>3. Local(p)'
        <4>1. Decided(job[p].key, "rejected")'
          BY <1>4, <2>2, <3>1, <3>2 DEF Decided
        <4>2. status'[k] # "none"
          BY <1>1, <1>5
        <4>3. QED
          BY <3>1, <3>2, <4>1, <4>2 DEF Local
      <3>4. QED
        BY <3>2, <3>3
    <2>3. CASE v = "approved"
      <3> DEFINE j == [NoJob EXCEPT !.thread = home[k],
                                    !.resume = [key |-> k, approval |-> a]]
      <3>1. j \in Jobs /\ j.thread = home[k]
        BY <1>1 DEF NoJob, Jobs, Requests
      <3> HIDE DEF j
      <3>2. /\ pc' \in [Procs -> Steps] /\ job' \in [Procs -> Jobs] /\ Alone(p)
            /\ pc'[p] = "resume" /\ job'[p] = j
        BY <1>1, <1>2, <2>3, <3>1, Moves DEF Steps, j
      <3>3. Local(p)'
        BY <1>1, <3>1, <3>2 DEF Local
      <3>4. QED
        BY <3>2, <3>3
    <2>4. QED
      BY <2>1, <2>2, <2>3
  <1>7. TypeOK'
    BY <1>1, <1>3, <1>5, <1>6 DEF TypeOK
  <1>8. Keeps(p) /\ Harmless(p)
    <2>1. \A i \in Keys, q \in Procs :
            approval[i][q] = "none" => approval'[i][q] = "none"
      BY <1>1, <1>3
    <2>2. QED
      BY <1>4, <1>5, <1>6, <2>1 DEF Keeps, Harmless, Provisions
  <1>9. Rows'
    <2>1. \A i \in Keys, b \in Procs : approval'[i][b] # "none" =>
            approval[i][b] # "none"
      BY <1>1, <1>3
    <2>2. QED
      BY <1>4, <1>5, <2>1 DEF Inv, Rows
  <1>10. TablesAgree'
    BY <1>4, <1>5 DEF Inv, TablesAgree
  <1>11. QED
    BY <1>6, <1>7, <1>8, <1>9, <1>10, KeepsLocals, HarmlessExclusive DEF Inv

-----------------------------------------------------------------------------
(* Steps around the requests.                                              *)

\* A step that leaves the tables and the requests alone.
LEMMA OutsideInv ==
  ASSUME Inv, TypeOK', UNCHANGED <<tables, locals>> PROVE Inv'
  <1> USE DEF tables, locals
  <1>1. Locals' /\ Exclusive'
    BY DEF Inv, Locals, Local, Exclusive, Provisions, Decided
  <1>2. Rows' /\ TablesAgree'
    BY DEF Inv, Rows, TablesAgree, Decided
  <1>3. QED
    BY <1>1, <1>2 DEF Inv

LEMMA ExpireInv == ASSUME NEW k \in Keys, Inv, Expire(k) PROVE Inv'
  <1>1. TypeOK'
    <2> USE DEF Expire, Inv, TypeOK
    <2>1. expired' \subseteq Keys
      OBVIOUS
    <2>2. lapsed' \subseteq Keys \X Procs
      <3>1. CASE UNCHANGED lapsed
        BY <3>1
      <3>2. CASE \E a \in Procs : lapsed' = lapsed \cup {<<k, a>>}
        <4> PICK a \in Procs : lapsed' = lapsed \cup {<<k, a>>}
          BY <3>2
        <4>1. <<k, a>> \in Keys \X Procs
          OBVIOUS
        <4>2. QED
          BY <4>1
      <3>3. QED
        BY <3>1, <3>2
    <2>3. QED
      BY <2>1, <2>2 DEF actions, asks, locals
  <1>2. QED
    BY <1>1, OutsideInv DEF Expire, actions, asks, tables

LEMMA WorldChangeInv == ASSUME Inv, WorldChange PROVE Inv'
  <1>1. TypeOK'
    BY DEF Inv, TypeOK, WorldChange, store, actions, asks, clock, locals
  <1>2. QED
    BY <1>1, OutsideInv DEF WorldChange, store, actions, asks, tables

LEMMA CrashInv == ASSUME Inv, Crash PROVE Inv'
  <1> USE DEF Crash, store, actions, asks, clock
  <1>1. TypeOK'
    BY NoJobType DEF Inv, TypeOK, Steps
  <1>2. Locals' /\ Exclusive'
    BY DEF Locals, Local, Exclusive, Provisions
  <1>3. Rows' /\ TablesAgree'
    BY DEF Inv, Rows, TablesAgree, Decided
  <1>4. QED
    BY <1>1, <1>2, <1>3 DEF Inv

LEMMA StepInv == ASSUME NEW p \in Procs, Inv, Step(p) PROVE Inv'
  BY SearchInv, LookupInv, InsertInv, FileInv, ApplicationInv, ApprovalsInv,
     RequestInv, InterruptInv, CheckInv, RefuseInv, ExecuteInv, AuthoriseInv,
     ClaimInv, ProvisionInv, SucceedInv, ResumeInv
  DEF Step

LEMMA NextInv == Inv /\ [Next]_vars => Inv'
  <1> SUFFICES ASSUME Inv, [Next]_vars PROVE Inv'
    OBVIOUS
  <1>1. CASE \E p \in Procs, t \in Threads : Message(p, t)
    BY <1>1, MessageInv
  <1>2. CASE \E p \in Procs, k \in Keys, a \in Procs : Decide(p, k, a)
    BY <1>2, DecideInv
  <1>3. CASE \E p \in Procs : Step(p)
    BY <1>3, StepInv
  <1>4. CASE \E k \in Keys : Expire(k)
    BY <1>4, ExpireInv
  <1>5. CASE WorldChange \/ Crash
    BY <1>5, WorldChangeInv, CrashInv
  <1>6. CASE UNCHANGED vars
    <2>1. TypeOK'
      BY <1>6 DEF vars, Inv, TypeOK
    <2>2. QED
      BY <1>6, <2>1, OutsideInv DEF vars, tables, locals
  <1>7. QED
    BY <1>1, <1>2, <1>3, <1>4, <1>5, <1>6 DEF Next

-----------------------------------------------------------------------------
(* The theorems.                                                           *)

\* The inductive invariant holds of every reachable state.
THEOREM InvHolds == Spec => []Inv
  BY InitInv, NextInv, PTL DEF Spec

\* Rows and local variables keep their types.
THEOREM TypeCorrect == Spec => []TypeOK
  <1>1. Inv => TypeOK
    BY DEF Inv
  <1>2. QED
    BY <1>1, InvHolds, PTL

\* The action and its application agree although application_propose,
\* application_execute and approval_resume write them in two transactions.
THEOREM TablesDoAgree == Spec => []TablesAgree
  <1>1. Inv => TablesAgree
    BY DEF Inv
  <1>2. QED
    BY <1>1, InvHolds, PTL

\* Of the requests that execute an approved action one provisions the account.
THEOREM ProvisionsAreExclusive == Spec => []ProvisionExclusive
  <1>1. Inv => ProvisionExclusive
    <2> SUFFICES ASSUME Inv, NEW k \in Keys
                 PROVE  LET W == {p \in Procs : pc[p] \in {"finalize", "succeed"}
                                                /\ job[p].key = k}
                        IN  Cardinality(W) <= 1 /\ (W # {} => status[k] = "executing")
      BY DEF ProvisionExclusive
    <2> DEFINE W == {p \in Procs : pc[p] \in {"finalize", "succeed"}
                                  /\ job[p].key = k}
    <2>1. \A p, q \in W : p = q
      BY DEF Inv, Exclusive, Provisions
    <2>2. Cardinality(W) <= 1
      <3>1. CASE W = {}
        BY <3>1, FS_EmptySet
      <3>2. CASE W # {}
        <4>1. PICK p \in W : W = {p}
          BY <2>1, <3>2
        <4>2. Cardinality({p}) = 1
          BY FS_Singleton
        <4>3. Cardinality(W) = 1
          BY <4>1, <4>2
        <4>4. QED
          BY <4>3
      <3>3. QED
        BY <3>1, <3>2
    <2>3. W # {} => status[k] = "executing"
      BY DEF Inv, Exclusive, Provisions
    <2>4. QED
      BY <2>2, <2>3
  <1>2. QED
    BY <1>1, InvHolds, PTL

-----------------------------------------------------------------------------
(* What a step may never do.                                               *)

\* A step writes an application that is absent or pending, or none.
LEMMA OutcomesKept ==
  Inv /\ [Next]_vars =>
    \A k \in Keys : application[k] \in {"approved", "rejected"} =>
      application'[k] = application[k]
  <1> SUFFICES ASSUME Inv, [Next]_vars, NEW k \in Keys,
                      application[k] \in {"approved", "rejected"}
               PROVE  application'[k] = application[k]
    OBVIOUS
  <1>1. CASE UNCHANGED application
    BY <1>1
  <1>2. CASE \E p \in Procs : File(p) \/ Refuse(p) \/ Provision(p)
    <2> PICK p \in Procs : File(p) \/ Refuse(p) \/ Provision(p)
      BY <1>2
    <2>1. TypeOK /\ Local(p)
      BY DEF Inv, Locals
    <2>2. CASE File(p)
      BY <2>1, <2>2 DEF File, At, Local, TypeOK
    <2>3. CASE Refuse(p) \/ Provision(p)
      BY <2>1, <2>3 DEF Refuse, Provision, Finalize, TypeOK
    <2>4. QED
      BY <2>2, <2>3
  <1>3. [Next]_vars =>
          UNCHANGED application
          \/ \E p \in Procs : File(p) \/ Refuse(p) \/ Provision(p)
    <2> USE DEF store, actions, asks, clock
    <2>1. CASE \E p \in Procs, t \in Threads : Message(p, t)
      BY <2>1 DEF Message
    <2>2. CASE \E p \in Procs, i \in Keys, a \in Procs : Decide(p, i, a)
      BY <2>2 DEF Decide
    <2>3. CASE \E p \in Procs : Step(p)
      <3> PICK p \in Procs : Step(p)
        BY <2>3
      <3>1. CASE Search(p) \/ Lookup(p) \/ Insert(p) \/ Application(p) \/ Approvals(p)
                 \/ Request(p) \/ Interrupt(p)
        BY <3>1 DEF Search, Lookup, Insert, Application, Approvals, Request, Interrupt
      <3>2. CASE Check(p) \/ Execute(p) \/ Authorise(p) \/ Claim(p) \/ Succeed(p)
                 \/ Resume(p)
        BY <3>2 DEF Check, Execute, Authorise, Claim, Succeed, Resume
      <3>3. QED
        BY <3>1, <3>2 DEF Step
    <2>4. CASE \E i \in Keys : Expire(i)
      BY <2>4 DEF Expire
    <2>5. CASE WorldChange \/ Crash \/ UNCHANGED vars
      BY <2>5 DEF WorldChange, Crash, vars
    <2>6. QED
      BY <2>1, <2>2, <2>3, <2>4, <2>5 DEF Next
  <1>4. QED
    BY <1>1, <1>2, <1>3

\* An applicant is told one outcome.
THEOREM OutcomesStay == Spec => OutcomeStays
  BY InvHolds, OutcomesKept, PTL DEF Spec, OutcomeStays

-----------------------------------------------------------------------------
(* What the policy evidence decides: which applications are reviewed, and  *)
(* which action a resumed tool finds.                                      *)

Searched(p) == pc[p] \notin {"idle", "resume", "reject", "search"}
Proposed(p) == Searched(p) /\ pc[p] \notin {"lookup", "insert"}

\* How the row of an action and its key follow from the evidence: only an
\* action of evidence that grounds it is ever pending, asked for or filed.
RowIsGrounded(k) ==
  /\ status[k] # "none" => KeyOf[home[k], digest[k]] = k
  /\ ~Permitted(digest[k]) =>
       /\ status[k] \in {"none", "denied"}
       /\ application[k] \in {"none", "rejected"}
       /\ \A a \in Procs : approval[k][a] = "none"

\* What a request knows of the evidence.
KnowsEvidence(p) ==
  /\ Searched(p) => job[p].key = KeyOf[job[p].thread, job[p].world]
  /\ Proposed(p) => digest[job[p].key] = job[p].world
  /\ pc[p] = "request" => Permitted(job[p].world)
  /\ job[p].resume # None =>
       /\ status[job[p].resume.key] # "none"
       /\ job[p].thread = home[job[p].resume.key]

Evidence == (\A k \in Keys : RowIsGrounded(k)) /\ (\A p \in Procs : KnowsEvidence(p))

\* A row that is there keeps its key's evidence and conversation.
Lasting ==
  \A k \in Keys : status[k] # "none" =>
    status'[k] # "none" /\ digest'[k] = digest[k] /\ home'[k] = home[k]

\* A step that starts no review: it inserts no action, asks for no approval and
\* files no application.
StartsNothing ==
  /\ UNCHANGED <<digest, home>>
  /\ \A k \in Keys :
       /\ status'[k] = status[k] \/ {status[k], status'[k]} \cap {"none", "denied"} = {}
       /\ application'[k] = application[k] \/ application[k] = "pending_review"
       /\ \A a \in Procs : approval[k][a] = "none" => approval'[k][a] = "none"

LEMMA NothingStarted ==
  ASSUME Inv, Evidence, StartsNothing
  PROVE  Lasting /\ (\A k \in Keys : RowIsGrounded(k)')
  <1>1. Lasting
    BY DEF StartsNothing, Lasting
  <1>2. ASSUME NEW k \in Keys PROVE RowIsGrounded(k)'
    <2>1. RowIsGrounded(k)
      BY DEF Evidence
    <2>2. Permitted(digest[k])' <=> Permitted(digest[k])
      BY DEF StartsNothing, Permitted
    <2>3. status[k] # "none" => KeyOf[home[k], digest[k]]' = k
      BY <2>1 DEF RowIsGrounded, StartsNothing
    <2>4. status'[k] # "none" => status[k] # "none"
      BY DEF StartsNothing
    <2>5. QED
      BY <2>1, <2>2, <2>3, <2>4 DEF RowIsGrounded, StartsNothing
  <1>3. QED
    BY <1>1, <1>2

\* What the other requests know of the evidence lasts.
LEMMA OthersKnow ==
  ASSUME NEW p \in Procs, Inv, Evidence, Lasting, Alone(p), KnowsEvidence(p)',
         \A k \in Keys : RowIsGrounded(k)'
  PROVE  Evidence'
  <1>1. ASSUME NEW q \in Procs, q # p PROVE KnowsEvidence(q)'
    <2>1. /\ pc'[q] = pc[q] /\ job'[q] = job[q] /\ KnowsEvidence(q) /\ Local(q)
          /\ job[q] \in Jobs
      BY <1>1 DEF Alone, Evidence, Inv, Locals, TypeOK
    <2>2. Proposed(q) => job[q].key \in Keys /\ status[job[q].key] # "none"
      BY <2>1 DEF Proposed, Searched, Local
    <2>3. job[q].resume # None => job[q].resume.key \in Keys
      BY <2>1 DEF Jobs, Requests
    <2>4. QED
      BY <2>1, <2>2, <2>3 DEF KnowsEvidence, Searched, Proposed, Lasting
  <1>2. QED
    BY <1>1 DEF Evidence

\* A request that ends knows nothing.
LEMMA LeaveKnows ==
  ASSUME TypeOK, NEW p \in Procs, Leave(p) \/ Finish(p)
  PROVE  Alone(p) /\ KnowsEvidence(p)'
  <1>1. Leave(p)
    BY DEF Finish
  <1>2. pc'[p] = "idle" /\ job'[p] = NoJob /\ Alone(p)
    BY <1>1, NoJobType, Moves DEF Leave, Steps
  <1>3. QED
    BY <1>2, NoJobType DEF KnowsEvidence, Searched, Proposed

\* A request that has proposed its action goes on with the same evidence.
LEMMA ProposedKnows ==
  ASSUME Inv, Evidence, Lasting, NEW p \in Procs, Proposed(p), Alone(p),
         NEW j \in Jobs, job'[p] = j, j.key = job[p].key, j.thread = job[p].thread,
         j.world = job[p].world, j.resume = job[p].resume,
         pc'[p] = "request" => Permitted(job[p].world)
  PROVE  KnowsEvidence(p)'
  <1>1. KnowsEvidence(p) /\ Local(p) /\ job[p] \in Jobs
    BY DEF Evidence, Inv, Locals, TypeOK
  <1>2. job[p].key \in Keys /\ status[job[p].key] # "none"
    BY <1>1 DEF Proposed, Searched, Local
  <1>3. job[p].resume # None => job[p].resume.key \in Keys
    BY <1>1 DEF Jobs, Requests
  <1>4. Searched(p)
    BY DEF Proposed
  <1>5. digest'[job[p].key] = job[p].world
    BY <1>1, <1>2 DEF KnowsEvidence, Lasting
  <1>6. job'[p].resume # None => /\ status'[job'[p].resume.key] # "none"
                                 /\ job'[p].thread = home'[job'[p].resume.key]
    BY <1>1, <1>3 DEF KnowsEvidence, Lasting
  <1>7. QED
    BY <1>1, <1>4, <1>5, <1>6 DEF KnowsEvidence, Permitted

\* The ways in which a request that has proposed its action moves.
LEMMA MovesOn ==
  ASSUME Inv, Evidence, Lasting, NEW p \in Procs, Proposed(p), NEW s \in Steps,
         Continue(p, s) \/ Finish(p) \/ Leave(p),
         s = "request" => Permitted(job[p].world)
  PROVE  Alone(p) /\ KnowsEvidence(p)'
  <1>1. TypeOK /\ job[p] \in Jobs
    BY DEF Inv, TypeOK
  <1>2. CASE Continue(p, s)
    <2>1. pc'[p] = s /\ job' = job /\ Alone(p)
      BY <1>1, <1>2, ContinueMoves
    <2>2. QED
      BY <1>1, <2>1, ProposedKnows
  <1>3. QED
    BY <1>1, <1>2, LeaveKnows

-----------------------------------------------------------------------------

LEMMA InitEvidence == Init => Evidence
  BY NoJobType DEF Init, Evidence, RowIsGrounded, KnowsEvidence, Searched, Proposed

\* Steps of a request that leave the store alone.
LEMMA ReadsEvidence ==
  ASSUME Inv, Evidence, NEW p \in Procs, UNCHANGED <<store, world>>,
         Lasting => Alone(p) /\ KnowsEvidence(p)'
  PROVE  Evidence'
  <1>1. StartsNothing
    BY DEF StartsNothing, store, actions, asks
  <1>2. QED
    BY <1>1, NothingStarted, OthersKnow

LEMMA MessageEvidence ==
  ASSUME Inv, Evidence, NEW p \in Procs, NEW t \in Threads, Message(p, t)
  PROVE  Evidence'
  <1> DEFINE j == [NoJob EXCEPT !.thread = t]
  <1>1. j \in Jobs /\ j.resume = None
    BY DEF NoJob, Jobs
  <1>2. TypeOK /\ "search" \in Steps
    BY DEF Inv, Steps
  <1>3. job' = [job EXCEPT ![p] = j] /\ Goto(p, "search") /\ UNCHANGED <<store, world>>
    BY DEF Message
  <1> HIDE DEF j
  <1>4. pc'[p] = "search" /\ job'[p] = j /\ Alone(p)
    BY <1>1, <1>2, <1>3, Moves
  <1>5. KnowsEvidence(p)'
    BY <1>1, <1>4 DEF KnowsEvidence, Searched, Proposed
  <1>6. QED
    BY <1>3, <1>4, <1>5, ReadsEvidence

LEMMA SearchEvidence ==
  ASSUME Inv, Evidence, NEW p \in Procs, Search(p) PROVE Evidence'
  <1> DEFINE j == [job[p] EXCEPT !.world = world,
                                 !.key = KeyOf[job[p].thread, world]]
  <1>1. /\ job[p] \in Jobs /\ job[p].thread \in Threads /\ world \in Worlds
        /\ TypeOK /\ "lookup" \in Steps /\ KnowsEvidence(p)
    BY DEF Inv, TypeOK, Locals, Local, Search, At, Steps, Evidence
  <1>2. KeyOf[job[p].thread, world] \in Keys
    BY <1>1, OnboardingAssumption
  <1>3. /\ j \in Jobs /\ j.thread = job[p].thread /\ j.world = world
        /\ j.key = KeyOf[job[p].thread, world] /\ j.resume = job[p].resume
    BY <1>1, <1>2 DEF Jobs
  <1>4. job' = [job EXCEPT ![p] = j] /\ Goto(p, "lookup") /\ UNCHANGED <<store, world>>
    BY <1>1 DEF Search, TypeOK
  <1> HIDE DEF j
  <1>5. pc'[p] = "lookup" /\ job'[p] = j /\ Alone(p)
    BY <1>1, <1>3, <1>4, Moves
  <1>6. KnowsEvidence(p)'
    BY <1>1, <1>3, <1>4, <1>5
    DEF KnowsEvidence, Searched, Proposed, store, actions
  <1>7. QED
    BY <1>4, <1>5, <1>6, ReadsEvidence

LEMMA LookupEvidence ==
  ASSUME Inv, Evidence, NEW p \in Procs, Lookup(p) PROVE Evidence'
  <1>1. /\ pc[p] = "lookup" /\ TypeOK /\ KnowsEvidence(p)
        /\ {"insert", "application"} \subseteq Steps /\ UNCHANGED <<store, world>>
    BY DEF Lookup, At, Inv, Steps, Evidence
  <1>2. CASE Finish(p)
    BY <1>1, <1>2, LeaveKnows, ReadsEvidence
  <1>3. CASE ~Finish(p)
    <2>1. PICK s \in {"insert", "application"} :
            Continue(p, s) /\ (s = "application" => digest[job[p].key] = job[p].world)
      BY <1>3 DEF Lookup
    <2>2. pc'[p] = s /\ job' = job /\ Alone(p)
      BY <1>1, <2>1, ContinueMoves
    <2>3. KnowsEvidence(p)'
      BY <1>1, <2>1, <2>2 DEF KnowsEvidence, Searched, Proposed, store, actions
    <2>4. QED
      BY <1>1, <2>2, <2>3, ReadsEvidence
  <1>4. QED
    BY <1>2, <1>3

LEMMA ApplicationEvidence ==
  ASSUME Inv, Evidence, NEW p \in Procs, Application(p) PROVE Evidence'
  <1> DEFINE b == application[job[p].key] # "none"
             j == [job[p] EXCEPT !.filed = b]
  <1>1. /\ Proposed(p) /\ TypeOK /\ job[p] \in Jobs /\ "approvals" \in Steps
        /\ b \in BOOLEAN
    BY DEF Application, At, Inv, Steps, TypeOK, Proposed, Searched
  <1>2. job' = [job EXCEPT ![p] = j] /\ Goto(p, "approvals")
        /\ UNCHANGED <<store, world>>
    BY DEF Application
  <1> HIDE DEF b
  <1>3. /\ j \in Jobs /\ j.key = job[p].key /\ j.thread = job[p].thread
        /\ j.world = job[p].world /\ j.resume = job[p].resume
    BY <1>1 DEF Jobs
  <1> HIDE DEF j
  <1>4. pc'[p] = "approvals" /\ job'[p] = j /\ Alone(p)
    BY <1>1, <1>2, <1>3, Moves
  <1>5. QED
    BY <1>1, <1>2, <1>3, <1>4, ProposedKnows, ReadsEvidence

LEMMA ApprovalsEvidence ==
  ASSUME Inv, Evidence, NEW p \in Procs, Approvals(p) PROVE Evidence'
  <1> DEFINE k == job[p].key
             a == latest[k]
             j == [job[p] EXCEPT !.seen = a]
  <1>1. /\ Proposed(p) /\ pc[p] = "approvals" /\ TypeOK /\ job[p] \in Jobs
        /\ k \in Keys /\ {"request", "interrupt", "check"} \subseteq Steps
        /\ UNCHANGED <<store, world>>
    BY DEF Approvals, At, Inv, Locals, Local, Steps, TypeOK, Proposed, Searched
  <1>2. CASE Finish(p) \/ (Permitted(job[p].world) /\ Continue(p, "request"))
    BY <1>1, <1>2, MovesOn, ReadsEvidence
  <1>3. CASE /\ a # None /\ job' = [job EXCEPT ![p] = j]
             /\ \E s \in {"interrupt", "check"} : Goto(p, s)
    <2>1. a \in Procs
      BY <1>1, <1>3 DEF TypeOK
    <2>2. /\ j \in Jobs /\ j.key = job[p].key /\ j.thread = job[p].thread
          /\ j.world = job[p].world /\ j.resume = job[p].resume
      BY <1>1, <2>1 DEF Jobs
    <2> HIDE DEF j
    <2>3. PICK s \in {"interrupt", "check"} : Goto(p, s)
      BY <1>3
    <2>4. pc'[p] = s /\ job'[p] = j /\ Alone(p)
      BY <1>1, <1>3, <2>2, <2>3, Moves
    <2>5. QED
      BY <1>1, <2>2, <2>4, ProposedKnows, ReadsEvidence
  <1>4. \/ Finish(p)
        \/ Permitted(job[p].world) /\ Continue(p, "request")
        \/ /\ a # None /\ job' = [job EXCEPT ![p].seen = a]
           /\ \E s \in {"interrupt", "check"} : Goto(p, s)
    BY DEF Approvals
  <1>5. job' = [job EXCEPT ![p].seen = a] => job' = [job EXCEPT ![p] = j]
    BY <1>1 DEF TypeOK
  <1>6. QED
    BY <1>2, <1>3, <1>4, <1>5

\* Interrupt, check and authorise: they go on or end.
LEMMA ReadsOn ==
  ASSUME Inv, Evidence, NEW p \in Procs, Interrupt(p) \/ Check(p) \/ Authorise(p)
  PROVE  Evidence'
  <1>1. Proposed(p) /\ UNCHANGED <<store, world>>
    BY DEF Interrupt, Check, Authorise, At, Proposed, Searched
  <1>2. PICK s \in {"check", "refuse", "execute", "claim"} :
          Continue(p, s) \/ Finish(p) \/ Leave(p)
    BY DEF Interrupt, Check, Authorise
  <1>3. s \in Steps /\ s # "request"
    BY <1>2 DEF Steps
  <1>4. QED
    BY <1>1, <1>2, <1>3, MovesOn, ReadsEvidence

\* Steps that move an action or an application that is under way.
LEMMA WritesEvidence ==
  ASSUME Inv, Evidence, NEW p \in Procs, Proposed(p), StartsNothing, NEW s \in Steps,
         Continue(p, s) \/ Finish(p) \/ Leave(p), s # "request"
  PROVE  Evidence'
  BY NothingStarted, MovesOn, OthersKnow

LEMMA RefuseEvidence ==
  ASSUME Inv, Evidence, NEW p \in Procs, Refuse(p) PROVE Evidence'
  <1>1. job[p].key \in Keys /\ TypeOK
    BY DEF Refuse, Inv, Locals, Local
  <1>2. StartsNothing
    <2>1. UNCHANGED <<status, digest, home, approval>>
          /\ Finalize(job[p].key, "rejected") /\ "rejected" \in Outcomes
      BY DEF Refuse, actions, asks, Outcomes
    <2>2. \A k \in Keys :
            application'[k] = application[k] \/ application[k] = "pending_review"
      BY <1>1, <2>1, FinalizeMoves
    <2>3. QED
      BY <2>1, <2>2 DEF StartsNothing
  <1>3. Leave(p) \/ Finish(p)
    BY DEF Refuse
  <1>4. QED
    BY <1>1, <1>2, <1>3, LeaveKnows, NothingStarted, OthersKnow

LEMMA ExecuteEvidence ==
  ASSUME Inv, Evidence, NEW p \in Procs, Execute(p) \/ Claim(p) \/ Succeed(p)
  PROVE  Evidence'
  <1>1. /\ Proposed(p) /\ TypeOK /\ job[p].key \in Keys
        /\ {"authorise", "finalize"} \subseteq Steps
        /\ {"approved", "cancelled", "executing", "succeeded"} \subseteq Statuses
        /\ UNCHANGED <<digest, home, application, asks>>
    BY DEF Execute, Claim, Succeed, At, Proposed, Searched, Inv, Locals, Local,
           Steps, Statuses
  <1>2. PICK s \in {"authorise", "finalize"} : Continue(p, s) \/ Finish(p)
    BY DEF Execute, Claim, Succeed
  <1>3. \A k \in Keys :
          status'[k] = status[k] \/ {status[k], status'[k]} \cap {"none", "denied"} = {}
    <2>1. CASE Execute(p) \/ Succeed(p)
      <3>1. PICK old \in {"approved", "executing"}, new \in {"cancelled", "succeeded"} :
              UNCHANGED status \/ SetStatus(job[p].key, old, new)
        BY <2>1 DEF Execute, Succeed
      <3>2. QED
        BY <1>1, <3>1, StatusMoves
    <2>2. CASE Claim(p)
      BY <1>1, <2>2 DEF Claim, Claimable, TypeOK
    <2>3. QED
      BY <2>1, <2>2
  <1>4. StartsNothing
    BY <1>1, <1>3 DEF StartsNothing, asks
  <1>5. s # "request"
    BY <1>2
  <1>6. QED
    BY <1>1, <1>2, <1>4, <1>5, WritesEvidence

LEMMA ProvisionEvidence ==
  ASSUME Inv, Evidence, NEW p \in Procs, Provision(p) PROVE Evidence'
  <1>1. /\ Proposed(p) /\ TypeOK /\ job[p].key \in Keys /\ "succeed" \in Steps
        /\ UNCHANGED <<status, digest, home, approval>>
        /\ Finalize(job[p].key, "approved") /\ "approved" \in Outcomes
        /\ Continue(p, "succeed") \/ Finish(p)
    BY DEF Provision, At, Proposed, Searched, Inv, Locals, Local, Steps, Outcomes,
           actions, asks
  <1>2. \A k \in Keys :
          application'[k] = application[k] \/ application[k] = "pending_review"
    BY <1>1, FinalizeMoves
  <1>3. StartsNothing
    BY <1>1, <1>2 DEF StartsNothing
  <1>4. QED
    BY <1>1, <1>3, WritesEvidence

\* action_insert: the row has the key of its evidence, and is denied unless the
\* evidence grounds the application.
LEMMA InsertEvidence ==
  ASSUME Inv, Evidence, NEW p \in Procs, Insert(p) PROVE Evidence'
  <1> DEFINE k == job[p].key
  <1>1. /\ pc[p] = "insert" /\ TypeOK /\ k \in Keys /\ KnowsEvidence(p) /\ Searched(p)
        /\ job[p] \in Jobs /\ "file" \in Steps
        /\ UNCHANGED <<application, asks, world>>
    BY DEF Insert, At, Inv, Locals, Local, Evidence, Searched, TypeOK, Steps
  <1>2. CASE Finish(p) /\ UNCHANGED actions
    <2>1. StartsNothing
      BY <1>1, <1>2 DEF StartsNothing, actions, asks
    <2>2. QED
      BY <1>1, <1>2, <2>1, NothingStarted, LeaveKnows, OthersKnow
  <1>3. CASE Free(k) /\ ~Finish(p)
    <2>1. /\ status[k] = "none" /\ Continue(p, "file")
          /\ status' = [status EXCEPT ![k] =
               IF Permitted(job[p].world) THEN "pending_approval" ELSE "denied"]
          /\ digest' = [digest EXCEPT ![k] = job[p].world]
          /\ home' = [home EXCEPT ![k] = job[p].thread]
      BY <1>3 DEF Insert, Free
    <2>2. /\ \A i \in Keys \ {k} :
               status'[i] = status[i] /\ digest'[i] = digest[i] /\ home'[i] = home[i]
          /\ status'[k] = IF Permitted(job[p].world) THEN "pending_approval" ELSE "denied"
          /\ digest'[k] = job[p].world /\ home'[k] = job[p].thread
      BY <1>1, <2>1 DEF TypeOK
    <2>3. Lasting
      BY <2>1, <2>2 DEF Lasting
    <2>4. pc'[p] = "file" /\ job' = job /\ Alone(p)
      BY <1>1, <2>1, ContinueMoves
    <2>5. KnowsEvidence(p)'
      <3>1. job[p].resume # None => job[p].resume.key \in Keys
        BY <1>1 DEF Jobs, Requests
      <3>2. job[p].resume # None => /\ status'[job[p].resume.key] # "none"
                                    /\ job[p].thread = home'[job[p].resume.key]
        BY <1>1, <2>3, <3>1 DEF KnowsEvidence, Lasting
      <3>3. job[p].key = KeyOf[job[p].thread, job[p].world]
        BY <1>1 DEF KnowsEvidence
      <3>4. QED
        BY <2>2, <2>4, <3>2, <3>3 DEF KnowsEvidence
    <2>6. ASSUME NEW i \in Keys PROVE RowIsGrounded(i)'
      <3>1. CASE i = k
        <4>1. application[k] = "none" /\ \A a \in Procs : approval[k][a] = "none"
          BY <1>1, <2>1 DEF Inv, Rows
        <4>2. KeyOf[job[p].thread, job[p].world] = k
          BY <1>1 DEF KnowsEvidence
        <4>3. QED
          BY <1>1, <2>2, <3>1, <4>1, <4>2 DEF RowIsGrounded, Permitted, asks
      <3>2. CASE i # k
        <4>1. RowIsGrounded(i)
          BY DEF Evidence
        <4>2. QED
          BY <1>1, <2>2, <3>2, <4>1 DEF RowIsGrounded, Permitted, asks
      <3>3. QED
        BY <3>1, <3>2
    <2>7. QED
      BY <2>3, <2>4, <2>5, <2>6, OthersKnow
  <1>4. Free(k) \/ (Finish(p) /\ UNCHANGED actions)
    BY DEF Insert
  <1>5. Finish(p) => ~Continue(p, "file")
    BY <1>1, FinishMoves, ContinueMoves
  <1>6. Finish(p) => UNCHANGED actions
    BY <1>5 DEF Insert
  <1>7. QED
    BY <1>2, <1>3, <1>4, <1>6

\* onboarding_application_insert: pending only if the evidence grounds it.
LEMMA FileEvidence ==
  ASSUME Inv, Evidence, NEW p \in Procs, File(p) PROVE Evidence'
  <1> DEFINE k == job[p].key
             v == IF Permitted(job[p].world) THEN "pending_review" ELSE "rejected"
  <1>1. /\ Proposed(p) /\ TypeOK /\ k \in Keys /\ "application" \in Steps
        /\ KnowsEvidence(p) /\ UNCHANGED <<status, digest, home, approval>>
        /\ application' = [application EXCEPT ![k] = v]
        /\ Continue(p, "application")
    BY DEF File, At, Inv, Locals, Local, Evidence, Proposed, Searched, Steps,
           actions, asks
  <1>2. digest[k] = job[p].world
    BY <1>1 DEF KnowsEvidence
  <1>3. \A i \in Keys : application'[i] = IF i = k THEN v ELSE application[i]
    BY <1>1 DEF TypeOK
  <1>4. Lasting
    BY <1>1 DEF Lasting
  <1>5. Alone(p) /\ KnowsEvidence(p)'
    BY <1>1, <1>4, MovesOn
  <1>6. ASSUME NEW i \in Keys PROVE RowIsGrounded(i)'
    <2>1. RowIsGrounded(i)
      BY DEF Evidence
    <2>2. i = k /\ ~Permitted(digest[i]) => application'[i] = "rejected"
      BY <1>2, <1>3
    <2>3. QED
      BY <1>1, <1>3, <2>1, <2>2 DEF RowIsGrounded, Permitted
  <1>7. QED
    BY <1>4, <1>5, <1>6, OthersKnow

\* approval_insert: only of an application that the evidence grounds.
LEMMA RequestEvidence ==
  ASSUME Inv, Evidence, NEW p \in Procs, Request(p) PROVE Evidence'
  <1> DEFINE k == job[p].key
             j == [job[p] EXCEPT !.seen = p]
  <1>1. /\ Proposed(p) /\ TypeOK /\ k \in Keys /\ KnowsEvidence(p)
        /\ pc[p] = "request" /\ job[p] \in Jobs
        /\ UNCHANGED <<status, digest, home, application>>
        /\ approval' = [approval EXCEPT ![k][p] = "pending"]
    BY DEF Request, At, Inv, TypeOK, Locals, Local, Evidence, Proposed, Searched,
           actions
  <1>2. digest[k] = job[p].world /\ Permitted(job[p].world)
    BY <1>1 DEF KnowsEvidence
  <1>3. \A i \in Keys : i # k => approval'[i] = approval[i]
    BY <1>1 DEF TypeOK
  <1>4. Lasting
    BY <1>1 DEF Lasting
  <1>5. Alone(p) /\ KnowsEvidence(p)'
    <2>1. CASE Finish(p)
      BY <1>1, <2>1, LeaveKnows
    <2>2. CASE ~Finish(p)
      <3>1. Goto(p, "interrupt") /\ job' = [job EXCEPT ![p] = j]
            /\ "interrupt" \in Steps
        BY <1>1, <2>2 DEF Request, TypeOK, Steps
      <3>2. /\ j \in Jobs /\ j.key = job[p].key /\ j.thread = job[p].thread
            /\ j.world = job[p].world /\ j.resume = job[p].resume
        BY <1>1 DEF Jobs
      <3> HIDE DEF j
      <3>3. pc'[p] = "interrupt" /\ job'[p] = j /\ Alone(p)
        BY <1>1, <3>1, <3>2, Moves
      <3>4. QED
        BY <1>1, <1>4, <3>2, <3>3, ProposedKnows
    <2>3. QED
      BY <2>1, <2>2
  <1>6. ASSUME NEW i \in Keys PROVE RowIsGrounded(i)'
    <2>1. RowIsGrounded(i)
      BY DEF Evidence
    <2>2. ~Permitted(digest[i]) => i # k
      BY <1>2
    <2>3. QED
      BY <1>1, <1>3, <2>1, <2>2 DEF RowIsGrounded, Permitted
  <1>7. QED
    BY <1>4, <1>5, <1>6, OthersKnow

\* A decision resumes the conversation of the action it decides.
LEMMA DecideEvidence ==
  ASSUME Inv, Evidence, NEW p \in Procs, NEW k \in Keys, NEW a \in Procs,
         Decide(p, k, a)
  PROVE  Evidence'
  <1>1. /\ TypeOK /\ approval[k][a] = "pending" /\ status[k] # "none"
        /\ home[k] \in Threads /\ pc[p] = "idle" /\ KnowsEvidence(p)
        /\ UNCHANGED <<digest, home, application>>
        /\ {"reject", "resume"} \subseteq Steps
        /\ {"pending_approval", "approved", "cancelled"} \subseteq Statuses
    BY DEF Decide, At, Inv, Rows, Steps, Statuses, Evidence
  <1>2. \A i \in Keys, b \in Procs : approval[i][b] = "none" => approval'[i][b] = "none"
    <2>1. PICK v : approval' = [approval EXCEPT ![k][a] = v]
      BY DEF Decide
    <2>2. approval \in [Keys -> [Procs -> Verdicts]]
      BY <1>1 DEF TypeOK
    <2>3. QED
      BY <1>1, <2>1, <2>2
  <1>3. \A i \in Keys :
          status'[i] = status[i] \/ {status[i], status'[i]} \cap {"none", "denied"} = {}
    <2>1. UNCHANGED status \/ \E new \in {"approved", "cancelled"} :
            SetStatus(k, "pending_approval", new)
      BY DEF Decide, StatusAfter
    <2>2. QED
      BY <1>1, <2>1, StatusMoves
  <1>4. StartsNothing
    BY <1>1, <1>2, <1>3 DEF StartsNothing
  <1>5. Lasting
    BY <1>4, NothingStarted
  <1>6. Alone(p) /\ KnowsEvidence(p)'
    <2>1. CASE UNCHANGED locals
      BY <1>1, <1>5, <2>1, NothingStarted
      DEF locals, Alone, KnowsEvidence, Searched, Proposed, Lasting, TypeOK, Jobs, Requests
    <2>2. CASE job' = [job EXCEPT ![p] = [NoJob EXCEPT !.key = k]] /\ Goto(p, "reject")
      <3> DEFINE j == [NoJob EXCEPT !.key = k]
      <3>1. j \in Jobs /\ j.resume = None
        BY DEF NoJob, Jobs
      <3> HIDE DEF j
      <3>2. pc'[p] = "reject" /\ job'[p] = j /\ Alone(p)
        BY <1>1, <2>2, <3>1, Moves DEF j
      <3>3. QED
        BY <3>1, <3>2 DEF KnowsEvidence, Searched, Proposed
    <2>3. CASE /\ job' = [job EXCEPT ![p] = [NoJob EXCEPT
                    !.thread = home[k], !.resume = [key |-> k, approval |-> a]]]
               /\ Goto(p, "resume")
      <3> DEFINE j == [NoJob EXCEPT !.thread = home[k],
                                    !.resume = [key |-> k, approval |-> a]]
      <3>1. j \in Jobs /\ j.thread = home[k] /\ j.resume.key = k
        BY <1>1 DEF NoJob, Jobs, Requests
      <3> HIDE DEF j
      <3>2. pc'[p] = "resume" /\ job'[p] = j /\ Alone(p)
        BY <1>1, <2>3, <3>1, Moves DEF j
      <3>3. status'[k] # "none" /\ home'[k] = home[k]
        BY <1>1, <1>5 DEF Lasting
      <3>4. QED
        BY <3>1, <3>2, <3>3 DEF KnowsEvidence, Searched, Proposed
    <2>4. QED
      BY <2>1, <2>2, <2>3 DEF Decide
  <1>7. QED
    BY <1>4, <1>5, <1>6, NothingStarted, OthersKnow

LEMMA ResumeEvidence ==
  ASSUME Inv, Evidence, NEW p \in Procs, Resume(p) PROVE Evidence'
  <1>1. TypeOK /\ KnowsEvidence(p) /\ "search" \in Steps /\ UNCHANGED <<store, world>>
    BY DEF Resume, Inv, Evidence, Steps
  <1>2. CASE Leave(p)
    BY <1>1, <1>2, LeaveKnows, ReadsEvidence
  <1>3. CASE Continue(p, "search")
    <2>1. pc'[p] = "search" /\ job' = job /\ Alone(p)
      BY <1>1, <1>3, ContinueMoves
    <2>2. KnowsEvidence(p)'
      BY <1>1, <2>1 DEF KnowsEvidence, Searched, Proposed, store, actions
    <2>3. QED
      BY <1>1, <2>1, <2>2, ReadsEvidence
  <1>4. QED
    BY <1>2, <1>3 DEF Resume

\* A step of no request; after a crash no request knows anything.
LEMMA OutsideEvidence ==
  ASSUME Inv, Evidence, UNCHANGED <<actions, application, asks>>,
         \A p \in Procs : KnowsEvidence(p)'
  PROVE  Evidence'
  <1>1. \A k \in Keys : RowIsGrounded(k)'
    BY DEF Evidence, RowIsGrounded, Permitted, actions, asks
  <1>2. QED
    BY <1>1 DEF Evidence

LEMMA StepEvidence == ASSUME Inv, Evidence, NEW p \in Procs, Step(p) PROVE Evidence'
  <1>1. CASE Search(p) \/ Lookup(p) \/ Insert(p) \/ File(p) \/ Application(p)
             \/ Approvals(p) \/ Request(p) \/ Resume(p)
    BY <1>1, SearchEvidence, LookupEvidence, InsertEvidence, FileEvidence,
       ApplicationEvidence, ApprovalsEvidence, RequestEvidence, ResumeEvidence
  <1>2. CASE Interrupt(p) \/ Check(p) \/ Authorise(p) \/ Refuse(p) \/ Execute(p)
             \/ Claim(p) \/ Succeed(p) \/ Provision(p)
    BY <1>2, ReadsOn, RefuseEvidence, ExecuteEvidence, ProvisionEvidence
  <1>3. QED
    BY <1>1, <1>2 DEF Step

LEMMA NextEvidence == Inv /\ Evidence /\ [Next]_vars => Evidence'
  <1> SUFFICES ASSUME Inv, Evidence, [Next]_vars PROVE Evidence'
    OBVIOUS
  <1>1. CASE \E p \in Procs, t \in Threads : Message(p, t)
    BY <1>1, MessageEvidence
  <1>2. CASE \E p \in Procs, k \in Keys, a \in Procs : Decide(p, k, a)
    BY <1>2, DecideEvidence
  <1>3. CASE \E p \in Procs : Step(p)
    BY <1>3, StepEvidence
  <1>4. CASE (\E k \in Keys : Expire(k)) \/ WorldChange \/ UNCHANGED vars
    <2>1. UNCHANGED <<actions, application, asks>>
      BY <1>4 DEF Expire, WorldChange, store, vars, actions, asks
    <2>2. UNCHANGED <<pc, job>>
      BY <1>4 DEF Expire, WorldChange, vars, locals
    <2>3. \A p \in Procs : KnowsEvidence(p)'
      BY <2>1, <2>2 DEF Evidence, KnowsEvidence, Searched, Proposed, Permitted, actions
    <2>4. QED
      BY <2>1, <2>3, OutsideEvidence
  <1>5. CASE Crash
    <2>1. UNCHANGED <<actions, application, asks>>
      BY <1>5 DEF Crash, store, actions, asks
    <2>2. \A p \in Procs : KnowsEvidence(p)'
      BY <1>5, NoJobType DEF Crash, KnowsEvidence, Searched, Proposed
    <2>3. QED
      BY <2>1, <2>2, OutsideEvidence
  <1>6. QED
    BY <1>1, <1>2, <1>3, <1>4, <1>5 DEF Next

\* Every application that awaits a reviewer, every approval request and every
\* account is of an application whose recorded policy evidence grounds it.
ReviewsAreGrounded ==
  \A k \in Keys :
    \/ status[k] \notin {"none", "denied"}
    \/ application[k] \in {"pending_review", "approved"}
    \/ \E a \in Procs : approval[k][a] # "none"
    => Permitted(digest[k])

\* A resumed submit tool that finds the evidence its action was proposed with
\* derives the key of that action, the one the reviewer approved.
SameEvidenceSameAction ==
  \A p \in Procs :
    Searched(p) /\ job[p].resume # None
      /\ job[p].world = digest[job[p].resume.key]
    => job[p].key = job[p].resume.key

\* What application_propose checks when it inserts the action holds of all
\* that is done with the action later, although neither the reviewer's request
\* nor application_execute looks at the evidence again.
THEOREM ReviewsAreOfGrounded == Spec => []ReviewsAreGrounded
  <1>1. Evidence => ReviewsAreGrounded
    BY DEF Evidence, RowIsGrounded, ReviewsAreGrounded
  <1>2. Spec => []Evidence
    BY InvHolds, InitEvidence, NextEvidence, PTL DEF Spec
  <1>3. QED
    BY <1>1, <1>2, PTL

\* Only other evidence can make a resumed tool miss the action it paused for:
\* with the same evidence its derived key is the same, in any conversation and
\* after any messages, decisions and crashes.
THEOREM ResumptionsFindTheirAction == Spec => []SameEvidenceSameAction
  <1>1. Inv /\ Evidence => SameEvidenceSameAction
    <2> SUFFICES ASSUME Inv, Evidence, NEW p \in Procs, Searched(p),
                        job[p].resume # None, job[p].world = digest[job[p].resume.key]
                 PROVE  job[p].key = job[p].resume.key
      BY DEF SameEvidenceSameAction
    <2> DEFINE k == job[p].resume.key
    <2>1. k \in Keys
      BY DEF Inv, TypeOK, Jobs, Requests
    <2>2. job[p].key = KeyOf[job[p].thread, job[p].world] /\ status[k] # "none"
          /\ job[p].thread = home[k]
      BY DEF Evidence, KnowsEvidence
    <2>3. KeyOf[home[k], digest[k]] = k
      BY <2>1, <2>2 DEF Evidence, RowIsGrounded
    <2>4. QED
      BY <2>2, <2>3
  <1>2. Spec => []Evidence
    BY InvHolds, InitEvidence, NextEvidence, PTL DEF Spec
  <1>3. QED
    BY <1>1, <1>2, InvHolds, PTL

-----------------------------------------------------------------------------
(* The effect lifecycle is implemented.                                    *)

Phase == [k \in Keys |-> IF status[k] = "succeeded" THEN "submitted" ELSE status[k]]
Granted == {k \in Keys : Decided(k, "approved")}
Paid == {k \in Keys : application[k] = "approved"}

\* The steps that touch no status, no approval and no application stutter.
LEMMA QuietMaps ==
  ASSUME UNCHANGED <<status, approval, application>>
  PROVE  UNCHANGED Boundary!vars
  BY DEF Boundary!vars, Decided

\* What a step of one key does to the lifecycle is a step of it.
LEMMA OneMoves ==
  ASSUME NEW k \in Keys,
         \/ Boundary!Propose(k) \/ Boundary!Grant(k) \/ Boundary!Cancel(k)
         \/ Boundary!Claim(k) \/ Boundary!Pay(k) \/ Boundary!Report(k)
  PROVE  [Boundary!Next]_Boundary!vars
  BY DEF Boundary!Next, Boundary!Propose, Boundary!Grant, Boundary!Cancel,
         Boundary!Claim, Boundary!Pay, Boundary!Report, Boundary!Move

\* A change of one status is a move of the lifecycle.
LEMMA MoveMaps ==
  ASSUME TypeOK, NEW k \in Keys, NEW old, NEW new, status[k] = old,
         old # "succeeded", status' = [status EXCEPT ![k] = new]
  PROVE  Boundary!Move(k, old, IF new = "succeeded" THEN "submitted" ELSE new)
  BY DEF TypeOK, Boundary!Move

LEMMA InsertMaps ==
  ASSUME NEW p \in Procs, Inv, Insert(p) PROVE [Boundary!Next]_Boundary!vars
  <1> USE DEF Insert, Free, actions, asks, At
  <1> PICK k \in Keys : k = job[p].key
    BY DEF Inv, Locals, Local
  <1> DEFINE v == IF Permitted(job[p].world) THEN "pending_approval" ELSE "denied"
  <1>1. k \in Keys /\ TypeOK
    BY DEF Inv, Locals, Local
  <1>2. CASE UNCHANGED actions
    BY <1>2, QuietMaps
  <1>3. CASE Free(k) /\ status' = [status EXCEPT ![k] = v]
    <2>1. v \in {"pending_approval", "denied"}
      OBVIOUS
    <2> HIDE DEF v
    <2>2. v = "denied" => Boundary!Propose(k)
      <3> HAVE v = "denied"
      <3>1. Boundary!Move(k, "none", "denied")
        BY <1>1, <1>3, MoveMaps DEF Free
      <3>2. QED
        BY <3>1 DEF Boundary!Propose, Decided
    <2>3. v = "pending_approval" => Boundary!Propose(k)
      <3> HAVE v = "pending_approval"
      <3>1. Boundary!Move(k, "none", "pending_approval")
        BY <1>1, <1>3, MoveMaps DEF Free
      <3>2. QED
        BY <3>1 DEF Boundary!Propose, Decided
    <2>4. QED
      BY <2>1, <2>2, <2>3, OneMoves
  <1>4. QED
    BY <1>2, <1>3

LEMMA FileMaps ==
  ASSUME NEW p \in Procs, Inv, File(p) PROVE UNCHANGED Boundary!vars
  <1> USE DEF File, actions, asks, At
  <1> DEFINE k == job[p].key
  <1>1. k \in Keys /\ TypeOK /\ application[k] = "none"
    BY DEF Inv, Locals, Local
  <1>2. Paid' = Paid
    BY <1>1 DEF TypeOK, Paid
  <1>3. QED
    BY <1>2 DEF Paid, Decided, Boundary!vars

LEMMA RequestMaps ==
  ASSUME NEW p \in Procs, Inv, Request(p) PROVE UNCHANGED Boundary!vars
  <1> USE DEF Request, actions, At
  <1> DEFINE k == job[p].key
  <1>1. TypeOK /\ k \in Keys /\ approval[k][p] = "none"
    BY DEF Inv, Locals, Local
  <1>2. \A i \in Keys, a \in Procs :
          approval'[i][a] = IF i = k /\ a = p THEN "pending" ELSE approval[i][a]
    BY <1>1 DEF TypeOK
  <1>3. Granted' = Granted
    BY <1>1, <1>2 DEF Granted, Decided
  <1>4. QED
    BY <1>3 DEF Granted, Boundary!vars

LEMMA RefuseMaps ==
  ASSUME NEW p \in Procs, Inv, Refuse(p) PROVE UNCHANGED Boundary!vars
  <1> USE DEF Refuse, actions, asks, At
  <1> DEFINE k == job[p].key
  <1>1. k \in Keys /\ TypeOK
    BY DEF Inv, Locals, Local
  <1>2. Paid' = Paid
    BY <1>1 DEF TypeOK, Paid, Finalize
  <1>3. QED
    BY <1>2 DEF Paid, Decided, Boundary!vars

LEMMA ExecuteMaps ==
  ASSUME NEW p \in Procs, Inv, Execute(p) PROVE [Boundary!Next]_Boundary!vars
  <1> USE DEF Execute, asks, At
  <1> PICK k \in Keys : k = job[p].key
    BY DEF Inv, Locals, Local
  <1>1. k \in Keys /\ TypeOK
    BY DEF Inv, Locals, Local
  <1>2. CASE UNCHANGED status
    BY <1>2, QuietMaps
  <1>3. CASE status[k] = "approved" /\ status' = [status EXCEPT ![k] = "cancelled"]
    <2>1. Boundary!Move(k, "approved", "cancelled")
      BY <1>1, <1>3, MoveMaps
    <2>2. Boundary!Cancel(k)
      BY <2>1 DEF Boundary!Cancel, Decided
    <2>3. QED
      BY <1>1, <2>2, OneMoves
  <1>4. QED
    BY <1>1, <1>2, <1>3 DEF SetStatus, TypeOK

LEMMA ClaimMaps ==
  ASSUME NEW p \in Procs, Inv, Claim(p) PROVE [Boundary!Next]_Boundary!vars
  <1> USE DEF Claim, Claimable, asks, At
  <1> PICK k \in Keys : k = job[p].key
    BY DEF Inv, Locals, Local
  <1>1. k \in Keys /\ TypeOK
    BY DEF Inv, Locals, Local
  <1>2. CASE UNCHANGED status
    BY <1>2, QuietMaps
  <1>3. CASE Claimable(k) /\ status' = [status EXCEPT ![k] = "executing"]
    <2>1. Decided(k, "approved") /\ application[k] # "approved"
      BY <1>1, <1>3 DEF Inv, Rows, TablesAgree
    <2>2. Boundary!Move(k, "approved", "executing")
      BY <1>1, <1>3, MoveMaps
    <2>3. Boundary!Claim(k)
      BY <1>1, <2>1, <2>2 DEF Boundary!Claim, Decided
    <2>4. QED
      BY <1>1, <2>3, OneMoves
  <1>4. QED
    BY <1>2, <1>3

LEMMA ProvisionMaps ==
  ASSUME NEW p \in Procs, Inv, Provision(p) PROVE [Boundary!Next]_Boundary!vars
  <1> USE DEF Provision, actions, asks, At
  <1> PICK k \in Keys : k = job[p].key
    BY DEF Inv, Locals, Local
  <1>1. k \in Keys /\ TypeOK /\ status[k] = "executing"
    BY DEF Inv, Locals, Local, Exclusive, Provisions
  <1>2. CASE application[k] = "pending_review"
    <2>1. Paid' = Paid \cup {k} /\ k \notin Paid
      BY <1>1, <1>2 DEF TypeOK, Paid, Finalize
    <2>2. Boundary!Pay(k)
      BY <1>1, <2>1 DEF Paid, Boundary!Pay, Decided
    <2>3. QED
      BY <1>1, <2>2, OneMoves
  <1>3. CASE application[k] # "pending_review"
    <2>1. UNCHANGED application
      BY <1>1, <1>3 DEF TypeOK, Finalize
    <2>2. QED
      BY <2>1, QuietMaps
  <1>4. QED
    BY <1>2, <1>3

LEMMA SucceedMaps ==
  ASSUME NEW p \in Procs, Inv, Succeed(p) PROVE [Boundary!Next]_Boundary!vars
  <1> USE DEF Succeed, asks, At
  <1> PICK k \in Keys : k = job[p].key
    BY DEF Inv, Locals, Local
  <1>1. /\ k \in Keys /\ TypeOK /\ status[k] = "executing"
        /\ application[k] = "approved"
    BY DEF Inv, Locals, Local, Exclusive, Provisions
  <1>2. status' = [status EXCEPT ![k] = "succeeded"]
    BY <1>1 DEF SetStatus, TypeOK
  <1>3. Boundary!Move(k, "executing", "submitted")
    BY <1>1, <1>2, MoveMaps
  <1>4. Boundary!Report(k)
    BY <1>1, <1>3 DEF Boundary!Report, Decided
  <1>5. QED
    BY <1>1, <1>4, OneMoves

LEMMA DecideMaps ==
  ASSUME NEW p \in Procs, NEW k \in Keys, NEW a \in Procs, Inv, Decide(p, k, a)
  PROVE  [Boundary!Next]_Boundary!vars
  <1> USE DEF Decide, At
  <1>1. TypeOK
    BY DEF Inv
  <1>2. PICK v \in {"expired", "rejected", "approved"} :
          /\ approval' = [approval EXCEPT ![k][a] = v]
          /\ v = "expired" => UNCHANGED status
          /\ v = "rejected" => SetStatus(k, "pending_approval", "cancelled")
          /\ v = "approved" => SetStatus(k, "pending_approval", "approved")
    BY DEF StatusAfter
  <1>3. \A i \in Keys, b \in Procs :
          approval'[i][b] = IF i = k /\ b = a THEN v ELSE approval[i][b]
    BY <1>1, <1>2 DEF TypeOK
  <1>4. v # "approved" => Granted' = Granted
    <2>1. approval[k][a] = "pending"
      OBVIOUS
    <2>2. QED
      BY <1>3, <2>1 DEF Granted, Decided
  <1>5. v = "approved" => Granted' = Granted \cup {k}
    BY <1>3 DEF Granted, Decided
  <1>6. UNCHANGED status \/ status[k] = "pending_approval"
    BY <1>1, <1>2 DEF SetStatus, TypeOK
  <1>7. CASE v # "approved" /\ UNCHANGED status
    BY <1>4, <1>7 DEF Granted, Boundary!vars
  <1>8. CASE v = "rejected" /\ status[k] = "pending_approval"
    <2>1. Boundary!Move(k, "pending_approval", "cancelled")
      <3>1. status' = [status EXCEPT ![k] = "cancelled"]
        BY <1>1, <1>2, <1>8 DEF SetStatus, TypeOK
      <3>2. QED
        BY <1>1, <1>8, <3>1, MoveMaps
    <2>2. Boundary!Cancel(k)
      BY <1>4, <1>8, <2>1 DEF Granted, Boundary!Cancel
    <2>3. QED
      BY <2>2, OneMoves
  <1>9. CASE v = "approved"
    <2>1. CASE status[k] = "pending_approval"
      <3>1. status' = [status EXCEPT ![k] = "approved"]
        BY <1>1, <1>2, <1>9, <2>1 DEF SetStatus, TypeOK
      <3>2. Boundary!Move(k, "pending_approval", "approved")
        BY <1>1, <2>1, <3>1, MoveMaps
      <3>3. Boundary!Grant(k)
        BY <1>5, <1>9, <3>2 DEF Granted, Boundary!Grant
      <3>4. QED
        BY <3>3 DEF Boundary!Next
    <2>2. CASE status[k] # "pending_approval"
      <3>1. Boundary!Grant(k)
        BY <1>5, <1>6, <1>9, <2>2 DEF Granted, Boundary!Grant
      <3>2. QED
        BY <3>1 DEF Boundary!Next
    <2>3. QED
      BY <2>1, <2>2
  <1>10. QED
    BY <1>2, <1>6, <1>7, <1>8, <1>9

LEMMA NextMaps == Inv /\ [Next]_vars => [Boundary!Next]_Boundary!vars
  <1> SUFFICES ASSUME Inv, [Next]_vars PROVE [Boundary!Next]_Boundary!vars
    OBVIOUS
  <1> USE DEF store, actions, asks, clock
  <1>1. CASE \E p \in Procs, t \in Threads : Message(p, t)
    BY <1>1, QuietMaps DEF Message
  <1>2. CASE \E p \in Procs, k \in Keys, a \in Procs : Decide(p, k, a)
    BY <1>2, DecideMaps
  <1>3. CASE \E p \in Procs : Step(p)
    <2> PICK p \in Procs : Step(p)
      BY <1>3
    <2>1. CASE Search(p) \/ Lookup(p) \/ Application(p) \/ Approvals(p)
      BY <2>1, QuietMaps DEF Search, Lookup, Application, Approvals
    <2>2. CASE Interrupt(p) \/ Check(p) \/ Authorise(p) \/ Resume(p)
      BY <2>2, QuietMaps DEF Interrupt, Check, Authorise, Resume
    <2>3. QED
      BY <2>1, <2>2, InsertMaps, FileMaps, RequestMaps, RefuseMaps, ExecuteMaps,
         ClaimMaps, ProvisionMaps, SucceedMaps DEF Step
  <1>4. CASE \E k \in Keys : Expire(k)
    BY <1>4, QuietMaps DEF Expire
  <1>5. CASE WorldChange \/ Crash \/ UNCHANGED vars
    BY <1>5, QuietMaps DEF WorldChange, Crash, vars
  <1>6. QED
    BY <1>1, <1>2, <1>3, <1>4, <1>5 DEF Next

\* Provisioning implements the lifecycle of an effect, as a transfer does.
THEOREM BoundaryKept == Spec => KeepsBoundary
  <1>1. Init => Boundary!Init
    BY DEF Init, Boundary!Init, Decided
  <1>2. QED
    BY <1>1, InvHolds, NextMaps, PTL DEF Spec, KeepsBoundary, Boundary!Spec

=============================================================================
