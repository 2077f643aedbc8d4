----------------------------- MODULE Onboarding -----------------------------
(***************************************************************************)
(* The onboarding agent: a conversation submits a business application, a  *)
(* compliance reviewer decides, and the paused tool provisions one account.*)
(* It shares the store's actions and approvals with the Circle agent and   *)
(* adds a table of its own: an application is inserted after its action    *)
(* and finalized in a transaction of its own, by the tool that executes    *)
(* the action or by the reviewer's request that rejects it.                *)
(*                                                                         *)
(* A step is one Store call of one request thread.  A conversation submits *)
(* one application; without a client key the idempotency key is derived    *)
(* from what is submitted and from the policy evidence found for it.       *)
(***************************************************************************)
EXTENDS Naturals, FiniteSets

CONSTANTS
  Keys,           \* idempotency keys
  Threads,        \* conversation threads, each with its application
  Procs,          \* request threads of the HTTP server
  Worlds,         \* outcomes of the policy search
  GroundedWorlds, \* the outcomes that ground an application
  KeyOf,          \* KeyOf[t, w]: key of t's application with evidence w
  Faults,         \* what may go wrong in this instance
  None            \* no row, no approval, no local value

ASSUME OnboardingAssumption ==
  /\ KeyOf \in [Threads \X Worlds -> Keys]
  /\ GroundedWorlds \subseteq Worlds
  /\ Faults \subseteq {"expiry", "refusal", "crash"}
  /\ None \notin Keys \cup Threads \cup Procs \cup Worlds

VARIABLES
  world,       \* outcome of the policy search, were it run now
  status,      \* status[k]: status column of the action row of key k
  digest,      \* digest[k]: the evidence in that row's arguments
  home,        \* home[k]: thread_id of that row
  application, \* application[k]: status column of the application row
  expired,     \* keys whose action is past its expires_at
  approval,    \* approval[k][a]: status of the request inserted by process a
  lapsed,      \* <<k, a>>: approval requests past their expires_at
  latest,      \* latest[k]: the request with the greatest requested_at
  waiting,     \* threads whose last checkpoint has the tool call to finish
  pc,          \* pc[p]: the next store call of request p
  job          \* job[p]: the local variables of request p

actions == <<status, digest, home>>
asks    == <<approval, latest>>
clock   == <<expired, lapsed>>
store   == <<actions, application, asks, clock>>
locals  == <<pc, job>>
vars    == <<world, status, digest, home, application, expired, approval,
             lapsed, latest, waiting, pc, job>>

Statuses == {"none", "denied", "pending_approval", "approved", "executing",
             "succeeded", "cancelled"}
Verdicts == {"none", "pending", "approved", "rejected", "expired"}
Outcomes == {"none", "pending_review", "approved", "rejected"}
Steps == {"idle", "resume", "reject", "search", "lookup", "insert", "file",
          "application", "approvals", "request", "interrupt", "check",
          "refuse", "execute", "authorise", "claim", "finalize", "succeed"}
Requests == [key : Keys, approval : Procs]

Jobs == [thread : Threads \cup {None}, key : Keys \cup {None},
         world : Worlds \cup {None}, filed : BOOLEAN,
         resume : Requests \cup {None}, seen : Procs \cup {None}]
NoJob == [thread |-> None, key |-> None, world |-> None, filed |-> FALSE,
          resume |-> None, seen |-> None]

Init ==
  /\ world \in Worlds
  /\ status = [k \in Keys |-> "none"]
  /\ digest = [k \in Keys |-> None]
  /\ home = [k \in Keys |-> None]
  /\ application = [k \in Keys |-> "none"]
  /\ expired = {}
  /\ approval = [k \in Keys |-> [a \in Procs |-> "none"]]
  /\ lapsed = {}
  /\ latest = [k \in Keys |-> None]
  /\ waiting = {}
  /\ pc = [p \in Procs |-> "idle"]
  /\ job = [p \in Procs |-> NoJob]

-----------------------------------------------------------------------------
At(p, step) == pc[p] = step
Goto(p, step) == pc' = [pc EXCEPT ![p] = step]
Leave(p) == Goto(p, "idle") /\ job' = [job EXCEPT ![p] = NoJob]

\* The graph run ends with a result or an error: the thread waits for nothing.
Finish(p) == waiting' = waiting \ {job[p].thread} /\ Leave(p)

Continue(p, step) == Goto(p, step) /\ UNCHANGED <<job, waiting>>

Permitted(w) == w \in GroundedWorlds

\* Variant: the unique index on the idempotency key is missing.
AlwaysFree(k) == TRUE

\* The unique index on (organization_id, idempotency_key) lets the row in.
Free(k) == status[k] = "none"

\* Variant: a claim also takes an action that is executing.
ClaimableTwice(k) == status[k] \in {"approved", "executing"}

\* The WHERE clause of action_claim.
Claimable(k) == status[k] = "approved"

\* action_status: a compare-and-set on the status column.
SetStatus(k, old, new) ==
  status' = [status EXCEPT ![k] = IF @ = old THEN new ELSE @]

\* Variant: an application is finalized whatever its status.
FinalizeAny(k, new) == application' = [application EXCEPT ![k] = new]

\* onboarding_application_finalize from pending_review.
Finalize(k, new) ==
  application' = [application EXCEPT ![k] = IF @ = "pending_review" THEN new ELSE @]

\* The status a verdict gives to a pending action.
StatusAfter(verdict) == IF verdict = "approved" THEN "approved" ELSE "cancelled"

\* approval_for_action: the latest request is an approved one.
Authorised(k) == latest[k] # None /\ approval[k][latest[k]] = "approved"

-----------------------------------------------------------------------------
(* message_run and application_propose.                                    *)

\* A message runs the submit tool; its checkpoint replaces the thread's last.
Message(p, t) ==
  /\ At(p, "idle")
  /\ waiting' = waiting \cup {t}
  /\ job' = [job EXCEPT ![p] = [NoJob EXCEPT !.thread = t]]
  /\ Goto(p, "search")
  /\ UNCHANGED <<store, world>>

\* The values, with the evidence found now, and the key made from them.
Search(p) ==
  /\ At(p, "search")
  /\ job' = [job EXCEPT ![p].world = world,
                        ![p].key = KeyOf[job[p].thread, world]]
  /\ Goto(p, "lookup")
  /\ UNCHANGED <<store, world, waiting>>

\* action_get_by_idempotency: a row with another digest is an error.
Lookup(p) ==
  LET k == job[p].key IN
  /\ At(p, "lookup")
  /\ \/ status[k] = "none" /\ Continue(p, "insert")
     \/ /\ status[k] # "none" /\ digest[k] = job[p].world
        /\ Continue(p, "application")
     \/ status[k] # "none" /\ digest[k] # job[p].world /\ Finish(p)
  /\ UNCHANGED <<store, world>>

\* action_insert, then action_get: who lost the race gets nothing and fails.
Insert(p) ==
  LET k == job[p].key IN
  /\ At(p, "insert")
  /\ \/ /\ Free(k)
        /\ status' = [status EXCEPT ![k] =
             IF Permitted(job[p].world) THEN "pending_approval" ELSE "denied"]
        /\ digest' = [digest EXCEPT ![k] = job[p].world]
        /\ home' = [home EXCEPT ![k] = job[p].thread]
        /\ Continue(p, "file")
     \/ ~Free(k) /\ Finish(p) /\ UNCHANGED actions
  /\ UNCHANGED <<application, asks, clock, world>>

\* onboarding_application_insert.
File(p) ==
  /\ At(p, "file")
  /\ application' = [application EXCEPT ![job[p].key] =
       IF Permitted(job[p].world) THEN "pending_review" ELSE "rejected"]
  /\ Continue(p, "application")
  /\ UNCHANGED <<actions, asks, clock, world>>

\* onboarding_application_by_action.
Application(p) ==
  /\ At(p, "application")
  /\ job' = [job EXCEPT ![p].filed = application[job[p].key] # "none"]
  /\ Goto(p, "approvals")
  /\ UNCHANGED <<store, world, waiting>>

\* approval_for_action, and the branches on it.  A denied application ends the
\* tool, and so does one that was not found, once a request has been made.
Approvals(p) ==
  LET k == job[p].key
      a == latest[k] IN
  /\ At(p, "approvals")
  /\ \/ ~Permitted(job[p].world) /\ Finish(p)
     \/ /\ Permitted(job[p].world) /\ a = None
        /\ Continue(p, "request")
     \/ /\ Permitted(job[p].world) /\ a # None /\ ~job[p].filed /\ Finish(p)
     \/ /\ Permitted(job[p].world) /\ a # None /\ job[p].filed
        /\ job' = [job EXCEPT ![p].seen = a]
        /\ Goto(p, IF approval[k][a] = "pending" THEN "interrupt" ELSE "check")
        /\ UNCHANGED waiting
  /\ UNCHANGED <<store, world>>

\* approval_make stamps requested_at and approval_insert stores the row.
Request(p) ==
  LET k == job[p].key IN
  /\ At(p, "request")
  /\ approval' = [approval EXCEPT ![k][p] = "pending"]
  /\ \/ latest' = [latest EXCEPT ![k] = p]
     \/ latest[k] # None /\ UNCHANGED latest
  /\ \/ /\ job[p].filed
        /\ job' = [job EXCEPT ![p].seen = p]
        /\ Goto(p, "interrupt") /\ UNCHANGED waiting
     \/ ~job[p].filed /\ Finish(p)
  /\ UNCHANGED <<actions, application, clock, world>>

-----------------------------------------------------------------------------
(* onboarding_submit_application after the proposal, application_execute.  *)

\* interrupt stops the first run; a resumed run must name this approval.
Interrupt(p) ==
  LET call == [key |-> job[p].key, approval |-> job[p].seen] IN
  /\ At(p, "interrupt")
  /\ \/ job[p].resume = None /\ Leave(p) /\ UNCHANGED waiting
     \/ job[p].resume = call /\ Continue(p, "check")
     \/ job[p].resume \notin {None, call} /\ Finish(p)
  /\ UNCHANGED <<store, world>>

\* approval_get: only a rejected request stops the tool here.
Check(p) ==
  /\ At(p, "check")
  /\ Continue(p, IF approval[job[p].key][job[p].seen] = "rejected"
                 THEN "refuse" ELSE "execute")
  /\ UNCHANGED <<store, world>>

\* The tool, or the reviewer's request, finalizes a rejected application.
Refuse(p) ==
  /\ pc[p] \in {"refuse", "reject"}
  /\ Finalize(job[p].key, "rejected")
  /\ \/ At(p, "refuse") /\ Finish(p)
     \/ At(p, "reject") /\ Leave(p) /\ UNCHANGED waiting
  /\ UNCHANGED <<actions, asks, clock, world>>

\* action_get: an action past its expires_at is cancelled if it was approved.
Execute(p) ==
  LET k == job[p].key IN
  /\ At(p, "execute")
  /\ \/ k \notin expired /\ Continue(p, "authorise") /\ UNCHANGED status
     \/ k \in expired /\ SetStatus(k, "approved", "cancelled") /\ Finish(p)
  /\ UNCHANGED <<digest, home, application, asks, clock, world>>

Authorise(p) ==
  /\ At(p, "authorise")
  /\ \/ Authorised(job[p].key) /\ Continue(p, "claim")
     \/ ~Authorised(job[p].key) /\ Finish(p)
  /\ UNCHANGED <<store, world>>

\* action_claim; who does not get it reports a duplicate or an error.
Claim(p) ==
  LET k == job[p].key IN
  /\ At(p, "claim")
  /\ \/ /\ Claimable(k) /\ Continue(p, "finalize")
        /\ status' = [status EXCEPT ![k] = "executing"]
     \/ ~Claimable(k) /\ Finish(p) /\ UNCHANGED status
  /\ UNCHANGED <<digest, home, application, asks, clock, world>>

\* onboarding_application_finalize with the account: a row that is no longer
\* pending_review is an error, and leaves the action as it was claimed.
Provision(p) ==
  LET k == job[p].key IN
  /\ At(p, "finalize")
  /\ Finalize(k, "approved")
  /\ \/ application[k] = "pending_review" /\ Continue(p, "succeed")
     \/ application[k] # "pending_review" /\ Finish(p)
  /\ UNCHANGED <<actions, asks, clock, world>>

Succeed(p) ==
  /\ At(p, "succeed")
  /\ SetStatus(job[p].key, "executing", "succeeded")
  /\ Finish(p)
  /\ UNCHANGED <<digest, home, application, asks, clock, world>>

-----------------------------------------------------------------------------
(* approval_resume, the reviewer's request.                                *)

\* Store.approval_decide is one transaction; what follows it is not part of it.
Decide(p, k, a) ==
  /\ At(p, "idle")
  /\ approval[k][a] = "pending"
  /\ \/ /\ <<k, a>> \in lapsed
        /\ approval' = [approval EXCEPT ![k][a] = "expired"]
        /\ UNCHANGED <<status, locals>>
     \/ /\ <<k, a>> \notin lapsed
        /\ approval' = [approval EXCEPT ![k][a] = "rejected"]
        /\ SetStatus(k, "pending_approval", StatusAfter("rejected"))
        /\ job' = [job EXCEPT ![p] = [NoJob EXCEPT !.key = k]]
        /\ Goto(p, "reject")
     \/ /\ <<k, a>> \notin lapsed
        /\ approval' = [approval EXCEPT ![k][a] = "approved"]
        /\ SetStatus(k, "pending_approval", StatusAfter("approved"))
        /\ job' = [job EXCEPT ![p] = [NoJob EXCEPT
             !.thread = home[k], !.resume = [key |-> k, approval |-> a]]]
        /\ Goto(p, "resume")
  /\ UNCHANGED <<digest, home, application, latest, clock, world, waiting>>

\* The checks after an approval may fail; otherwise the thread's tool call, if
\* it has one to finish, runs again from its first line.
Resume(p) ==
  /\ At(p, "resume")
  /\ \/ /\ "refusal" \in Faults \/ job[p].thread \notin waiting
        /\ Leave(p) /\ UNCHANGED waiting
     \/ job[p].thread \in waiting /\ Continue(p, "search")
  /\ UNCHANGED <<store, world>>

-----------------------------------------------------------------------------
(* Around the requests.                                                    *)

\* Actions and approval requests live for thirty minutes, the action first.
Expire(k) ==
  /\ "expiry" \in Faults
  /\ \/ /\ status[k] # "none" /\ k \notin expired
        /\ expired' = expired \cup {k} /\ UNCHANGED lapsed
     \/ \E a \in Procs :
          /\ approval[k][a] # "none" /\ <<k, a>> \notin lapsed /\ k \in expired
          /\ lapsed' = lapsed \cup {<<k, a>>} /\ UNCHANGED expired
  /\ UNCHANGED <<actions, application, asks, world, waiting, locals>>

\* Policy documents are ingested or change.
WorldChange ==
  /\ world' \in Worlds \ {world}
  /\ UNCHANGED <<store, waiting, locals>>

Crash ==
  /\ "crash" \in Faults
  /\ \E p \in Procs : ~At(p, "idle")
  /\ pc' = [p \in Procs |-> "idle"]
  /\ job' = [p \in Procs |-> NoJob]
  /\ UNCHANGED <<store, world, waiting>>

Step(p) ==
  \/ Search(p) \/ Lookup(p) \/ Insert(p) \/ File(p) \/ Application(p)
  \/ Approvals(p) \/ Request(p) \/ Interrupt(p) \/ Check(p) \/ Refuse(p)
  \/ Execute(p) \/ Authorise(p) \/ Claim(p) \/ Provision(p) \/ Succeed(p)
  \/ Resume(p)

Next ==
  \/ \E p \in Procs, t \in Threads : Message(p, t)
  \/ \E p \in Procs, k \in Keys, a \in Procs : Decide(p, k, a)
  \/ \E p \in Procs : Step(p)
  \/ \E k \in Keys : Expire(k)
  \/ WorldChange
  \/ Crash

Spec == Init /\ [][Next]_vars

-----------------------------------------------------------------------------
(* Safety.                                                                 *)

\* Every row, flag and local variable has its type.
TypeOK ==
  /\ world \in Worlds
  /\ status \in [Keys -> Statuses]
  /\ digest \in [Keys -> Worlds \cup {None}]
  /\ home \in [Keys -> Threads \cup {None}]
  /\ application \in [Keys -> Outcomes]
  /\ expired \subseteq Keys
  /\ approval \in [Keys -> [Procs -> Verdicts]]
  /\ lapsed \subseteq Keys \X Procs
  /\ latest \in [Keys -> Procs \cup {None}]
  /\ waiting \subseteq Threads
  /\ pc \in [Procs -> Steps]
  /\ job \in [Procs -> Jobs]

Decided(k, v) == \E a \in Procs : approval[k][a] = v

\* The two tables agree, although they are written in separate transactions by
\* requests that race: an account exists only of an action that a reviewer
\* approved and a request claimed, an action that succeeded has its account,
\* and an application is rejected only by the policy or by a reviewer.
TablesAgree ==
  \A k \in Keys :
    /\ application[k] = "approved" =>
         Decided(k, "approved") /\ status[k] \in {"executing", "succeeded"}
    /\ status[k] = "succeeded" => application[k] = "approved"
    /\ application[k] = "rejected" => status[k] = "denied" \/ Decided(k, "rejected")

\* One request provisions the account of an action, and it does so while the
\* action is executing.
ProvisionExclusive ==
  \A k \in Keys :
    LET working == {p \in Procs : pc[p] \in {"finalize", "succeed"} /\ job[p].key = k} IN
    /\ Cardinality(working) <= 1
    /\ working # {} => status[k] = "executing"

\* An applicant is told one outcome: an approved or rejected application stays
\* so, whatever later verdicts, repeated messages and resumptions do.
OutcomeStays ==
  [][\A k \in Keys : application[k] \in {"approved", "rejected"} =>
       application'[k] = application[k]]_vars

\* Provisioning implements the same effect lifecycle as a transfer, with the
\* accounts as the effects.
Boundary == INSTANCE EffectBoundary WITH
  phase <- [k \in Keys |-> IF status[k] = "succeeded" THEN "submitted" ELSE status[k]],
  granted <- {k \in Keys : Decided(k, "approved")},
  paid <- {k \in Keys : application[k] = "approved"}

KeepsBoundary == Boundary!Spec

-----------------------------------------------------------------------------
(* Liveness.                                                               *)

\* A request thread that has been started is scheduled until it answers.
FairSpec == Spec /\ \A p \in Procs : WF_vars(Step(p))

\* An approved application ends up with its account: the resumed tool finds
\* the call, the action, the application and the approval it paused for.
ApprovedIsProvisioned ==
  \A k \in Keys : status[k] = "approved" ~> application[k] = "approved"

=============================================================================
