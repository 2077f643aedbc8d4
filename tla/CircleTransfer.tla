--------------------------- MODULE CircleTransfer ---------------------------
(***************************************************************************)
(* The financial-effect boundary of the Circle agent: a chat message       *)
(* proposes a transfer (policy, idempotent action row, approval request),  *)
(* the LangGraph thread pauses, a reviewer decides, the paused tool runs   *)
(* again from its first line and executes the approved action once.        *)
(*                                                                         *)
(* Every HTTP request runs on a thread of its own (ThreadingHTTPServer)    *)
(* and every Store method is one SQLite transaction, so a step here is one *)
(* store call and the requests interleave between them.  One wallet pays   *)
(* for all the transfers: that is where they interfere.                    *)
(*                                                                         *)
(* Names of steps and statuses are those of service.py, tools.py, store.py *)
(* and simulator.py.  An approval request is named by its action and by    *)
(* the request process that inserted it: a process inserts one only when   *)
(* it read that there was none, so it inserts at most one per action.      *)
(***************************************************************************)
EXTENDS Integers, Functions

CONSTANTS
  Keys,           \* idempotency keys, one per transfer users ask for
  Threads,        \* conversation threads
  Procs,          \* request threads of the HTTP server
  Asks,           \* <<thread, key>>: the transfers a thread may ask for
  Cost,           \* Cost[k]: amount plus network fee of transfer k
  OpeningBalance, \* balance of the wallet at the start
  Worlds,         \* what else a proposal records: screening and evidence
  ClearWorlds,    \* the worlds in which screening answers clear
  GroundedWorlds, \* the worlds in which policy evidence grounds a transfer
  Changes,        \* <<from, to>>: how the world may change in this instance
  Faults,         \* what may go wrong around the requests in this instance
  None            \* no row, no approval, no interrupt

ASSUME TransferAssumption ==
  /\ Asks \subseteq Threads \X Keys
  /\ Cost \in [Keys -> Nat \ {0}]
  /\ OpeningBalance \in Nat
  /\ ClearWorlds \subseteq Worlds
  /\ GroundedWorlds \subseteq Worlds
  /\ Changes \subseteq Worlds \X Worlds
  /\ Faults \subseteq {"expiry", "provider", "store", "refusal", "crash"}
  /\ None \notin Keys \cup Threads \cup Procs

VARIABLES
  balance,   \* the wallet row's balance
  world,     \* outcome of screening and policy search, were they run now
  status,    \* status[k]: status column of the action row of key k
  digest,    \* digest[k]: action_digest of that row
  home,      \* home[k]: thread_id of that row
  expired,   \* keys whose action is past its expires_at
  approval,  \* approval[k][a]: status of the request inserted by process a
  lapsed,    \* <<k, a>>: approval requests past their expires_at
  latest,    \* latest[k]: the request with the greatest requested_at
  txns,      \* keys with a row in transactions (reference derived from key)
  waiting,   \* waiting[t]: the call thread t's last checkpoint has yet to finish
  pc,        \* pc[p]: the next store call of request p
  job        \* job[p]: the local variables of request p

rows    == <<status, digest, home>>
asks    == <<approval, latest>>
clock   == <<expired, lapsed>>
store   == <<balance, rows, asks, clock, txns>>
locals  == <<pc, job>>
vars    == <<balance, world, status, digest, home, expired, approval, lapsed,
             latest, txns, waiting, pc, job>>

Statuses == {"none", "denied", "pending_approval", "approved", "executing",
             "submitted", "failed", "cancelled"}
Verdicts == {"none", "pending", "approved", "rejected", "expired"}
Digests  == [balance : 0 .. OpeningBalance, world : Worlds]
Requests == [key : Keys, approval : Procs]
Steps    == {"idle", "resume", "prepare", "lookup", "insert", "approvals",
             "request", "interrupt", "check", "execute", "authorise",
             "claim", "quote", "submit", "debit", "success", "failure"}

\* The local variables of a request; one is dropped when it is dead.
Jobs == [thread : Threads \cup {None}, key : Keys \cup {None},
         resume : Requests \cup {None}, digest : Digests \cup {None},
         seen : Procs \cup {None}, quote : 0 .. OpeningBalance]
NoJob == [thread |-> None, key |-> None, resume |-> None, digest |-> None,
          seen |-> None, quote |-> 0]

Init ==
  /\ balance = OpeningBalance
  /\ world \in Worlds
  /\ status = [k \in Keys |-> "none"]
  /\ digest = [k \in Keys |-> None]
  /\ home = [k \in Keys |-> None]
  /\ expired = {}
  /\ approval = [k \in Keys |-> [a \in Procs |-> "none"]]
  /\ lapsed = {}
  /\ latest = [k \in Keys |-> None]
  /\ txns = {}
  /\ waiting = [t \in Threads |-> None]
  /\ pc = [p \in Procs |-> "idle"]
  /\ job = [p \in Procs |-> NoJob]

-----------------------------------------------------------------------------
(* Moving a request from one store call to the next.                       *)

At(p, step) == pc[p] = step

Goto(p, step) == pc' = [pc EXCEPT ![p] = step]

\* The request is answered and its locals are gone.
Leave(p) == Goto(p, "idle") /\ job' = [job EXCEPT ![p] = NoJob]

\* The graph run ends, with a result or with an error the ToolNode caught: its
\* last checkpoint becomes the thread's last one, and nothing is left to do.
Finish(p) ==
  /\ waiting' = [waiting EXCEPT ![job[p].thread] = None]
  /\ Leave(p)

Continue(p, step) == Goto(p, step) /\ UNCHANGED <<job, waiting>>

\* Variant: the update forgets the old status in its WHERE clause.
ForceStatus(k, old, new) == status' = [status EXCEPT ![k] = new]

\* action_status: a compare-and-set on the status column.
SetStatus(k, old, new) ==
  status' = [status EXCEPT ![k] = IF @ = old THEN new ELSE @]

\* policy.action_evaluate for a transfer never allows outright: it requires an
\* approval when screening is clear, the policy grounded and the balance enough.
Permitted(k, d) ==
  d.world \in ClearWorlds \cap GroundedWorlds /\ Cost[k] <= d.balance

\* Variant: what the policy permits is inserted as approved.
ApprovedVerdict(k, d) == IF Permitted(k, d) THEN "approved" ELSE "denied"

\* The status a new action is inserted with.
Verdict(k, d) == IF Permitted(k, d) THEN "pending_approval" ELSE "denied"

\* Variant: the digests are not compared.
AnyCall(p) == TRUE

\* The row that was found is of the very call the request works on.
SameCall(p) == digest[job[p].key] = job[p].digest

\* Variant: no unique index on the idempotency key.
AlwaysFree(k) == TRUE

\* The unique index on (organization_id, idempotency_key) lets the row in.
Free(k) == status[k] = "none"

\* Variants: a claim also takes an executing action, or a failed one.
ClaimableTwice(k) == status[k] \in {"approved", "executing"}
ClaimableAgain(k) == status[k] \in {"approved", "failed"}

\* The WHERE clause of action_claim.
Claimable(k) == status[k] = "approved"

\* Variant: the balance is not compared again at execution.
PayableUnchecked(k) == world \in ClearWorlds

\* Screening still answers clear and the quoted balance is enough.
Payable(k) == world \in ClearWorlds /\ Cost[k] <= balance

\* Variant: the cost is taken off a quote that has it taken off already.
DebitedTwice(p) == job[p].quote - 2 * Cost[job[p].key]

\* The balance submit_transfer writes, from the quote it started with.
NewBalance(p) == job[p].quote - Cost[job[p].key]

\* Variant: an error leaves the action as it was claimed.
OutcomeOfSuccess(p) == IF pc[p] = "success" THEN "submitted" ELSE "executing"

\* What action_result records.
Outcome(p) == IF pc[p] = "success" THEN "submitted" ELSE "failed"

\* Variant: a request that was decided can be decided again.
NotMissing(k, a) == approval[k][a] # "none"

\* approval_decide accepts a verdict on this request.
Undecided(k, a) == approval[k][a] = "pending"

-----------------------------------------------------------------------------
(* message_run and the proposal (transfer_prepare, transfer_propose).      *)

\* A chat message starts a run on thread t: its checkpoint, with the new tool
\* call to do, takes the place of the one the thread held.
Message(p, t, k) ==
  /\ At(p, "idle")
  /\ <<t, k>> \in Asks
  /\ waiting' = [waiting EXCEPT ![t] = k]
  /\ job' = [job EXCEPT ![p] = [NoJob EXCEPT !.thread = t, !.key = k]]
  /\ Goto(p, "prepare")
  /\ UNCHANGED <<store, world>>

\* transfer_prepare: quote, screening and evidence go into the arguments, so
\* action_digest depends on the balance and on the world read here.
Prepare(p) ==
  /\ At(p, "prepare")
  /\ job' = [job EXCEPT ![p].digest = [balance |-> balance, world |-> world]]
  /\ Goto(p, "lookup")
  /\ UNCHANGED <<store, world, waiting>>

\* action_get_by_idempotency: a row with another digest is an error.
Lookup(p) ==
  LET k == job[p].key IN
  /\ At(p, "lookup")
  /\ \/ status[k] = "none" /\ Continue(p, "insert")
     \/ status[k] # "none" /\ SameCall(p) /\ Continue(p, "approvals")
     \/ status[k] # "none" /\ ~SameCall(p) /\ Finish(p)
  /\ UNCHANGED <<store, world>>

\* action_insert, then action_get of the identifier just made: a request that
\* lost the race gets no row back and fails, whatever the digest of the winner.
Insert(p) ==
  LET k == job[p].key IN
  /\ At(p, "insert")
  /\ \/ /\ Free(k)
        /\ status' = [status EXCEPT ![k] = Verdict(k, job[p].digest)]
        /\ digest' = [digest EXCEPT ![k] = job[p].digest]
        /\ home' = [home EXCEPT ![k] = job[p].thread]
        /\ Continue(p, "approvals")
     \/ ~Free(k) /\ Finish(p) /\ UNCHANGED rows
  /\ UNCHANGED <<balance, asks, clock, txns, world>>

\* approval_for_action, and the branches on what it returned: a denied action
\* ends the tool, no request yet makes one, a pending one interrupts.
Approvals(p) ==
  LET k == job[p].key
      a == latest[k]
      seen == [job[p] EXCEPT !.digest = None, !.seen = a] IN
  /\ At(p, "approvals")
  /\ \/ ~Permitted(k, job[p].digest) /\ Finish(p)
     \/ /\ Permitted(k, job[p].digest)
        /\ job' = [job EXCEPT ![p] = seen]
        /\ Goto(p, IF a = None THEN "request"
                   ELSE IF approval[k][a] = "pending" THEN "interrupt"
                   ELSE "check")
        /\ UNCHANGED waiting
  /\ UNCHANGED <<store, world>>

\* approval_make stamps requested_at and approval_insert stores the row; when
\* two requests do this at once either stamp may be the later one.
Request(p) ==
  LET k == job[p].key IN
  /\ At(p, "request")
  /\ approval' = [approval EXCEPT ![k][p] = "pending"]
  /\ \/ latest' = [latest EXCEPT ![k] = p]
     \/ latest[k] # None /\ UNCHANGED latest
  /\ job' = [job EXCEPT ![p].seen = p]
  /\ Goto(p, "interrupt")
  /\ UNCHANGED <<balance, rows, clock, txns, world, waiting>>

\* interrupt(payload): the first time it stops the run, whose checkpoint keeps
\* the call to do; in a resumed run it returns the resume value, which must
\* name the approval the tool is about to wait for.
Interrupt(p) ==
  LET call == [key |-> job[p].key, approval |-> job[p].seen] IN
  /\ At(p, "interrupt")
  /\ \/ job[p].resume = None /\ Leave(p) /\ UNCHANGED waiting
     \/ job[p].resume = call /\ Continue(p, "check")
     \/ job[p].resume \notin {None, call} /\ Finish(p)
  /\ UNCHANGED <<store, world>>

\* approval_get again: only an approved request goes on to transfer_execute.
Check(p) ==
  /\ At(p, "check")
  /\ \/ /\ approval[job[p].key][job[p].seen] = "approved"
        /\ job' = [job EXCEPT ![p].resume = None, ![p].seen = None]
        /\ Goto(p, "execute")
        /\ UNCHANGED waiting
     \/ approval[job[p].key][job[p].seen] # "approved" /\ Finish(p)
  /\ UNCHANGED <<store, world>>

-----------------------------------------------------------------------------
(* transfer_execute and the simulator's submit_transfer.                   *)

\* action_get: an action past its expires_at is cancelled.  The digest cannot
\* differ and the policy version cannot be stale here: Lookup compared both.
Execute(p) ==
  LET k == job[p].key IN
  /\ At(p, "execute")
  /\ \/ k \notin expired /\ Continue(p, "authorise") /\ UNCHANGED status
     \/ k \in expired /\ SetStatus(k, "approved", "cancelled") /\ Finish(p)
  /\ UNCHANGED <<balance, digest, home, asks, clock, txns, world>>

\* approval_for_action: the latest request must be an approved one.
Authorise(p) ==
  LET k == job[p].key
      approved == latest[k] # None /\ approval[k][latest[k]] = "approved" IN
  /\ At(p, "authorise")
  /\ \/ approved /\ Continue(p, "claim")
     \/ ~approved /\ Finish(p)
  /\ UNCHANGED <<store, world>>

\* action_claim: one request wins; the others report a duplicate or an error.
Claim(p) ==
  LET k == job[p].key IN
  /\ At(p, "claim")
  /\ \/ /\ Claimable(k) /\ Continue(p, "quote")
        /\ status' = [status EXCEPT ![k] = "executing"]
     \/ ~Claimable(k) /\ Finish(p) /\ UNCHANGED status
  /\ UNCHANGED <<balance, digest, home, asks, clock, txns, world>>

\* Screening again, then the quote whose balance the debit starts from.
Quote(p) ==
  /\ At(p, "quote")
  /\ \/ /\ Payable(job[p].key) /\ Goto(p, "submit")
        /\ job' = [job EXCEPT ![p].quote = balance]
     \/ ~Payable(job[p].key) /\ Goto(p, "failure") /\ UNCHANGED job
  /\ UNCHANGED <<store, world, waiting>>

\* transaction_insert; the unique provider reference is derived from the key.
Submit(p) ==
  LET k == job[p].key IN
  /\ At(p, "submit")
  /\ Continue(p, IF k \in txns THEN "failure" ELSE "debit")
  /\ txns' = txns \cup {k}
  /\ UNCHANGED <<balance, rows, asks, clock, world>>

\* wallet_balance_set writes the quoted balance less the cost.
Debit(p) ==
  /\ At(p, "debit")
  /\ balance' = NewBalance(p)
  /\ job' = [job EXCEPT ![p].quote = 0]
  /\ Goto(p, "success")
  /\ UNCHANGED <<rows, asks, clock, txns, world, waiting>>

\* An exception inside the try of transfer_execute, from the screening to the
\* end of submit_transfer: a simulated provider failure, or a store call.
ProviderError(p) ==
  /\ "provider" \in Faults
  /\ pc[p] \in {"quote", "submit", "debit"}
  /\ job' = [job EXCEPT ![p].quote = 0]
  /\ Goto(p, "failure")
  /\ UNCHANGED <<store, world, waiting>>

\* Any other store or audit call of the tool raises, the one that follows the
\* claim and action_result itself included: the ToolNode answers with the error
\* and the rows stay as they are.
StoreError(p) ==
  /\ "store" \in Faults
  /\ pc[p] \notin {"idle", "resume", "submit", "debit"}
  /\ Finish(p)
  /\ UNCHANGED <<store, world>>

\* action_result, a compare-and-set from executing.
Result(p) ==
  /\ pc[p] \in {"success", "failure"}
  /\ SetStatus(job[p].key, "executing", Outcome(p))
  /\ Finish(p)
  /\ UNCHANGED <<balance, digest, home, asks, clock, txns, world>>

-----------------------------------------------------------------------------
(* The reviewer's request: approval_decide_and_resume.                     *)

\* Store.approval_decide is one transaction: it finds the request pending, past
\* its expiry or not, records the verdict and moves the action with it.  An
\* approval goes on to resume the thread; a rejection and an expiry end here.
Decide(p, k, a) ==
  /\ At(p, "idle")
  /\ Undecided(k, a)
  /\ \/ /\ <<k, a>> \in lapsed
        /\ approval' = [approval EXCEPT ![k][a] = "expired"]
        /\ UNCHANGED <<status, locals>>
     \/ /\ <<k, a>> \notin lapsed
        /\ approval' = [approval EXCEPT ![k][a] = "rejected"]
        /\ SetStatus(k, "pending_approval", "cancelled")
        /\ UNCHANGED locals
     \/ /\ <<k, a>> \notin lapsed
        /\ approval' = [approval EXCEPT ![k][a] = "approved"]
        /\ SetStatus(k, "pending_approval", "approved")
        /\ job' = [job EXCEPT ![p] = [NoJob EXCEPT
             !.thread = home[k], !.resume = [key |-> k, approval |-> a]]]
        /\ Goto(p, "resume")
  /\ UNCHANGED <<balance, digest, home, latest, clock, txns, world, waiting>>


\* The membership, thread and profile checks that follow the verdict may fail.
\* Otherwise Command(resume=...) runs the tool call the thread's checkpoint has
\* to do, from its first line; a thread with nothing to do runs nothing.
Resume(p) ==
  LET t == job[p].thread IN
  /\ At(p, "resume")
  /\ \/ ("refusal" \in Faults \/ waiting[t] = None) /\ Leave(p)
     \/ /\ waiting[t] # None
        /\ job' = [job EXCEPT ![p].key = waiting[t]]
        /\ Goto(p, "prepare")
  /\ UNCHANGED <<store, world, waiting>>

-----------------------------------------------------------------------------
(* What happens around the requests.                                       *)

\* Time passes: an action expires before the approvals requested for it.
Expire(k) ==
  /\ "expiry" \in Faults
  /\ \/ /\ status[k] # "none" /\ k \notin expired
        /\ expired' = expired \cup {k} /\ UNCHANGED lapsed
     \/ \E a \in Procs :
          /\ approval[k][a] # "none" /\ <<k, a>> \notin lapsed /\ k \in expired
          /\ lapsed' = lapsed \cup {<<k, a>>} /\ UNCHANGED expired
  /\ UNCHANGED <<balance, rows, asks, txns, world, waiting, locals>>

\* Screening rules or policy documents change between two readings of them.
WorldChange ==
  /\ world' \in Worlds /\ <<world, world'>> \in Changes
  /\ UNCHANGED <<store, waiting, locals>>

\* The server stops and starts again: database and checkpoints survive it.
Crash ==
  /\ "crash" \in Faults
  /\ \E p \in Procs : ~At(p, "idle")
  /\ pc' = [p \in Procs |-> "idle"]
  /\ job' = [p \in Procs |-> NoJob]
  /\ UNCHANGED <<store, world, waiting>>

Step(p) ==
  \/ Prepare(p) \/ Lookup(p) \/ Insert(p) \/ Approvals(p) \/ Request(p)
  \/ Interrupt(p) \/ Check(p) \/ Execute(p) \/ Authorise(p) \/ Claim(p)
  \/ Quote(p) \/ Submit(p) \/ Debit(p) \/ ProviderError(p) \/ StoreError(p)
  \/ Result(p) \/ Resume(p)

Next ==
  \/ \E p \in Procs, t \in Threads, k \in Keys : Message(p, t, k)
  \/ \E p \in Procs, k \in Keys, a \in Procs : Decide(p, k, a)
  \/ \E p \in Procs : Step(p)
  \/ \E k \in Keys : Expire(k)
  \/ WorldChange
  \/ Crash

Spec == Init /\ [][Next]_vars

-----------------------------------------------------------------------------
(* Type invariant.                                                         *)

\* Every row, flag and local variable has its type; a request that runs a tool
\* knows its thread and its key.
TypeOK ==
  /\ balance \in 0 .. OpeningBalance
  /\ world \in Worlds
  /\ status \in [Keys -> Statuses]
  /\ digest \in [Keys -> Digests \cup {None}]
  /\ home \in [Keys -> Threads \cup {None}]
  /\ expired \subseteq Keys
  /\ approval \in [Keys -> [Procs -> Verdicts]]
  /\ lapsed \subseteq Keys \X Procs
  /\ latest \in [Keys -> Procs \cup {None}]
  /\ txns \subseteq Keys
  /\ waiting \in [Threads -> Keys \cup {None}]
  /\ pc \in [Procs -> Steps]
  /\ job \in [Procs -> Jobs]

-----------------------------------------------------------------------------
(* Safety.                                                                 *)

Running == {"quote", "submit", "debit", "success", "failure"}

\* Between action_claim and action_result exactly one request works on an
\* action, and nobody takes the action out of executing under its feet.
ClaimExclusive ==
  /\ \A p \in Procs : pc[p] \in Running => status[job[p].key] = "executing"
  /\ \A p, q \in Procs :
       pc[p] \in Running /\ pc[q] \in Running /\ job[p].key = job[q].key => p = q

\* An action is approved, and goes on from there, only if a reviewer approved a
\* request made for it, whatever requests, resumptions and expiries raced.
EffectApproved ==
  \A k \in Keys :
    status[k] \in {"approved", "executing", "submitted", "failed"} =>
      \E a \in Procs : approval[k][a] = "approved"

\* The transaction row and the action's status agree: no transaction of an
\* action that was not claimed, and every submitted action has one.
PaidUnderClaim ==
  \A k \in Keys :
    /\ k \in txns => status[k] \in {"executing", "submitted", "failed"}
    /\ status[k] = "submitted" => k \in txns

\* A request about to insert the transaction is the first ever to do so: the
\* claim alone prevents the double payment, before the unique index has to.
NeverPaidTwice ==
  \A p \in Procs : pc[p] \in {"quote", "submit"} => job[p].key \notin txns

\* What a reviewer approved is what is executed: once inserted, the action row
\* of a key keeps its digest and its thread, also when proposals race.
ProposalImmutable ==
  [][\A k \in Keys : status[k] # "none" =>
       digest'[k] = digest[k] /\ home'[k] = home[k] /\ status'[k] # "none"]_vars

\* Of two reviewers deciding one approval request, one verdict is recorded and
\* it is never revised.
DecidedOnce ==
  [][\A k \in Keys, a \in Procs : approval[k][a] \notin {"none", "pending"} =>
       approval'[k][a] = approval[k][a]]_vars

\* What a reviewer is asked about, and whatever is approved or executed, is an
\* action that the policy permits as it is recorded: a request evaluates the
\* policy on a digest of its own and works on a row another one may have made.
ReviewedIsPermitted ==
  \A k \in Keys :
    \/ status[k] \in {"pending_approval", "approved", "executing", "submitted", "failed"}
    \/ \E a \in Procs : approval[k][a] # "none"
    => /\ digest[k].world \in ClearWorlds \cap GroundedWorlds
       /\ Cost[k] <= digest[k].balance

\* The requests, resumptions and store calls of this module implement the
\* effect lifecycle, with the transaction rows as the money that moved.
Boundary == INSTANCE EffectBoundary WITH
  phase <- status,
  granted <- {k \in Keys : \E a \in Procs : approval[k][a] = "approved"},
  paid <- txns

KeepsBoundary == Boundary!Spec

-----------------------------------------------------------------------------
(* The wallet.                                                             *)

\* The wallet is never charged for more than the transactions inserted, however
\* the quotes and debits of several executions interleave or fail.
NeverOvercharged == balance + SumFunctionOnSet(Cost, txns) >= OpeningBalance

\* When no request is between transaction_insert and wallet_balance_set, the
\* balance is the opening balance less what the inserted transactions cost.
BalanceAccurate ==
  (\A p \in Procs : pc[p] # "debit") =>
    balance = OpeningBalance - SumFunctionOnSet(Cost, txns)

-----------------------------------------------------------------------------
(* Liveness.                                                               *)

\* A request thread that has been started is scheduled until it answers.
FairSpec == Spec /\ \A p \in Procs : WF_vars(Step(p))

\* An execution that goes wrong inside the try of transfer_execute is reported,
\* whichever requests race, expire or fail.  A claimed action stays executing
\* only if the server stops or a store call outside that try raises: the audit
\* row between the claim and the try, or action_result itself.
ClaimedIsReported ==
  Faults \cap {"crash", "store"} = {} =>
    \A k \in Keys :
      status[k] = "executing" ~> status[k] \in {"submitted", "failed"}

OneAtATime == \A p, q \in Procs : pc[p] # "idle" /\ pc[q] # "idle" => p = q

\* Nobody asks for a transfer besides k: another message would replace the call
\* its thread waits for, and another payment would change its digest.
OnlyTransfer(k) == \A p \in Procs : job[p].key \in {k, None}

=============================================================================
