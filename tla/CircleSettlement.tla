-------------------------- MODULE CircleSettlement --------------------------
(***************************************************************************)
(* What happens to an approved transfer on the Circle testnet provider:    *)
(* CircleTestnetProvider submits it, Circle moves its transaction through  *)
(* its states on its own, and the local transactions row follows by signed *)
(* webhook notifications and by status polls.                              *)
(*                                                                         *)
(* Circle itself is outside the repository.  Modelled of it, from what the *)
(* adapter and the webhook endpoint rely on: one transaction per provider  *)
(* idempotency key, states that follow one another, a notification of each *)
(* state, delivered at least once and in any order, answers that get lost. *)
(* Every request runs on its own thread; a step is one Store or SDK call.  *)
(***************************************************************************)
EXTENDS Naturals, Sequences, FiniteSets

CONSTANTS
  Actions,    \* approved transfers
  Workers,    \* request threads of the HTTP server
  MaxHistory, \* bound on the states a provider transaction goes through
  Faults,     \* what may go wrong in this instance
  None        \* no row, no local value

ASSUME SettlementAssumption ==
  /\ MaxHistory \in Nat \ {0}
  /\ Faults \subseteq {"timeout", "refusal", "blank", "reorder", "crash"}
  /\ None \notin Actions

VARIABLES
  mapped,  \* the webhook subscription is mapped to the organization
  history, \* history[a]: states Circle's transaction of a went through
  action,  \* action[a]: status column of the action row
  row,     \* row[a]: provider_status and normalized_status in transactions
  events,  \* events[n]: status of the webhook_events row of notification n
  pc,      \* pc[w]: the next call of request w
  job      \* job[w]: the local variables of request w

remote == <<mapped, history>>
locals == <<pc, job>>
vars   == <<mapped, history, action, row, events, pc, job>>

\* The states of a provider transaction and those that can be seen next: what
\* comes before SENT may pass unseen.  STUCK stands for any state the adapter
\* has never heard of.
Follows == [
  INITIATED |-> {"PENDING_RISK_SCREENING", "QUEUED", "SENT"},
  PENDING_RISK_SCREENING |-> {"DENIED", "QUEUED"},
  QUEUED    |-> {"SENT", "CANCELLED"},
  SENT      |-> {"CONFIRMED", "FAILED", "STUCK"},
  STUCK     |-> {"CONFIRMED", "FAILED"},
  CONFIRMED |-> {"COMPLETE"},
  DENIED |-> {}, CANCELLED |-> {}, FAILED |-> {}, COMPLETE |-> {}]

States == DOMAIN Follows

\* Variant: a state that is not known counts as a failure.
StatusOfUnknown(s) ==
  CASE s \in {"INITIATED", "PENDING_RISK_SCREENING"} -> "pending"
    [] s = "DENIED" -> "denied"
    [] s \in {"QUEUED", "SENT"} -> "submitted"
    [] s \in {"CONFIRMED", "COMPLETE"} -> "confirmed"
    [] s = "CANCELLED" -> "cancelled"
    [] OTHER -> "failed"

\* STATUS_MAP, read with the default 'pending'.
StatusMap(s) ==
  CASE s = "DENIED" -> "denied"
    [] s \in {"QUEUED", "SENT"} -> "submitted"
    [] s \in {"CONFIRMED", "COMPLETE"} -> "confirmed"
    [] s = "FAILED" -> "failed"
    [] s = "CANCELLED" -> "cancelled"
    [] OTHER -> "pending"

FinalStatuses == {"denied", "confirmed", "failed", "cancelled"}
Statuses == FinalStatuses \cup {"pending", "submitted"}

\* No row and no state are told apart from every row and every state.
ASSUME NoneAssumption ==
  None \notin [state : States, status : Statuses] \cup States

\* The notification of the i-th state of a's transaction; number 0 is one that
\* names the transaction and no state.
Notes == Actions \X (0 .. MaxHistory)

Accepted(a) == history[a] # <<>>
Remote(a) == history[a][Len(history[a])]

\* What is stored of a provider state.
Row(s) == [state |-> s, status |-> StatusMap(s)]

Steps == {"idle", "claim", "submit", "insert", "success", "failure", "record",
          "find", "apply", "mark", "fetch", "update"}
Jobs == [action : Actions \cup {None}, note : 0 .. MaxHistory,
         state : States \cup {None}]
NoJob == [action |-> None, note |-> 0, state |-> None]

Init ==
  /\ mapped = FALSE
  /\ history = [a \in Actions |-> <<>>]
  /\ action = [a \in Actions |-> "approved"]
  /\ row = [a \in Actions |-> None]
  /\ events = [n \in Notes |-> "none"]
  /\ pc = [w \in Workers |-> "idle"]
  /\ job = [w \in Workers |-> NoJob]

-----------------------------------------------------------------------------
At(w, step) == pc[w] = step
Goto(w, step) == pc' = [pc EXCEPT ![w] = step]
Start(w, step, j) ==
  At(w, "idle") /\ Goto(w, step) /\ job' = [job EXCEPT ![w] = j]
Leave(w) == Goto(w, "idle") /\ job' = [job EXCEPT ![w] = NoJob]
Note(w) == <<job[w].action, job[w].note>>

\* transaction_update: the status given, whatever the row holds.
Update(w, s) == row' = [row EXCEPT ![job[w].action] = Row(s)]

\* Variant: webhook_insert does not look for the notification.
NotMarked(n) == events[n] # "processed"

\* The unique index on (provider, provider_event_id) lets the event in.
Fresh(n) == events[n] = "none"

\* Variant: the row keeps the state it has.
StateBefore(w) == row[job[w].action].state

\* The state a webhook or a poll writes: the one received, or else the one the
\* row had when it was read.
StateReceived(w) == job[w].state

-----------------------------------------------------------------------------
(* transfer_execute on the testnet provider.                               *)

\* The approved tool runs, or runs again: a retry starts in the same place.
Run(w, a) ==
  /\ Start(w, "claim", [NoJob EXCEPT !.action = a])
  /\ UNCHANGED <<remote, action, row, events>>

\* action_claim; who does not get it reports a duplicate or an error.
Claim(w) ==
  LET a == job[w].action IN
  /\ At(w, "claim")
  /\ \/ /\ action[a] = "approved"
        /\ action' = [action EXCEPT ![a] = "executing"]
        /\ Goto(w, "submit") /\ UNCHANGED job
     \/ action[a] # "approved" /\ Leave(w) /\ UNCHANGED action
  /\ UNCHANGED <<remote, row, events>>

\* gateway.submit_transfer: Circle accepts and answers, or accepts and the
\* answer is lost, or the call is refused or never made.
Submit(w) ==
  LET a == job[w].action
      accept == history' = [history EXCEPT ![a] = <<"INITIATED">>] IN
  /\ At(w, "submit")
  /\ \/ /\ accept
        /\ job' = [job EXCEPT ![w].state = "INITIATED"] /\ Goto(w, "insert")
     \/ "timeout" \in Faults /\ accept /\ Goto(w, "failure") /\ UNCHANGED job
     \/ "refusal" \in Faults /\ Goto(w, "failure") /\ UNCHANGED <<job, history>>
  /\ UNCHANGED <<mapped, action, row, events>>

\* Variant: the action is reported before the transaction is inserted.
InsertNothing(w) == UNCHANGED row

\* transaction_insert of the state in the answer.
InsertRow(w) == row' = [row EXCEPT ![job[w].action] = Row(job[w].state)]

Insert(w) ==
  /\ At(w, "insert")
  /\ InsertRow(w)
  /\ job' = [job EXCEPT ![w].state = None]
  /\ Goto(w, "success")
  /\ UNCHANGED <<remote, action, events>>

\* action_result, a compare-and-set from executing.
Result(w) ==
  LET a == job[w].action IN
  /\ pc[w] \in {"success", "failure"}
  /\ action' = [action EXCEPT ![a] = IF @ # "executing" THEN @
                ELSE IF At(w, "success") THEN "submitted" ELSE "failed"]
  /\ Leave(w)
  /\ UNCHANGED <<remote, row, events>>

-----------------------------------------------------------------------------
(* webhook_process.                                                        *)

\* A notification that exists; in order, when nothing reorders them.
Deliverable(a, i) ==
  /\ Accepted(a)
  /\ i <= Len(history[a])
  /\ i = 0 => "blank" \in Faults
  /\ "reorder" \in Faults \/ \A j \in 1 .. i - 1 : events[<<a, j>>] = "processed"

\* The signature is good and webhook_subscription_get finds the organization;
\* without a mapping the request fails and leaves no trace.
Deliver(w, a, i) ==
  /\ Deliverable(a, i)
  /\ mapped
  /\ Start(w, "record", [NoJob EXCEPT !.action = a, !.note = i])
  /\ UNCHANGED <<remote, action, row, events>>

\* webhook_insert: a notification that is already there is a duplicate.
Record(w) ==
  /\ At(w, "record")
  /\ \/ /\ Fresh(Note(w))
        /\ events' = [events EXCEPT ![Note(w)] = "received"]
        /\ Goto(w, "find") /\ UNCHANGED job
     \/ ~Fresh(Note(w)) /\ Leave(w) /\ UNCHANGED events
  /\ UNCHANGED <<remote, action, row>>

\* transaction_get_by_provider_reference: a transaction nobody knows is skipped.
Find(w) ==
  LET a == job[w].action
      i == job[w].note IN
  /\ At(w, "find")
  /\ \/ row[a] = None /\ Goto(w, "mark") /\ UNCHANGED job
     \/ /\ row[a] # None
        /\ job' = [job EXCEPT ![w].state = IF i = 0 THEN row[a].state
                                                    ELSE history[a][i]]
        /\ Goto(w, "apply")
  /\ UNCHANGED <<remote, action, row, events>>

Apply(w) ==
  /\ At(w, "apply")
  /\ Update(w, StateReceived(w))
  /\ job' = [job EXCEPT ![w].state = None]
  /\ Goto(w, "mark")
  /\ UNCHANGED <<remote, action, events>>

\* webhook_status.
Mark(w) ==
  /\ At(w, "mark")
  /\ events' = [events EXCEPT ![Note(w)] = "processed"]
  /\ Leave(w)
  /\ UNCHANGED <<remote, action, row>>

-----------------------------------------------------------------------------
(* transaction_status.                                                     *)

\* A user asks for the status; transaction_get finds the row.
Poll(w, a) ==
  /\ row[a] # None
  /\ Start(w, "fetch", [NoJob EXCEPT !.action = a, !.state = row[a].state])
  /\ UNCHANGED <<remote, action, row, events>>

\* gateway.transaction: an answer without a state leaves the one read before.
Fetch(w) ==
  LET a == job[w].action IN
  /\ At(w, "fetch")
  /\ \/ job' = [job EXCEPT ![w].state = Remote(a)] /\ Goto(w, "update")
     \/ "blank" \in Faults /\ Goto(w, "update") /\ UNCHANGED job
     \/ "timeout" \in Faults /\ Leave(w)
  /\ UNCHANGED <<remote, action, row, events>>

Store(w) ==
  /\ At(w, "update")
  /\ Update(w, StateReceived(w))
  /\ Leave(w)
  /\ UNCHANGED <<remote, action, events>>

-----------------------------------------------------------------------------
(* Around the requests.                                                    *)

\* webhook_subscription_upsert by the setup script.
Subscribe ==
  /\ ~mapped /\ mapped' = TRUE
  /\ UNCHANGED <<history, action, row, events, locals>>

\* Circle's transaction moves on.
Advance(a) ==
  /\ Accepted(a) /\ Len(history[a]) < MaxHistory
  /\ \E s \in Follows[Remote(a)] :
       history' = [history EXCEPT ![a] = Append(@, s)]
  /\ UNCHANGED <<mapped, action, row, events, locals>>

\* The server stops; the database and Circle go on.
Crash ==
  /\ "crash" \in Faults
  /\ \E w \in Workers : ~At(w, "idle")
  /\ pc' = [w \in Workers |-> "idle"]
  /\ job' = [w \in Workers |-> NoJob]
  /\ UNCHANGED <<remote, action, row, events>>

Step(w) ==
  \/ Claim(w) \/ Submit(w) \/ Insert(w) \/ Result(w)
  \/ Record(w) \/ Find(w) \/ Apply(w) \/ Mark(w)
  \/ Fetch(w) \/ Store(w)

Next ==
  \/ \E w \in Workers, a \in Actions : Run(w, a) \/ Poll(w, a)
  \/ \E w \in Workers, n \in Notes : Deliver(w, n[1], n[2])
  \/ \E w \in Workers : Step(w)
  \/ \E a \in Actions : Advance(a)
  \/ Subscribe
  \/ Crash

Spec == Init /\ [][Next]_vars

-----------------------------------------------------------------------------
(* Safety.                                                                 *)

\* Rows, events and local variables have their types.
TypeOK ==
  /\ mapped \in BOOLEAN
  /\ history \in [Actions -> Seq(States)]
  /\ action \in [Actions -> {"approved", "executing", "submitted", "failed"}]
  /\ row \in [Actions -> [state : States, status : Statuses] \cup {None}]
  /\ events \in [Notes -> {"none", "received", "processed"}]
  /\ pc \in [Workers -> Steps]
  /\ job \in [Workers -> Jobs]

\* "Submission is not finality": a row is confirmed, failed, denied or
\* cancelled only when Circle's transaction has reached that end, also while
\* polls and late notifications race and for states nobody has heard of.
FinalIsTrue ==
  \A a \in Actions :
    row[a] # None /\ row[a].status \in FinalStatuses =>
      /\ Remote(a) \in {"DENIED", "CANCELLED", "CONFIRMED", "COMPLETE", "FAILED"}
      /\ row[a].status = StatusMap(Remote(a))

\* Of the requests that deliver one notification, one works on it and once it
\* is marked processed none does.
NotificationOnce ==
  \A n \in Notes :
    LET working == {w \in Workers : pc[w] \in {"find", "apply", "mark"} /\ Note(w) = n} IN
    /\ Cardinality(working) <= 1
    /\ events[n] # "received" => working = {}

\* What is reported as submitted can be polled and reconciled: it has a row,
\* and Circle has accepted it.
SubmittedIsTracked ==
  \A a \in Actions : action[a] = "submitted" => Accepted(a) /\ row[a] # None

-----------------------------------------------------------------------------
(* Liveness.                                                               *)

\* A request thread that has been started is scheduled until it answers.
FairSpec == Spec /\ \A w \in Workers : WF_vars(Step(w))

PollStored(a) == \E w \in Workers : Store(w) /\ job[w].action = a

\* What is about to be stored is the state the provider is in.
Current == \A w \in Workers : At(w, "update") => job[w].state = Remote(job[w].action)

\* A user who keeps polling brings the row to the provider's state for good,
\* unless answers keep coming without a state: however the polls overlap with
\* late and reordered notifications, and whatever failed or stopped before.
PollingReconciles ==
  \A a \in Actions :
    []<><<PollStored(a)>>_vars /\ <>[]Current =>
      <>[](row[a] # None /\ row[a].state = Remote(a))
=============================================================================
