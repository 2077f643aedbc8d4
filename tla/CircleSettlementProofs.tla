----------------------- MODULE CircleSettlementProofs -----------------------
(***************************************************************************)
(* Theorems about CircleSettlement, for any number of transfers, request   *)
(* threads and provider states and any faults.                             *)
(*                                                                         *)
(* A final row is true because whatever a request carries to the row is a  *)
(* state Circle's transaction went through, and because Circle does not    *)
(* leave an end: Carried and Ended say that.  That a transfer is submitted *)
(* once, so that no history starts again, rests on Claimed.                *)
(***************************************************************************)
EXTENDS CircleSettlement, TLAPS, FiniteSetTheorems

\* The provider states that are ends.
Ends == {"DENIED", "CANCELLED", "CONFIRMED", "COMPLETE", "FAILED"}

\* Circle's transaction of a went through state s.
Been(a, s) == \E i \in 1 .. Len(history[a]) : history[a][i] = s

\* The steps between claim and result, and those of a notification.
Executes(w) == pc[w] \in {"submit", "insert", "success", "failure"}
Works(w) == pc[w] \in {"find", "apply", "mark"}

\* What a request carries is a state that was.
CarriedBy(w) ==
  /\ pc[w] # "idle" => job[w].action \in Actions
  /\ job[w].state # None =>
       job[w].action \in Actions /\ Been(job[w].action, job[w].state)
  /\ pc[w] \in {"insert", "apply", "fetch", "update"} => job[w].state # None
  /\ pc[w] \in {"record", "find"} =>
       job[w].note \in 0 .. Len(history[job[w].action])
  /\ pc[w] = "success" => row[job[w].action] # None

Carried == \A w \in Workers : CarriedBy(w)

\* A row holds a state that was, and its status.
Rows ==
  \A a \in Actions : row[a] # None =>
    Been(a, row[a].state) /\ row[a].status = StatusMap(row[a].state)

\* Circle does not leave an end.
Ended ==
  \A a \in Actions : \A i \in 1 .. Len(history[a]) :
    StatusMap(history[a][i]) \in FinalStatuses =>
      Remote(a) \in Ends /\ StatusMap(Remote(a)) = StatusMap(history[a][i])

\* One request executes a transfer, and only one that is executing; before it
\* is claimed and until it is submitted Circle does not know it.
Claimed ==
  /\ \A w \in Workers : Executes(w) => action[job[w].action] = "executing"
  /\ \A v, w \in Workers :
       Executes(v) /\ Executes(w) /\ job[v].action = job[w].action => v = w
  /\ \A a \in Actions : action[a] = "approved" => history[a] = <<>>
  /\ \A w \in Workers : pc[w] = "submit" => history[job[w].action] = <<>>

\* One request works on a notification.
Noted ==
  /\ \A w \in Workers : Works(w) => events[Note(w)] = "received"
  /\ \A v, w \in Workers : Works(v) /\ Works(w) /\ Note(v) = Note(w) => v = w

\* The inductive invariant.
Inv == TypeOK /\ Carried /\ Rows /\ Ended /\ Claimed /\ Noted
       /\ SubmittedIsTracked

\* A step of request w leaves the other requests alone.
Alone(w) == \A v \in Workers \ {w} : pc'[v] = pc[v] /\ job'[v] = job[v]

\* A step of w that takes no transfer and no notification up.
Quiet(w) ==
  /\ Alone(w)
  /\ UNCHANGED <<history, action, events>>
  /\ Executes(w)' => Executes(w) /\ job'[w].action = job[w].action
  /\ pc'[w] # "submit"
  /\ Works(w)' => Works(w) /\ Note(w)' = Note(w)

-----------------------------------------------------------------------------
(* Lemmas about states, histories and the ways a request moves.            *)

LEMMA StatesAre ==
  /\ States = {"INITIATED", "PENDING_RISK_SCREENING", "QUEUED", "SENT",
               "STUCK", "CONFIRMED", "DENIED", "CANCELLED", "FAILED",
               "COMPLETE"}
  /\ None \notin States
  BY NoneAssumption DEF States, Follows

\* What follows a state is a state, and an end keeps its status.
LEMMA EndsStay ==
  ASSUME NEW s \in States, NEW t \in Follows[s]
  PROVE  /\ t \in States
         /\ StatusMap(s) \in FinalStatuses =>
              t \in Ends /\ StatusMap(t) = StatusMap(s)
  BY StatesAre DEF Follows, Ends, StatusMap, FinalStatuses

\* A state of final status is an end.
LEMMA FinalIsEnd ==
  ASSUME NEW s \in States, StatusMap(s) \in FinalStatuses PROVE s \in Ends
  BY StatesAre DEF StatusMap, FinalStatuses, Ends

LEMMA RowType ==
  ASSUME NEW s \in States
  PROVE  /\ Row(s) \in [state : States, status : Statuses] /\ Row(s) # None
         /\ Row(s).state = s /\ Row(s).status = StatusMap(s)
  BY NoneAssumption DEF Row, StatusMap, Statuses, FinalStatuses

LEMMA NoJobType == NoJob \in Jobs /\ NoJob.state = None
  BY SettlementAssumption DEF NoJob, Jobs

\* A request moves to step s with locals j and leaves the others alone.
LEMMA Moves ==
  ASSUME TypeOK, NEW w \in Workers, NEW s \in Steps, NEW j \in Jobs,
         Goto(w, s), job' = [job EXCEPT ![w] = j]
  PROVE  /\ pc' \in [Workers -> Steps] /\ job' \in [Workers -> Jobs]
         /\ pc'[w] = s /\ job'[w] = j
         /\ Alone(w)
  BY DEF TypeOK, Goto, Alone

LEMMA Leaves ==
  ASSUME TypeOK, NEW w \in Workers, Leave(w)
  PROVE  /\ pc' \in [Workers -> Steps] /\ job' \in [Workers -> Jobs]
         /\ pc'[w] = "idle" /\ job'[w] = NoJob /\ Alone(w) /\ CarriedBy(w)'
  <1>1. /\ pc' \in [Workers -> Steps] /\ job' \in [Workers -> Jobs]
        /\ pc'[w] = "idle" /\ job'[w] = NoJob /\ Alone(w)
    BY NoJobType, Moves DEF Leave, Steps
  <1>2. CarriedBy(w)'
    BY <1>1, NoJobType DEF CarriedBy
  <1>3. QED
    BY <1>1, <1>2

\* Assigning local variables of a request keeps their type.
LEMMA JobAssign ==
  ASSUME NEW a \in Actions, NEW s \in States \cup {None}, NEW j \in Jobs,
         NEW i \in 0 .. MaxHistory
  PROVE  /\ [NoJob EXCEPT !.action = a] \in Jobs
         /\ [NoJob EXCEPT !.action = a, !.state = s] \in Jobs
         /\ [NoJob EXCEPT !.action = a, !.note = i] \in Jobs
         /\ [j EXCEPT !.state = s] \in Jobs
  BY NoJobType DEF Jobs, NoJob

\* What a request carries is kept when histories and rows only grow.
LEMMA KeepsCarried ==
  ASSUME NEW w \in Workers, Inv, TypeOK', Alone(w), CarriedBy(w)',
         \A a \in Actions :
           /\ Len(history[a]) <= Len(history'[a])
           /\ \A s : Been(a, s) => Been(a, s)'
           /\ row[a] # None => row'[a] # None
  PROVE  Carried'
  <1> SUFFICES ASSUME NEW v \in Workers, v # w PROVE CarriedBy(v)'
    BY DEF Carried
  <1>1. pc'[v] = pc[v] /\ job'[v] = job[v] /\ CarriedBy(v) /\ job[v] \in Jobs
    BY DEF Inv, Carried, Alone, TypeOK
  <1>2. \A a \in Actions : Len(history[a]) \in Nat /\ Len(history'[a]) \in Nat
    BY DEF Inv, TypeOK
  <1>3. QED
    BY <1>1, <1>2 DEF CarriedBy

LEMMA QuietInv ==
  ASSUME NEW w \in Workers, Inv, Quiet(w)
  PROVE  Ended' /\ Claimed' /\ Noted'
  <1>1. Ended'
    BY DEF Inv, Ended, Quiet, Remote
  <1>2. \A v \in Workers :
          /\ Executes(v)' => Executes(v) /\ job'[v].action = job[v].action
          /\ Works(v)' => Works(v) /\ Note(v)' = Note(v)
          /\ pc'[v] = "submit" => pc[v] = "submit" /\ job'[v] = job[v]
    BY DEF Quiet, Alone, Executes, Works, Note
  <1>3. Claimed'
    BY <1>2 DEF Inv, Claimed, Quiet
  <1>4. Noted'
    BY <1>2 DEF Inv, Noted, Quiet
  <1>5. QED
    BY <1>1, <1>3, <1>4

\* A quiet step that leaves the rows alone.
LEMMA QuietRowsInv ==
  ASSUME NEW w \in Workers, Inv, TypeOK', Quiet(w), UNCHANGED row, CarriedBy(w)'
  PROVE  Inv'
  <1>1. Ended' /\ Claimed' /\ Noted'
    BY QuietInv
  <1>2. \A a \in Actions : \A s : Been(a, s) => Been(a, s)'
    BY DEF Quiet, Been
  <1>3. Carried'
    <2>1. \A a \in Actions : Len(history[a]) \in Nat
      BY DEF Inv, TypeOK
    <2>2. QED
      BY <1>2, <2>1, KeepsCarried DEF Quiet
  <1>4. Rows' /\ SubmittedIsTracked'
    BY <1>2 DEF Inv, Rows, SubmittedIsTracked, Quiet, Accepted
  <1>5. QED
    BY <1>1, <1>3, <1>4 DEF Inv

\* A quiet step that writes the row of its transfer.
LEMMA QuietWriteInv ==
  ASSUME NEW w \in Workers, Inv, TypeOK', Quiet(w),
         NEW a \in Actions, NEW s \in States, Been(a, s),
         row' = [row EXCEPT ![a] = Row(s)], CarriedBy(w)'
  PROVE  Inv'
  <1>1. Ended' /\ Claimed' /\ Noted'
    BY QuietInv
  <1>2. \A b \in Actions : \A t : Been(b, t) => Been(b, t)'
    BY DEF Quiet, Been
  <1>3. /\ row'[a] = Row(s) /\ Row(s) # None
        /\ Row(s).state = s /\ Row(s).status = StatusMap(s)
        /\ \A b \in Actions \ {a} : row'[b] = row[b]
    BY RowType DEF Inv, TypeOK
  <1>4. Carried'
    <2>1. \A b \in Actions : Len(history[b]) \in Nat
      BY DEF Inv, TypeOK
    <2>2. \A b \in Actions : row[b] # None => row'[b] # None
      BY <1>3
    <2>3. QED
      BY <1>2, <2>1, <2>2, KeepsCarried DEF Quiet
  <1>5. Rows'
    BY <1>2, <1>3 DEF Inv, Rows
  <1>6. SubmittedIsTracked'
    BY <1>3 DEF Inv, SubmittedIsTracked, Quiet, Accepted
  <1>7. QED
    BY <1>1, <1>4, <1>5, <1>6 DEF Inv

LEMMA InitInv == Init => Inv
  <1> SUFFICES ASSUME Init PROVE Inv
    OBVIOUS
  <1>1. TypeOK
    <2>1. <<>> \in Seq(States)
      OBVIOUS
    <2>2. NoJob \in Jobs
      BY NoJobType
    <2>3. QED
      BY <2>1, <2>2 DEF Init, TypeOK, Steps
  <1>2. Carried
    BY NoJobType DEF Init, Carried, CarriedBy
  <1>3. Rows /\ Ended /\ Claimed /\ Noted /\ SubmittedIsTracked
    BY DEF Init, Rows, Ended, Claimed, Noted, SubmittedIsTracked, Executes, Works
  <1>4. QED
    BY <1>1, <1>2, <1>3 DEF Inv

-----------------------------------------------------------------------------
(* Every step keeps the invariant: execution.                              *)

LEMMA RunInv ==
  ASSUME NEW w \in Workers, NEW a \in Actions, Inv, Run(w, a) PROVE Inv'
  <1> DEFINE j == [NoJob EXCEPT !.action = a]
  <1>1. j \in Jobs /\ j.action = a /\ j.state = None
    BY NoJobType DEF NoJob, Jobs
  <1>2. /\ pc' \in [Workers -> Steps] /\ job' \in [Workers -> Jobs]
        /\ pc'[w] = "claim" /\ job'[w] = j /\ Alone(w)
    BY <1>1, Moves DEF Inv, Run, Start, Steps
  <1>3. TypeOK'
    BY <1>2 DEF Inv, TypeOK, Run, remote
  <1>4. Quiet(w) /\ CarriedBy(w)'
    BY <1>1, <1>2 DEF Quiet, CarriedBy, Run, remote, Executes, Works
  <1>5. QED
    BY <1>3, <1>4, QuietRowsInv DEF Run

LEMMA ClaimInv == ASSUME NEW w \in Workers, Inv, Claim(w) PROVE Inv'
  <1> DEFINE a == job[w].action
  <1>1. a \in Actions /\ pc[w] = "claim" /\ CarriedBy(w) /\ job[w] \in Jobs
    BY DEF Inv, TypeOK, Carried, CarriedBy, Claim, At
  <1>2. CASE action[a] # "approved" /\ Leave(w) /\ UNCHANGED action
    <2>1. /\ pc' \in [Workers -> Steps] /\ job' \in [Workers -> Jobs]
          /\ pc'[w] = "idle" /\ Alone(w) /\ CarriedBy(w)'
      BY <1>2, Leaves DEF Inv
    <2>2. TypeOK' /\ Quiet(w)
      BY <1>2, <2>1 DEF Inv, TypeOK, Quiet, Claim, remote, Executes, Works
    <2>3. QED
      BY <2>1, <2>2, QuietRowsInv DEF Claim
  <1>3. CASE /\ action[a] = "approved"
             /\ action' = [action EXCEPT ![a] = "executing"]
             /\ Goto(w, "submit") /\ UNCHANGED job
    <2>1. /\ pc' \in [Workers -> Steps] /\ job' \in [Workers -> Jobs]
          /\ pc'[w] = "submit" /\ job'[w] = job[w] /\ Alone(w)
      <3>1. job' = [job EXCEPT ![w] = job[w]]
        BY <1>3 DEF Inv, TypeOK
      <3>2. QED
        BY <1>1, <1>3, <3>1, Moves DEF Inv, Steps
    <2>2. TypeOK'
      BY <1>3, <2>1 DEF Inv, TypeOK, Claim, remote
    <2>3. Carried'
      <3>1. CarriedBy(w)'
        BY <1>1, <2>1 DEF CarriedBy, Claim, remote, Been
      <3>2. \A b \in Actions : \A s : Been(b, s) => Been(b, s)'
        BY DEF Claim, remote, Been
      <3>3. \A b \in Actions : Len(history[b]) \in Nat
        BY DEF Inv, TypeOK
      <3>4. QED
        BY <2>1, <2>2, <3>1, <3>2, <3>3, KeepsCarried DEF Claim, remote
    <2>4. Rows' /\ Ended'
      BY DEF Inv, Rows, Ended, Been, Remote, Claim, remote
    <2>5. Noted'
      BY <2>1 DEF Inv, Noted, Works, Note, Alone, Claim
    <2>6. SubmittedIsTracked'
      BY <1>1, <1>3 DEF Inv, TypeOK, SubmittedIsTracked, Accepted, Claim, remote
    <2>7. Claimed'
      <3>1. \A v \in Workers : v # w /\ Executes(v)' =>
              Executes(v) /\ job'[v] = job[v] /\ job[v].action # a
        BY <1>1, <1>3, <2>1 DEF Inv, Claimed, Executes, Alone
      <3>2. /\ action'[a] = "executing" /\ history[a] = <<>>
            /\ \A b \in Actions \ {a} : action'[b] = action[b]
        BY <1>1, <1>3 DEF Inv, TypeOK, Claimed
      <3>3. \A v \in Workers : Executes(v)' => action'[job'[v].action] = "executing"
        <4>1. \A v \in Workers : Executes(v) => job[v].action \in Actions
          BY DEF Inv, Carried, CarriedBy, Executes
        <4>2. QED
          BY <2>1, <3>1, <3>2, <4>1 DEF Inv, Claimed
      <3>4. \A v, u \in Workers :
              Executes(v)' /\ Executes(u)' /\ job'[v].action = job'[u].action => v = u
        BY <2>1, <3>1 DEF Inv, Claimed
      <3>5. history' = history
        BY DEF Claim, remote
      <3>6. \A b \in Actions : action'[b] = "approved" => history'[b] = <<>>
        BY <3>2, <3>5 DEF Inv, Claimed
      <3>7. \A v \in Workers : pc'[v] = "submit" => history'[job'[v].action] = <<>>
        BY <2>1, <3>2, <3>5 DEF Inv, Claimed, Alone
      <3>8. QED
        BY <3>3, <3>4, <3>6, <3>7 DEF Claimed, Executes
    <2>8. QED
      BY <2>2, <2>3, <2>4, <2>5, <2>6, <2>7 DEF Inv
  <1>4. QED
    BY <1>2, <1>3 DEF Claim

LEMMA SubmitInv == ASSUME NEW w \in Workers, Inv, Submit(w) PROVE Inv'
  <1> DEFINE a == job[w].action
  <1>1. /\ a \in Actions /\ pc[w] = "submit" /\ CarriedBy(w) /\ job[w] \in Jobs
        /\ history[a] = <<>> /\ action[a] = "executing" /\ TypeOK
    BY DEF Inv, TypeOK, Carried, CarriedBy, Submit, At, Claimed, Executes
  <1>2. job[w].state = None /\ row[a] = None
    BY <1>1 DEF Inv, CarriedBy, Rows, Been
  <1>3. PICK x \in {"insert", "failure"}, y \in {None, "INITIATED"} :
          /\ Goto(w, x) /\ job' = [job EXCEPT ![w] = [@ EXCEPT !.state = y]]
          /\ y = None => x = "failure"
          /\ y # None => history' = [history EXCEPT ![a] = <<"INITIATED">>]
          /\ history' \in {history, [history EXCEPT ![a] = <<"INITIATED">>]}
          /\ x = "insert" => y # None
    <2>1. job[w] = [job[w] EXCEPT !.state = None]
      BY <1>1, <1>2 DEF Jobs
    <2>2. job = [job EXCEPT ![w] = [job[w] EXCEPT !.state = None]]
      BY <1>1, <2>1 DEF TypeOK
    <2>3. CASE /\ history' = [history EXCEPT ![a] = <<"INITIATED">>]
               /\ job' = [job EXCEPT ![w].state = "INITIATED"]
               /\ Goto(w, "insert")
      BY <2>3, StatesAre
    <2>4. CASE /\ history' = [history EXCEPT ![a] = <<"INITIATED">>]
               /\ Goto(w, "failure") /\ UNCHANGED job
      BY <2>2, <2>4
    <2>5. CASE Goto(w, "failure") /\ UNCHANGED <<job, history>>
      BY <2>2, <2>5
    <2>6. QED
      BY <2>3, <2>4, <2>5 DEF Submit
  <1> DEFINE j == [job[w] EXCEPT !.state = y]
  <1>4. /\ pc' \in [Workers -> Steps] /\ job' \in [Workers -> Jobs]
        /\ pc'[w] = x /\ job'[w] = j /\ Alone(w)
    <2>1. j \in Jobs /\ x \in Steps
      BY <1>1, <1>3, StatesAre DEF Jobs, Steps
    <2>2. job' = [job EXCEPT ![w] = j]
      BY <1>1, <1>3 DEF TypeOK
    <2>3. QED
      BY <1>1, <1>3, <2>1, <2>2, Moves
  <1>5. j.action = a /\ j.state = y
    BY <1>1 DEF Jobs
  <1>6. /\ history' \in [Actions -> Seq(States)]
        /\ \A b \in Actions \ {a} : history'[b] = history[b]
        /\ history'[a] = <<>> \/ history'[a] = <<"INITIATED">>
        /\ y # None => history'[a] = <<"INITIATED">>
    <2>1. <<"INITIATED">> \in Seq(States)
      BY StatesAre
    <2>2. QED
      BY <1>1, <1>3, <2>1 DEF TypeOK
  <1>7. TypeOK'
    BY <1>1, <1>4, <1>6 DEF TypeOK, Submit
  <1>8. \A b \in Actions : /\ Len(history[b]) <= Len(history'[b])
                           /\ \A s : Been(b, s) => Been(b, s)'
    <2>1. Len(history[a]) <= Len(history'[a]) /\ \A s : ~Been(a, s)
      BY <1>1, <1>6 DEF Been
    <2>2. \A b \in Actions \ {a} : /\ Len(history[b]) <= Len(history'[b])
                                   /\ \A s : Been(b, s) => Been(b, s)'
      <3>1. \A b \in Actions : Len(history[b]) \in Nat
        BY <1>1 DEF TypeOK
      <3>2. QED
        BY <1>6, <3>1 DEF Been
    <2>3. \A s : Been(a, s) => Been(a, s)'
      BY <2>1
    <2>4. QED
      BY <2>1, <2>2, <2>3
  <1>9. Carried'
    <2>1. ASSUME y # None PROVE Been(a, y)'
      <3>1. history'[a] = <<"INITIATED">> /\ y = "INITIATED"
        BY <1>6, <2>1
      <3>2. 1 \in 1 .. Len(history'[a]) /\ history'[a][1] = y
        BY <3>1
      <3>3. QED
        BY <1>4, <1>5, <3>2 DEF Been
    <2>2. CarriedBy(w)'
      BY <1>1, <1>3, <1>4, <1>5, <2>1 DEF CarriedBy
    <2>3. QED
      BY <1>4, <1>7, <1>8, <2>2, KeepsCarried DEF Submit
  <1>10. Rows'
    BY <1>8 DEF Inv, Rows, Submit
  <1>11. Ended'
    <2>1. \A i \in 1 .. Len(history'[a]) :
            StatusMap(history'[a][i]) \notin FinalStatuses
      BY <1>6 DEF StatusMap, FinalStatuses
    <2>2. QED
      BY <1>6, <2>1 DEF Inv, Ended, Remote
  <1>12. Claimed'
    <2>1. \A v \in Workers :
            Executes(v)' => Executes(v) /\ job'[v].action = job[v].action
      BY <1>1, <1>4, <1>5 DEF Executes, Alone
    <2>2. \A v \in Workers : pc'[v] = "submit" =>
            /\ v # w /\ pc[v] = "submit" /\ job'[v] = job[v]
            /\ job[v].action # a /\ job[v].action \in Actions
      <3>1. \A v \in Workers : pc'[v] = "submit" =>
              v # w /\ pc[v] = "submit" /\ job'[v] = job[v]
        BY <1>3, <1>4 DEF Alone
      <3>2. \A v \in Workers : pc[v] = "submit" =>
              job[v].action \in Actions /\ (job[v].action = a => v = w)
        BY <1>1 DEF Inv, Claimed, Executes, Carried, CarriedBy
      <3>3. QED
        BY <3>1, <3>2
    <2>3. UNCHANGED action
      BY DEF Submit
    <2>4. QED
      BY <1>1, <1>6, <2>1, <2>2, <2>3 DEF Inv, Claimed
  <1>13. Noted'
    BY <1>3, <1>4 DEF Inv, Noted, Works, Note, Alone, Submit
  <1>14. SubmittedIsTracked'
    BY <1>1, <1>6 DEF Inv, SubmittedIsTracked, Accepted, Submit
  <1>15. QED
    BY <1>7, <1>9, <1>10, <1>11, <1>12, <1>13, <1>14 DEF Inv

LEMMA InsertInv == ASSUME NEW w \in Workers, Inv, Insert(w) PROVE Inv'
  <1> DEFINE a == job[w].action
             s == job[w].state
             j == [job[w] EXCEPT !.state = None]
  <1>1. /\ a \in Actions /\ pc[w] = "insert" /\ job[w] \in Jobs
        /\ s \in States /\ Been(a, s) /\ TypeOK
    BY DEF Inv, TypeOK, Carried, CarriedBy, Insert, At, Jobs
  <1>2. j \in Jobs /\ j.action = a /\ j.state = None
    BY <1>1 DEF Jobs
  <1>3. /\ pc' \in [Workers -> Steps] /\ job' \in [Workers -> Jobs]
        /\ pc'[w] = "success" /\ job'[w] = j /\ Alone(w)
    <2>1. job' = [job EXCEPT ![w] = j]
      BY DEF Insert
    <2>2. QED
      BY <1>1, <1>2, <2>1, Moves DEF Insert, Steps
  <1>4. row' = [row EXCEPT ![a] = Row(s)]
    BY DEF Insert, InsertRow
  <1>5. TypeOK'
    BY <1>1, <1>3, <1>4, RowType DEF TypeOK, Insert, remote
  <1>6. Quiet(w)
    BY <1>1, <1>2, <1>3 DEF Quiet, Insert, remote, Executes, Works
  <1>7. CarriedBy(w)'
    <2>1. row'[a] # None
      BY <1>1, <1>4, RowType DEF TypeOK
    <2>2. QED
      BY <1>1, <1>2, <1>3, <2>1 DEF CarriedBy
  <1>8. QED
    BY <1>1, <1>4, <1>5, <1>6, <1>7, QuietWriteInv

LEMMA ResultInv == ASSUME NEW w \in Workers, Inv, Result(w) PROVE Inv'
  <1> DEFINE a == job[w].action
             r == IF action[a] # "executing" THEN action[a]
                  ELSE IF At(w, "success") THEN "submitted" ELSE "failed"
  <1>1. /\ a \in Actions /\ pc[w] \in {"success", "failure"} /\ TypeOK
        /\ action[a] = "executing" /\ CarriedBy(w)
    BY DEF Inv, TypeOK, Carried, CarriedBy, Result, Claimed, Executes
  <1>2. /\ pc' \in [Workers -> Steps] /\ job' \in [Workers -> Jobs]
        /\ pc'[w] = "idle" /\ Alone(w) /\ CarriedBy(w)'
    BY <1>1, Leaves DEF Result
  <1>3. /\ action'[a] = r /\ r \in {"submitted", "failed"}
        /\ r = "submitted" => pc[w] = "success"
        /\ \A b \in Actions \ {a} : action'[b] = action[b]
    BY <1>1 DEF TypeOK, Result, At
  <1>4. TypeOK'
    BY <1>1, <1>2 DEF TypeOK, Result, remote
  <1>5. Carried'
    <2>1. \A b \in Actions : \A s : Been(b, s) => Been(b, s)'
      BY DEF Result, remote, Been
    <2>2. \A b \in Actions : Len(history[b]) \in Nat
      BY <1>1 DEF TypeOK
    <2>3. QED
      BY <1>2, <1>4, <2>1, <2>2, KeepsCarried DEF Result, remote
  <1>6. Rows' /\ Ended'
    BY DEF Inv, Rows, Ended, Been, Remote, Result, remote
  <1>7. Noted'
    BY <1>2 DEF Inv, Noted, Works, Note, Alone, Result
  <1>8. Claimed'
    <2>1. \A v \in Workers : Executes(v)' =>
            /\ Executes(v) /\ job'[v] = job[v] /\ pc'[v] = pc[v]
            /\ job[v].action # a /\ job[v].action \in Actions
      BY <1>1, <1>2 DEF Inv, Claimed, Executes, Alone, Carried, CarriedBy
    <2>2. history' = history
      BY DEF Result, remote
    <2>3. \A v \in Workers : pc'[v] = "submit" => Executes(v)'
      BY DEF Executes
    <2>4. QED
      BY <1>3, <2>1, <2>2, <2>3 DEF Inv, Claimed
  <1>9. SubmittedIsTracked'
    <2>1. pc[w] = "success" => row[a] # None /\ history[a] # <<>>
      <3>1. row[a] # None => history[a] # <<>>
        BY <1>1 DEF Inv, Rows, Been
      <3>2. QED
        BY <1>1, <3>1 DEF CarriedBy
    <2>2. QED
      BY <1>3, <2>1 DEF Inv, SubmittedIsTracked, Accepted, Result, remote
  <1>10. QED
    BY <1>4, <1>5, <1>6, <1>7, <1>8, <1>9 DEF Inv

-----------------------------------------------------------------------------
(* Every step keeps the invariant: notifications.                          *)

LEMMA DeliverInv ==
  ASSUME NEW w \in Workers, NEW a \in Actions, NEW i \in 0 .. MaxHistory,
         Inv, Deliver(w, a, i)
  PROVE  Inv'
  <1> DEFINE j == [NoJob EXCEPT !.action = a, !.note = i]
  <1>1. j \in Jobs /\ j.action = a /\ j.note = i /\ j.state = None
    BY NoJobType DEF NoJob, Jobs
  <1>2. /\ pc' \in [Workers -> Steps] /\ job' \in [Workers -> Jobs]
        /\ pc'[w] = "record" /\ job'[w] = j /\ Alone(w)
    BY <1>1, Moves DEF Inv, Deliver, Start, Steps
  <1>3. TypeOK'
    BY <1>2 DEF Inv, TypeOK, Deliver, remote
  <1>4. Quiet(w)
    BY <1>2 DEF Quiet, Deliver, remote, Executes, Works
  <1>5. i \in 0 .. Len(history'[a])
    BY DEF Inv, TypeOK, Deliver, Deliverable, remote
  <1>6. CarriedBy(w)'
    BY <1>1, <1>2, <1>5 DEF CarriedBy
  <1>7. QED
    BY <1>3, <1>4, <1>6, QuietRowsInv DEF Deliver

LEMMA RecordInv == ASSUME NEW w \in Workers, Inv, Record(w) PROVE Inv'
  <1> DEFINE n == Note(w)
  <1>1. /\ pc[w] = "record" /\ TypeOK /\ CarriedBy(w) /\ job[w] \in Jobs
        /\ n \in Notes
    BY DEF Inv, TypeOK, Carried, CarriedBy, Record, At, Notes, Note, Jobs
  <1>2. CASE ~Fresh(n) /\ Leave(w) /\ UNCHANGED events
    <2>1. /\ pc' \in [Workers -> Steps] /\ job' \in [Workers -> Jobs]
          /\ pc'[w] = "idle" /\ Alone(w) /\ CarriedBy(w)'
      BY <1>1, <1>2, Leaves
    <2>2. TypeOK' /\ Quiet(w)
      BY <1>1, <1>2, <2>1 DEF TypeOK, Quiet, Record, remote, Executes, Works
    <2>3. QED
      BY <2>1, <2>2, QuietRowsInv DEF Record
  <1>3. CASE /\ Fresh(n) /\ events' = [events EXCEPT ![n] = "received"]
             /\ Goto(w, "find") /\ UNCHANGED job
    <2>1. /\ pc' \in [Workers -> Steps] /\ job' \in [Workers -> Jobs]
          /\ pc'[w] = "find" /\ job'[w] = job[w] /\ Alone(w)
      <3>1. job' = [job EXCEPT ![w] = job[w]]
        BY <1>1, <1>3 DEF TypeOK
      <3>2. QED
        BY <1>1, <1>3, <3>1, Moves DEF Steps
    <2>2. TypeOK'
      BY <1>1, <1>3, <2>1 DEF TypeOK, Record, remote
    <2>3. history' = history /\ row' = row /\ action' = action /\ job' = job
      BY <1>3 DEF Record, remote
    <2>4. Carried'
      <3>1. CarriedBy(w)'
        BY <1>1, <2>1, <2>3 DEF CarriedBy, Been
      <3>2. \A b \in Actions : \A s : Been(b, s) => Been(b, s)'
        BY <2>3 DEF Been
      <3>3. \A b \in Actions : Len(history[b]) \in Nat
        BY <1>1 DEF TypeOK
      <3>4. QED
        BY <2>1, <2>2, <2>3, <3>1, <3>2, <3>3, KeepsCarried
    <2>5. Rows' /\ Ended' /\ SubmittedIsTracked'
      BY <2>3 DEF Inv, Rows, Ended, Been, Remote, SubmittedIsTracked, Accepted
    <2>6. Claimed'
      BY <1>1, <2>1, <2>3 DEF Inv, Claimed, Executes, Alone
    <2>7. Noted'
      <3>1. /\ events'[n] = "received" /\ events[n] = "none"
            /\ \A m \in Notes \ {n} : events'[m] = events[m]
        BY <1>1, <1>3 DEF TypeOK, Fresh
      <3>2. \A v \in Workers : v # w /\ Works(v)' =>
              Works(v) /\ Note(v)' = Note(v) /\ Note(v) # n /\ Note(v) \in Notes
        <4>1. \A v \in Workers : Works(v) => Note(v) \in Notes
          BY <1>1 DEF Inv, TypeOK, Carried, CarriedBy, Works, Note, Notes, Jobs
        <4>2. QED
          BY <2>1, <3>1, <4>1 DEF Inv, Noted, Works, Note, Alone
      <3>3. Note(w)' = n
        BY <2>1 DEF Note
      <3>4. \A v \in Workers : Works(v)' => events'[Note(v)'] = "received"
        BY <3>1, <3>2, <3>3 DEF Inv, Noted
      <3>5. \A v, u \in Workers :
              Works(v)' /\ Works(u)' /\ Note(v)' = Note(u)' => v = u
        BY <3>2, <3>3 DEF Inv, Noted
      <3>6. QED
        BY <3>4, <3>5 DEF Noted
    <2>8. QED
      BY <2>2, <2>4, <2>5, <2>6, <2>7 DEF Inv
  <1>4. QED
    BY <1>2, <1>3 DEF Record

LEMMA FindInv == ASSUME NEW w \in Workers, Inv, Find(w) PROVE Inv'
  <1> DEFINE a == job[w].action
             i == job[w].note
  <1>1. /\ pc[w] = "find" /\ TypeOK /\ CarriedBy(w) /\ job[w] \in Jobs
        /\ a \in Actions /\ i \in 0 .. Len(history[a])
    BY DEF Inv, TypeOK, Carried, CarriedBy, Find, At
  <1>2. CASE row[a] = None /\ Goto(w, "mark") /\ UNCHANGED job
    <2>1. /\ pc' \in [Workers -> Steps] /\ job' \in [Workers -> Jobs]
          /\ pc'[w] = "mark" /\ job'[w] = job[w] /\ Alone(w)
      <3>1. job' = [job EXCEPT ![w] = job[w]]
        BY <1>1, <1>2 DEF TypeOK
      <3>2. QED
        BY <1>1, <1>2, <3>1, Moves DEF Steps
    <2>2. TypeOK' /\ Quiet(w) /\ CarriedBy(w)'
      BY <1>1, <1>2, <2>1
      DEF TypeOK, Quiet, Find, remote, Executes, Works, Note, CarriedBy, Been
    <2>3. QED
      BY <2>2, QuietRowsInv DEF Find
  <1> DEFINE s == IF i = 0 THEN row[a].state ELSE history[a][i]
             j == [job[w] EXCEPT !.state = s]
  <1>3. CASE /\ row[a] # None /\ Goto(w, "apply")
             /\ job' = [job EXCEPT ![w].state = s]
    <2>1. s \in States /\ Been(a, s)
      <3>1. CASE i = 0
        BY <1>1, <1>3, <3>1 DEF Inv, TypeOK, Rows
      <3>2. CASE i # 0
        <4>1. i \in 1 .. Len(history[a])
          BY <1>1, <3>2 DEF TypeOK
        <4>2. history[a][i] \in States
          BY <1>1, <4>1 DEF TypeOK
        <4>3. QED
          BY <3>2, <4>1, <4>2 DEF Been
      <3>3. QED
        BY <3>1, <3>2
    <2>2. j \in Jobs /\ j.action = a /\ j.state = s /\ j.note = i
      BY <1>1, <2>1 DEF Jobs
    <2> HIDE DEF s
    <2>3. /\ pc' \in [Workers -> Steps] /\ job' \in [Workers -> Jobs]
          /\ pc'[w] = "apply" /\ job'[w] = j /\ Alone(w)
      <3>1. job' = [job EXCEPT ![w] = j]
        BY <1>1, <1>3 DEF TypeOK
      <3>2. QED
        BY <1>1, <1>3, <2>2, <3>1, Moves DEF Steps
    <2>4. TypeOK'
      BY <1>1, <2>3 DEF TypeOK, Find, remote
    <2>5. Quiet(w)
      BY <1>1, <2>2, <2>3 DEF Quiet, Find, remote, Executes, Works, Note
    <2>6. CarriedBy(w)'
      BY <1>1, <2>1, <2>2, <2>3, StatesAre DEF CarriedBy, Been, Find, remote
    <2>7. QED
      BY <2>4, <2>5, <2>6, QuietRowsInv DEF Find
  <1>4. QED
    BY <1>2, <1>3 DEF Find

LEMMA ApplyInv == ASSUME NEW w \in Workers, Inv, Apply(w) PROVE Inv'
  <1> DEFINE a == job[w].action
             s == job[w].state
             j == [job[w] EXCEPT !.state = None]
  <1>1. /\ a \in Actions /\ pc[w] = "apply" /\ job[w] \in Jobs
        /\ s \in States /\ Been(a, s) /\ TypeOK
    BY DEF Inv, TypeOK, Carried, CarriedBy, Apply, At, Jobs
  <1>2. j \in Jobs /\ j.action = a /\ j.state = None /\ j.note = job[w].note
    BY <1>1 DEF Jobs
  <1>3. /\ pc' \in [Workers -> Steps] /\ job' \in [Workers -> Jobs]
        /\ pc'[w] = "mark" /\ job'[w] = j /\ Alone(w)
    <2>1. job' = [job EXCEPT ![w] = j]
      BY DEF Apply
    <2>2. QED
      BY <1>1, <1>2, <2>1, Moves DEF Apply, Steps
  <1>4. row' = [row EXCEPT ![a] = Row(s)]
    BY DEF Apply, Update, StateReceived
  <1>5. TypeOK'
    BY <1>1, <1>3, <1>4, RowType DEF TypeOK, Apply, remote
  <1>6. Quiet(w)
    BY <1>1, <1>2, <1>3 DEF Quiet, Apply, remote, Executes, Works, Note
  <1>7. CarriedBy(w)'
    BY <1>1, <1>2, <1>3 DEF CarriedBy
  <1>8. QED
    BY <1>1, <1>4, <1>5, <1>6, <1>7, QuietWriteInv

LEMMA MarkInv == ASSUME NEW w \in Workers, Inv, Mark(w) PROVE Inv'
  <1> DEFINE n == Note(w)
  <1>1. /\ pc[w] = "mark" /\ TypeOK /\ job[w] \in Jobs /\ n \in Notes
    BY DEF Inv, TypeOK, Carried, CarriedBy, Mark, At, Notes, Note, Jobs
  <1>2. /\ pc' \in [Workers -> Steps] /\ job' \in [Workers -> Jobs]
        /\ pc'[w] = "idle" /\ Alone(w) /\ CarriedBy(w)'
    BY <1>1, Leaves DEF Mark
  <1>3. history' = history /\ row' = row /\ action' = action
    BY DEF Mark, remote
  <1>4. TypeOK'
    BY <1>1, <1>2 DEF TypeOK, Mark, remote
  <1>5. Carried'
    <2>1. \A b \in Actions : \A s : Been(b, s) => Been(b, s)'
      BY <1>3 DEF Been
    <2>2. \A b \in Actions : Len(history[b]) \in Nat
      BY <1>1 DEF TypeOK
    <2>3. QED
      BY <1>2, <1>3, <1>4, <2>1, <2>2, KeepsCarried
  <1>6. Rows' /\ Ended' /\ SubmittedIsTracked'
    BY <1>3 DEF Inv, Rows, Ended, Been, Remote, SubmittedIsTracked, Accepted
  <1>7. Claimed'
    BY <1>2, <1>3 DEF Inv, Claimed, Executes, Alone
  <1>8. Noted'
    <2>1. \A m \in Notes \ {n} : events'[m] = events[m]
      BY <1>1 DEF TypeOK, Mark
    <2>2. \A v \in Workers : Works(v)' =>
            Works(v) /\ Note(v)' = Note(v) /\ Note(v) # n /\ Note(v) \in Notes
      <3>1. \A v \in Workers : Works(v) => Note(v) \in Notes
        BY <1>1 DEF Inv, TypeOK, Carried, CarriedBy, Works, Note, Notes, Jobs
      <3>2. \A v \in Workers : Works(v)' => v # w /\ Works(v) /\ Note(v)' = Note(v)
        BY <1>2 DEF Works, Note, Alone
      <3>3. Works(w)
        BY <1>1 DEF Works
      <3>4. QED
        BY <3>1, <3>2, <3>3 DEF Inv, Noted
    <2>3. QED
      BY <2>1, <2>2 DEF Inv, Noted
  <1>9. QED
    BY <1>4, <1>5, <1>6, <1>7, <1>8 DEF Inv

-----------------------------------------------------------------------------
(* Every step keeps the invariant: polls.                                  *)

LEMMA PollInv ==
  ASSUME NEW w \in Workers, NEW a \in Actions, Inv, Poll(w, a) PROVE Inv'
  <1> DEFINE s == row[a].state
             j == [NoJob EXCEPT !.action = a, !.state = s]
  <1>1. s \in States /\ Been(a, s)
    BY DEF Inv, TypeOK, Rows, Poll
  <1>2. j \in Jobs /\ j.action = a /\ j.state = s
    BY <1>1, NoJobType DEF NoJob, Jobs
  <1>3. /\ pc' \in [Workers -> Steps] /\ job' \in [Workers -> Jobs]
        /\ pc'[w] = "fetch" /\ job'[w] = j /\ Alone(w)
    BY <1>2, Moves DEF Inv, Poll, Start, Steps
  <1>4. TypeOK'
    BY <1>3 DEF Inv, TypeOK, Poll, remote
  <1>5. Quiet(w)
    BY <1>3 DEF Quiet, Poll, remote, Executes, Works
  <1>6. CarriedBy(w)'
    BY <1>1, <1>2, <1>3, StatesAre DEF CarriedBy, Been, Poll, remote
  <1>7. QED
    BY <1>4, <1>5, <1>6, QuietRowsInv DEF Poll

\* What the provider answers is the last of the states that were.
LEMMA RemoteBeen ==
  ASSUME TypeOK, NEW a \in Actions, history[a] # <<>>
  PROVE  Remote(a) \in States /\ Been(a, Remote(a))
  BY DEF TypeOK, Remote, Been

LEMMA FetchInv == ASSUME NEW w \in Workers, Inv, Fetch(w) PROVE Inv'
  <1> DEFINE a == job[w].action
  <1>1. /\ pc[w] = "fetch" /\ TypeOK /\ CarriedBy(w) /\ job[w] \in Jobs
        /\ a \in Actions /\ job[w].state \in States /\ Been(a, job[w].state)
    BY DEF Inv, TypeOK, Carried, CarriedBy, Fetch, At, Jobs
  <1>2. Remote(a) \in States /\ Been(a, Remote(a))
    <2>1. history[a] # <<>>
      BY <1>1 DEF Been
    <2>2. QED
      BY <1>1, <2>1, RemoteBeen
  <1>3. ASSUME NEW s \in States, Been(a, s), Goto(w, "update"),
               job' = [job EXCEPT ![w] = [job[w] EXCEPT !.state = s]]
        PROVE  Inv'
    <2> DEFINE j == [job[w] EXCEPT !.state = s]
    <2>1. j \in Jobs /\ j.action = a /\ j.state = s
      BY <1>1 DEF Jobs
    <2>2. /\ pc' \in [Workers -> Steps] /\ job' \in [Workers -> Jobs]
          /\ pc'[w] = "update" /\ job'[w] = j /\ Alone(w)
      BY <1>1, <1>3, <2>1, Moves DEF Steps
    <2>3. TypeOK'
      BY <1>1, <2>2 DEF TypeOK, Fetch, remote
    <2>4. Quiet(w)
      BY <1>1, <2>2 DEF Quiet, Fetch, remote, Executes, Works
    <2>5. CarriedBy(w)'
      BY <1>1, <1>3, <2>1, <2>2, StatesAre DEF CarriedBy, Been, Fetch, remote
    <2>6. QED
      BY <2>3, <2>4, <2>5, QuietRowsInv DEF Fetch
  <1>4. CASE job' = [job EXCEPT ![w].state = Remote(a)] /\ Goto(w, "update")
    BY <1>2, <1>3, <1>4
  <1>5. CASE Goto(w, "update") /\ UNCHANGED job
    <2>1. job[w] = [job[w] EXCEPT !.state = job[w].state]
      BY <1>1 DEF Jobs
    <2>2. job = [job EXCEPT ![w] = [job[w] EXCEPT !.state = job[w].state]]
      BY <1>1, <2>1 DEF TypeOK
    <2>3. QED
      BY <1>1, <1>3, <1>5, <2>2
  <1>6. CASE Leave(w)
    <2>1. /\ pc' \in [Workers -> Steps] /\ job' \in [Workers -> Jobs]
          /\ pc'[w] = "idle" /\ Alone(w) /\ CarriedBy(w)'
      BY <1>1, <1>6, Leaves
    <2>2. TypeOK' /\ Quiet(w)
      BY <1>1, <2>1 DEF TypeOK, Quiet, Fetch, remote, Executes, Works
    <2>3. QED
      BY <2>1, <2>2, QuietRowsInv DEF Fetch
  <1>7. QED
    BY <1>4, <1>5, <1>6 DEF Fetch

LEMMA StoreInv == ASSUME NEW w \in Workers, Inv, Store(w) PROVE Inv'
  <1> DEFINE a == job[w].action
             s == job[w].state
  <1>1. /\ a \in Actions /\ pc[w] = "update" /\ s \in States /\ Been(a, s)
        /\ TypeOK
    BY DEF Inv, TypeOK, Carried, CarriedBy, Store, At, Jobs
  <1>2. /\ pc' \in [Workers -> Steps] /\ job' \in [Workers -> Jobs]
        /\ pc'[w] = "idle" /\ Alone(w) /\ CarriedBy(w)'
    BY <1>1, Leaves DEF Store
  <1>3. row' = [row EXCEPT ![a] = Row(s)]
    BY DEF Store, Update, StateReceived
  <1>4. TypeOK'
    BY <1>1, <1>2, <1>3, RowType DEF TypeOK, Store, remote
  <1>5. Quiet(w)
    BY <1>2 DEF Quiet, Store, remote, Executes, Works
  <1>6. QED
    BY <1>1, <1>2, <1>3, <1>4, <1>5, QuietWriteInv

-----------------------------------------------------------------------------
(* Every step keeps the invariant: around the requests.                    *)

\* What the invariant reads.
read == <<history, action, row, events, pc, job>>

LEMMA UnreadInv ==
  ASSUME Inv, UNCHANGED read, mapped' \in BOOLEAN PROVE Inv'
  <1> USE DEF read
  <1>1. TypeOK' /\ SubmittedIsTracked'
    BY DEF Inv, TypeOK, SubmittedIsTracked, Accepted
  <1>2. Carried' /\ Rows'
    BY DEF Inv, Carried, CarriedBy, Rows, Been
  <1>3. Ended' /\ Claimed' /\ Noted'
    BY DEF Inv, Ended, Remote, Claimed, Noted, Executes, Works, Note
  <1>4. QED
    BY <1>1, <1>2, <1>3 DEF Inv

LEMMA SubscribeInv == ASSUME Inv, Subscribe PROVE Inv'
  BY UnreadInv DEF Subscribe, read, locals

LEMMA AdvanceInv == ASSUME NEW a \in Actions, Inv, Advance(a) PROVE Inv'
  <1>1. PICK s \in Follows[Remote(a)] :
          history' = [history EXCEPT ![a] = Append(history[a], s)]
    BY DEF Advance
  <1> DEFINE n == Len(history[a])
  <1>2. /\ TypeOK /\ history[a] # <<>> /\ history[a] \in Seq(States)
        /\ n \in Nat \ {0} /\ Remote(a) \in States /\ Remote(a) = history[a][n]
    <2>1. TypeOK /\ history[a] # <<>>
      BY DEF Inv, Advance, Accepted
    <2>2. QED
      BY <2>1, RemoteBeen DEF TypeOK, Remote
  <1>3. /\ s \in States
        /\ StatusMap(Remote(a)) \in FinalStatuses =>
             s \in Ends /\ StatusMap(s) = StatusMap(Remote(a))
    BY <1>2, EndsStay
  <1>4. /\ history' \in [Actions -> Seq(States)]
        /\ \A b \in Actions \ {a} : history'[b] = history[b]
        /\ history'[a] = Append(history[a], s)
    BY <1>1, <1>2, <1>3 DEF TypeOK
  <1>5. /\ Len(history'[a]) = n + 1 /\ history'[a][n + 1] = s
        /\ \A i \in 1 .. n : history'[a][i] = history[a][i]
    BY <1>2, <1>3, <1>4
  <1>6. TypeOK'
    BY <1>2, <1>4 DEF TypeOK, Advance, locals
  <1>7. \A b \in Actions : /\ Len(history[b]) <= Len(history'[b])
                           /\ \A t : Been(b, t) => Been(b, t)'
    <2>1. Len(history[a]) <= Len(history'[a])
      BY <1>2, <1>5
    <2>2. \A t : Been(a, t) => Been(a, t)'
      BY <1>2, <1>5 DEF Been
    <2>3. \A b \in Actions \ {a} : /\ Len(history[b]) <= Len(history'[b])
                                   /\ \A t : Been(b, t) => Been(b, t)'
      <3>1. \A b \in Actions : Len(history[b]) \in Nat
        BY <1>2 DEF TypeOK
      <3>2. QED
        BY <1>4, <3>1 DEF Been
    <2>4. QED
      BY <2>1, <2>2, <2>3
  <1>8. Carried'
    <2> SUFFICES ASSUME NEW v \in Workers PROVE CarriedBy(v)'
      BY DEF Carried
    <2>1. /\ pc'[v] = pc[v] /\ job'[v] = job[v] /\ row' = row /\ CarriedBy(v)
          /\ job[v] \in Jobs
      BY <1>2 DEF Inv, Carried, Advance, locals, TypeOK
    <2>2. \A b \in Actions : Len(history[b]) \in Nat /\ Len(history'[b]) \in Nat
      BY <1>2, <1>4 DEF TypeOK
    <2>3. QED
      BY <1>7, <2>1, <2>2 DEF CarriedBy
  <1>9. Rows'
    BY <1>7 DEF Inv, Rows, Advance
  <1>10. Ended'
    <2>1. Remote(a)' = s
      BY <1>5 DEF Remote
    <2>2. ASSUME NEW i \in 1 .. Len(history'[a]),
                 StatusMap(history'[a][i]) \in FinalStatuses
          PROVE  s \in Ends /\ StatusMap(s) = StatusMap(history'[a][i])
      <3>1. CASE i = n + 1
        BY <1>3, <1>5, <2>2, <3>1, FinalIsEnd
      <3>2. CASE i \in 1 .. n
        <4>1. /\ history'[a][i] = history[a][i]
              /\ StatusMap(Remote(a)) = StatusMap(history[a][i])
          BY <1>5, <2>2, <3>2 DEF Inv, Ended
        <4>2. QED
          BY <1>3, <2>2, <4>1
      <3>3. QED
        BY <1>2, <1>5, <3>1, <3>2
    <2>3. \A b \in Actions \ {a} : Remote(b)' = Remote(b)
      BY <1>4 DEF Remote
    <2>4. ASSUME NEW b \in Actions \ {a}, NEW i \in 1 .. Len(history'[b]),
                 StatusMap(history'[b][i]) \in FinalStatuses
          PROVE  /\ Remote(b)' \in Ends
                 /\ StatusMap(Remote(b)') = StatusMap(history'[b][i])
      BY <1>4, <2>3, <2>4 DEF Inv, Ended
    <2>5. QED
      BY <2>1, <2>2, <2>4 DEF Ended
  <1>11. Claimed'
    <2>1. \A v \in Workers : pc[v] = "submit" => job[v].action # a
      BY <1>2 DEF Inv, Claimed
    <2>2. action[a] # "approved"
      BY <1>2 DEF Inv, Claimed
    <2>3. \A v \in Workers : pc[v] = "submit" => job[v].action \in Actions
      BY DEF Inv, Carried, CarriedBy
    <2>4. QED
      BY <1>4, <2>1, <2>2, <2>3 DEF Inv, Claimed, Executes, Advance, locals
  <1>12. Noted'
    BY DEF Inv, Noted, Works, Note, Advance, locals
  <1>13. SubmittedIsTracked'
    <2>1. history'[a] # <<>>
      BY <1>2, <1>5
    <2>2. QED
      BY <1>4, <2>1 DEF Inv, SubmittedIsTracked, Accepted, Advance
  <1>14. QED
    BY <1>6, <1>8, <1>9, <1>10, <1>11, <1>12, <1>13 DEF Inv

LEMMA CrashInv == Inv /\ Crash => Inv'
  <1> SUFFICES ASSUME Inv, Crash PROVE Inv'
    OBVIOUS
  <1>1. \A w \in Workers : pc'[w] = "idle" /\ job'[w] = NoJob
    BY DEF Crash
  <1>2. TypeOK'
    BY NoJobType DEF Inv, TypeOK, Crash, remote, Steps
  <1>3. Carried'
    BY <1>1, NoJobType DEF Carried, CarriedBy
  <1>4. Rows' /\ Ended' /\ SubmittedIsTracked'
    BY DEF Inv, Rows, Ended, Been, Remote, SubmittedIsTracked, Accepted, Crash,
           remote
  <1>5. Claimed' /\ Noted'
    BY <1>1 DEF Inv, Claimed, Noted, Executes, Works, Crash, remote
  <1>6. QED
    BY <1>2, <1>3, <1>4, <1>5 DEF Inv

LEMMA StepInv == ASSUME NEW w \in Workers, Inv, Step(w) PROVE Inv'
  BY ClaimInv, SubmitInv, InsertInv, ResultInv, RecordInv, FindInv, ApplyInv,
     MarkInv, FetchInv, StoreInv
  DEF Step

LEMMA NextInv == Inv /\ [Next]_vars => Inv'
  <1> SUFFICES ASSUME Inv, [Next]_vars PROVE Inv'
    OBVIOUS
  <1>1. ASSUME NEW w \in Workers, NEW a \in Actions, Run(w, a) \/ Poll(w, a)
        PROVE  Inv'
    BY <1>1, RunInv, PollInv
  <1>2. ASSUME NEW w \in Workers, NEW n \in Notes, Deliver(w, n[1], n[2])
        PROVE  Inv'
    <2>1. n[1] \in Actions /\ n[2] \in 0 .. MaxHistory
      BY DEF Notes
    <2>2. QED
      BY <1>2, <2>1, DeliverInv
  <1>3. ASSUME NEW w \in Workers, Step(w) PROVE Inv'
    BY <1>3, StepInv
  <1>4. ASSUME NEW a \in Actions, Advance(a) PROVE Inv'
    BY <1>4, AdvanceInv
  <1>5. CASE Subscribe
    BY <1>5, SubscribeInv
  <1>6. CASE Crash
    BY <1>6, CrashInv
  <1>7. CASE UNCHANGED vars
    BY <1>7, UnreadInv DEF vars, read, Inv, TypeOK
  <1>8. QED
    BY <1>1, <1>2, <1>3, <1>4, <1>5, <1>6, <1>7 DEF Next

-----------------------------------------------------------------------------
(* The theorems.                                                           *)

\* The inductive invariant holds of every reachable state.
THEOREM InvHolds == Spec => []Inv
  BY InitInv, NextInv, PTL DEF Spec

\* Rows, events and local variables keep their types: service, provider and
\* webhook requests only ever store states and statuses that exist.
THEOREM TypeCorrect == Spec => []TypeOK
  <1>1. Inv => TypeOK
    BY DEF Inv
  <1>2. QED
    BY <1>1, InvHolds, PTL

\* transaction_update writes a final status only when Circle's transaction has
\* reached that end, however notifications and polls race.
THEOREM FinalRowsAreTrue == Spec => []FinalIsTrue
  <1>1. Inv => FinalIsTrue
    <2> SUFFICES ASSUME Inv, NEW a \in Actions, row[a] # None,
                        row[a].status \in FinalStatuses
                 PROVE  /\ Remote(a) \in Ends
                        /\ row[a].status = StatusMap(Remote(a))
      BY DEF FinalIsTrue, Ends
    <2>1. Been(a, row[a].state) /\ row[a].status = StatusMap(row[a].state)
      BY DEF Inv, Rows
    <2>2. PICK i \in 1 .. Len(history[a]) : history[a][i] = row[a].state
      BY <2>1 DEF Been
    <2>3. QED
      BY <2>1, <2>2 DEF Inv, Ended
  <1>2. QED
    BY <1>1, InvHolds, PTL

\* webhook_insert lets one delivery of a notification through, and none once
\* it is processed.
THEOREM NotificationsAreOnce == Spec => []NotificationOnce
  <1>1. Inv => NotificationOnce
    <2> SUFFICES ASSUME Inv, NEW n \in Notes
                 PROVE  LET W == {w \in Workers : pc[w] \in {"find", "apply", "mark"}
                                                  /\ Note(w) = n}
                        IN  Cardinality(W) <= 1 /\ (events[n] # "received" => W = {})
      BY DEF NotificationOnce
    <2> DEFINE W == {w \in Workers : pc[w] \in {"find", "apply", "mark"}
                                    /\ Note(w) = n}
    <2>1. \A v, w \in W : v = w
      BY DEF Inv, Noted, Works
    <2>2. Cardinality(W) <= 1
      <3>1. CASE W = {}
        BY <3>1, FS_EmptySet
      <3>2. CASE W # {}
        <4>1. PICK w \in W : W = {w}
          BY <2>1, <3>2
        <4>2. Cardinality({w}) = 1
          BY FS_Singleton
        <4>3. Cardinality(W) = 1
          BY <4>1, <4>2
        <4>4. QED
          BY <4>3
      <3>3. QED
        BY <3>1, <3>2
    <2>3. events[n] # "received" => W = {}
      BY DEF Inv, Noted, Works
    <2>4. QED
      BY <2>2, <2>3
  <1>2. QED
    BY <1>1, InvHolds, PTL

\* A transfer that is reported as submitted has a row, and Circle accepted it.
THEOREM SubmissionsAreTracked == Spec => []SubmittedIsTracked
  <1>1. Inv => SubmittedIsTracked
    BY DEF Inv
  <1>2. QED
    BY <1>1, InvHolds, PTL

-----------------------------------------------------------------------------
(* One submission.                                                         *)

\* The transaction of a transfer that Circle accepted only moves on.
SubmittedOnce ==
  [][\A a \in Actions : Accepted(a) =>
       \/ history'[a] = history[a]
       \/ \E s \in Follows[Remote(a)] : history'[a] = Append(history[a], s)]_vars

LEMMA HistoryMoves ==
  ASSUME Inv, [Next]_vars, NEW a \in Actions, Accepted(a)
  PROVE  \/ history'[a] = history[a]
         \/ \E s \in Follows[Remote(a)] : history'[a] = Append(history[a], s)
  <1>1. CASE history' = history
    BY <1>1
  <1>2. ASSUME NEW w \in Workers, Submit(w) PROVE history'[a] = history[a]
    <2>1. history[job[w].action] = <<>> /\ job[w].action # a
      BY <1>2 DEF Inv, Claimed, Submit, At, Accepted
    <2>2. history' \in {history, [history EXCEPT ![job[w].action] = <<"INITIATED">>]}
      BY <1>2 DEF Submit
    <2>3. QED
      BY <2>1, <2>2 DEF Inv, TypeOK
  <1>3. ASSUME NEW b \in Actions, Advance(b)
        PROVE  \/ history'[a] = history[a]
               \/ \E s \in Follows[Remote(a)] : history'[a] = Append(history[a], s)
    BY <1>3 DEF Advance, Inv, TypeOK
  <1>4. ASSUME NEW w \in Workers, Step(w), ~Submit(w) PROVE history' = history
    <2>1. CASE Claim(w) \/ Insert(w) \/ Result(w) \/ Record(w) \/ Find(w)
      BY <2>1 DEF Claim, Insert, Result, Record, Find, remote
    <2>2. CASE Apply(w) \/ Mark(w) \/ Fetch(w) \/ Store(w)
      BY <2>2 DEF Apply, Mark, Fetch, Store, remote
    <2>3. QED
      BY <1>4, <2>1, <2>2 DEF Step
  <1>5. CASE \/ \E w \in Workers, b \in Actions : Run(w, b) \/ Poll(w, b)
             \/ \E w \in Workers, n \in Notes : Deliver(w, n[1], n[2])
    BY <1>1, <1>5 DEF Run, Poll, Deliver, remote
  <1>6. CASE Subscribe \/ Crash \/ UNCHANGED vars
    BY <1>1, <1>6 DEF Subscribe, Crash, remote, vars
  <1>7. QED
    BY <1>1, <1>2, <1>3, <1>4, <1>5, <1>6 DEF Next

\* However often the tool is run again, and whatever answers are lost, a
\* transfer that Circle accepted is not submitted to it a second time.
THEOREM SubmissionsAreOnce == Spec => SubmittedOnce
  <1>1. Inv /\ [Next]_vars =>
          \A a \in Actions : Accepted(a) =>
            \/ history'[a] = history[a]
            \/ \E s \in Follows[Remote(a)] : history'[a] = Append(history[a], s)
    BY HistoryMoves
  <1>2. QED
    BY <1>1, InvHolds, PTL DEF Spec, SubmittedOnce

-----------------------------------------------------------------------------
(* Reconciled for good.                                                    *)

\* Circle's transaction has ended, the row shows it, its notifications have
\* been processed, and no request still holds an earlier state of it.
Settled(a) ==
  /\ Accepted(a) /\ Follows[Remote(a)] = {}
  /\ row[a] = Row(Remote(a))
  /\ \A i \in 1 .. MaxHistory :
       i <= Len(history[a]) => events[<<a, i>>] = "processed"
  /\ \A w \in Workers : job[w].action = a /\ job[w].state # None =>
                          job[w].state = Remote(a)

SettledStays == [][\A a \in Actions : Settled(a) => Settled(a)']_vars

\* A step of w that leaves the rows of a as they are.
LEMMA SettledKept ==
  ASSUME NEW a \in Actions, Settled(a), NEW w \in Workers, Alone(w),
         history'[a] = history[a], row'[a] = row[a],
         \A i \in 1 .. MaxHistory :
           i <= Len(history[a]) => events'[<<a, i>>] = "processed",
         job'[w].action = a /\ job'[w].state # None => job'[w].state = Remote(a)
  PROVE  Settled(a)'
  <1>1. Remote(a)' = Remote(a)
    BY DEF Remote
  <1>2. \A v \in Workers : job'[v].action = a /\ job'[v].state # None =>
                             job'[v].state = Remote(a)
    BY DEF Settled, Alone
  <1>3. QED
    BY <1>1, <1>2 DEF Settled, Accepted, Row

\* A request takes a transfer or a notification up, or asks for a status.
LEMMA SettledStarts ==
  ASSUME Inv, NEW a \in Actions, Settled(a), NEW w \in Workers, NEW b \in Actions,
         Run(w, b) \/ Poll(w, b) \/ \E i \in 0 .. MaxHistory : Deliver(w, b, i)
  PROVE  Settled(a)'
  <1>1. history' = history /\ row' = row /\ events' = events
    BY DEF Run, Poll, Deliver, remote
  <1>2. Alone(w) /\ (job'[w].action = a /\ job'[w].state # None => job'[w].state = Remote(a))
    <2>1. CASE Run(w, b) \/ \E i \in 0 .. MaxHistory : Deliver(w, b, i)
      BY <2>1 DEF Run, Deliver, Start, Goto, Alone, NoJob, Inv, TypeOK
    <2>2. CASE Poll(w, b)
      <3>1. Alone(w) /\ job'[w] = [NoJob EXCEPT !.action = b, !.state = row[b].state]
        BY <2>2 DEF Poll, Start, Goto, Alone, Inv, TypeOK
      <3>2. row[a].state = Remote(a)
        BY DEF Settled, Row
      <3>3. job'[w].action = b /\ job'[w].state = row[b].state
        BY <3>1 DEF NoJob
      <3>4. QED
        BY <3>1, <3>2, <3>3
    <2>3. QED
      BY <2>1, <2>2
  <1>3. QED
    BY <1>1, <1>2, SettledKept DEF Settled

\* The steps of an execution; the transfer submitted is not a.
LEMMA SettledExecutes ==
  ASSUME Inv, NEW a \in Actions, Settled(a), NEW w \in Workers,
         Claim(w) \/ Submit(w) \/ Result(w)
  PROVE  Settled(a)'
  <1>1. row' = row /\ events' = events /\ job[w] \in Jobs
    BY DEF Claim, Submit, Result, remote, Inv, TypeOK
  <1>2. NoJob.state = None
    BY NoJobType
  <1>3. CASE Claim(w) \/ Result(w)
    <2>1. Alone(w) /\ history' = history /\ job'[w] \in {job[w], NoJob}
      BY <1>3 DEF Claim, Result, Leave, Goto, Alone, remote, Inv, TypeOK
    <2>2. QED
      BY <1>1, <1>2, <2>1, SettledKept DEF Settled
  <1>4. CASE Submit(w)
    <2>1. history[job[w].action] = <<>> /\ job[w].action # a
      BY <1>4 DEF Inv, Claimed, Submit, At, Settled, Accepted
    <2>2. history' \in {history, [history EXCEPT ![job[w].action] = <<"INITIATED">>]}
      BY <1>4 DEF Submit
    <2>3. history'[a] = history[a]
      BY <2>1, <2>2 DEF Inv, TypeOK
    <2>4. Alone(w) /\ job'[w].action = job[w].action
      BY <1>1, <1>4 DEF Submit, Goto, Alone, Inv, TypeOK, Jobs
    <2>5. QED
      BY <1>1, <2>1, <2>3, <2>4, SettledKept DEF Settled
  <1>5. QED
    BY <1>3, <1>4

\* A step that writes a row writes what the request holds.
LEMMA SettledWrites ==
  ASSUME Inv, NEW a \in Actions, Settled(a), NEW w \in Workers,
         Insert(w) \/ Apply(w) \/ Store(w)
  PROVE  Settled(a)'
  <1>1. /\ history' = history /\ events' = events /\ job[w] \in Jobs /\ CarriedBy(w)
        /\ job[w].state # None /\ job[w].action \in Actions
        /\ row' = [row EXCEPT ![job[w].action] = Row(job[w].state)]
    BY DEF Insert, Apply, Store, At, InsertRow, Update, StateReceived, remote, Inv,
           TypeOK, Carried, CarriedBy
  <1>2. Alone(w) /\ job'[w].state = None
    <2>1. CASE Insert(w) \/ Apply(w)
      BY <1>1, <2>1 DEF Insert, Apply, Goto, Alone, Inv, TypeOK, Jobs
    <2>2. CASE Store(w)
      BY <2>2, NoJobType DEF Store, Leave, Goto, Alone, Inv, TypeOK
    <2>3. QED
      BY <2>1, <2>2
  <1>3. row'[a] = row[a]
    <2>1. CASE job[w].action = a
      BY <1>1, <2>1 DEF Settled, Inv, TypeOK
    <2>2. CASE job[w].action # a
      BY <1>1, <2>2 DEF Inv, TypeOK
    <2>3. QED
      BY <2>1, <2>2
  <1>4. QED
    BY <1>1, <1>2, <1>3, SettledKept DEF Settled

\* A notification of a that is at work says nothing of its state.
LEMMA SettledNotes ==
  ASSUME Inv, NEW a \in Actions, Settled(a), NEW w \in Workers,
         Record(w) \/ Find(w) \/ Mark(w)
  PROVE  Settled(a)'
  <1>1. history' = history /\ row' = row /\ job[w] \in Jobs /\ CarriedBy(w)
    BY DEF Record, Find, Mark, remote, Inv, TypeOK, Carried
  <1>2. \A i \in 1 .. MaxHistory :
           i <= Len(history[a]) => events'[<<a, i>>] = "processed"
    <2>1. CASE Record(w)
      <3>1. events' = events \/ /\ events[Note(w)] = "none"
                                /\ events' = [events EXCEPT ![Note(w)] = "received"]
        BY <2>1 DEF Record, Fresh
      <3>2. ASSUME NEW i \in 1 .. MaxHistory, i <= Len(history[a])
            PROVE  <<a, i>> = Note(w) => events' = events
        BY <3>1, <3>2 DEF Settled
      <3>3. ASSUME NEW i \in 1 .. MaxHistory, i <= Len(history[a])
            PROVE  events'[<<a, i>>] = events[<<a, i>>]
        <4>1. <<a, i>> \in Notes /\ events \in [Notes -> {"none", "received", "processed"}]
          BY DEF Notes, Inv, TypeOK
        <4>2. <<a, i>> = Note(w) => events' = events
          BY <3>2, <3>3
        <4>3. QED
          BY <3>1, <4>1, <4>2
      <3>4. QED
        BY <3>3 DEF Settled
    <2>2. CASE Find(w)
      BY <2>2 DEF Find, Settled
    <2>3. CASE Mark(w)
      <3>1. events' = [events EXCEPT ![Note(w)] = "processed"]
        BY <2>3 DEF Mark
      <3>2. ASSUME NEW i \in 1 .. MaxHistory, i <= Len(history[a])
            PROVE  events'[<<a, i>>] = "processed"
        <4>1. events[<<a, i>>] = "processed" /\ events \in [Notes -> {"none", "received", "processed"}]
          BY <3>2 DEF Settled, Inv, TypeOK
        <4>2. Note(w) \in Notes /\ <<a, i>> \in Notes
          BY <1>1, <2>3 DEF Mark, At, CarriedBy, Note, Notes, Jobs
        <4>3. CASE Note(w) = <<a, i>>
          BY <3>1, <4>1, <4>2, <4>3
        <4>4. CASE Note(w) # <<a, i>>
          BY <3>1, <4>1, <4>2, <4>4
        <4>5. QED
          BY <4>3, <4>4
      <3>3. QED
        BY <3>2
    <2>4. QED
      BY <2>1, <2>2, <2>3
  <1>3. Alone(w) /\ (job'[w].action = a /\ job'[w].state # None => job'[w].state = Remote(a))
    <2>1. CASE Record(w) \/ Mark(w)
      <3>1. Alone(w) /\ job'[w] \in {job[w], NoJob}
        BY <2>1 DEF Record, Mark, Leave, Goto, Alone, Inv, TypeOK
      <3>2. QED
        BY <3>1, NoJobType DEF Settled
    <2>2. CASE Find(w)
      <3>1. Alone(w)
        BY <2>2 DEF Find, Goto, Alone, Inv, TypeOK
      <3>2. CASE job' = job
        BY <3>1, <3>2 DEF Settled
      <3>3. CASE job' = [job EXCEPT ![w].state = IF job[w].note = 0
                           THEN row[job[w].action].state
                           ELSE history[job[w].action][job[w].note]]
        <4>1. /\ job'[w].action = job[w].action
              /\ job'[w].state = IF job[w].note = 0 THEN row[job[w].action].state
                                 ELSE history[job[w].action][job[w].note]
          BY <1>1, <3>3 DEF Inv, TypeOK, Jobs
        <4>2. job[w].action = a => job[w].note = 0
          <5>1. events[Note(w)] = "received" /\ job[w].note \in 0 .. Len(history[job[w].action])
            BY <1>1, <2>2 DEF Find, At, Inv, Noted, Works, CarriedBy
          <5>2. Len(history[a]) \in Nat
            BY DEF Inv, TypeOK
          <5>3. job[w].note \in 0 .. MaxHistory
            BY <1>1 DEF Jobs
          <5>4. QED
            BY <5>1, <5>2, <5>3, SettlementAssumption DEF Settled, Note
        <4>3. row[a].state = Remote(a)
          BY DEF Settled, Row
        <4>4. QED
          BY <3>1, <4>1, <4>2, <4>3
      <3>4. QED
        BY <2>2, <3>2, <3>3 DEF Find
    <2>3. QED
      BY <2>1, <2>2
  <1>4. QED
    BY <1>1, <1>2, <1>3, SettledKept

\* A poll is told the state there is, or nothing.
LEMMA SettledFetch ==
  ASSUME Inv, NEW a \in Actions, Settled(a), NEW w \in Workers, Fetch(w)
  PROVE  Settled(a)'
  <1>1. history' = history /\ row' = row /\ events' = events /\ job[w] \in Jobs
    BY DEF Fetch, remote, Inv, TypeOK
  <1>2. Alone(w) /\ (job'[w].action = a /\ job'[w].state # None => job'[w].state = Remote(a))
    <2>1. CASE job' = [job EXCEPT ![w].state = Remote(job[w].action)] /\ Goto(w, "update")
      BY <1>1, <2>1 DEF Goto, Alone, Inv, TypeOK, Jobs
    <2>2. CASE (Goto(w, "update") /\ UNCHANGED job) \/ Leave(w)
      <3>1. Alone(w) /\ job'[w] \in {job[w], NoJob}
        BY <2>2 DEF Leave, Goto, Alone, Inv, TypeOK
      <3>2. QED
        BY <3>1, NoJobType DEF Settled
    <2>3. QED
      BY <2>1, <2>2 DEF Fetch
  <1>3. QED
    BY <1>1, <1>2, SettledKept DEF Settled

LEMMA NextSettled ==
  ASSUME Inv, [Next]_vars, NEW a \in Actions, Settled(a)
  PROVE  Settled(a)'
  <1>1. CASE \E w \in Workers, b \in Actions : Run(w, b) \/ Poll(w, b)
    BY <1>1, SettledStarts
  <1>2. CASE \E w \in Workers, n \in Notes : Deliver(w, n[1], n[2])
    <2>1. \A n \in Notes : n[1] \in Actions /\ n[2] \in 0 .. MaxHistory
      BY DEF Notes
    <2>2. QED
      BY <1>2, <2>1, SettledStarts
  <1>3. ASSUME NEW w \in Workers, Step(w) PROVE Settled(a)'
    <2>1. CASE Claim(w) \/ Submit(w) \/ Result(w) \/ Insert(w) \/ Apply(w) \/ Store(w)
      BY <2>1, SettledExecutes, SettledWrites
    <2>2. CASE Record(w) \/ Find(w) \/ Mark(w) \/ Fetch(w)
      BY <2>2, SettledNotes, SettledFetch
    <2>3. QED
      BY <1>3, <2>1, <2>2 DEF Step
  <1>4. ASSUME NEW b \in Actions, Advance(b) PROVE Settled(a)'
    <2>1. b # a
      BY <1>4 DEF Advance, Settled
    <2>2. history'[a] = history[a]
      BY <1>4, <2>1 DEF Advance, Inv, TypeOK
    <2>3. row' = row /\ events' = events /\ job' = job
      BY <1>4 DEF Advance, locals
    <2>4. QED
      BY <2>2, <2>3 DEF Settled, Accepted, Remote, Row
  <1>5. CASE Subscribe \/ UNCHANGED vars
    BY <1>5 DEF Subscribe, locals, vars, Settled, Accepted, Remote, Row
  <1>6. CASE Crash
    <2>1. \A w \in Workers : job'[w].state = None
      BY <1>6, NoJobType DEF Crash
    <2>2. QED
      BY <1>6, <2>1 DEF Crash, remote, Settled, Accepted, Remote, Row
  <1>7. QED
    BY <1>1, <1>2, <1>3, <1>4, <1>5, <1>6 DEF Next

\* What PollingReconciles brings about is for good: once the row shows the end
\* of Circle's transaction and nothing earlier is under way, no poll, repeated
\* or blank notification, retry or restart changes it again.
THEOREM ReconciledStays == Spec => SettledStays
  <1>1. Inv /\ [Next]_vars => \A a \in Actions : Settled(a) => Settled(a)'
    BY NextSettled
  <1>2. QED
    BY <1>1, InvHolds, PTL DEF Spec, SettledStays
=============================================================================
