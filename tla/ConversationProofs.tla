------------------------- MODULE ConversationProofs -------------------------
(***************************************************************************)
(* Theorems about Conversation, for any request threads, profiles and      *)
(* number of runs.                                                         *)
(*                                                                         *)
(* A state of the graph is Good when its turns are whole, every text in it *)
(* was asked before, and, if the model's replies set it, the final text is *)
(* that of the last turn once it is answered.  Every checkpoint and every  *)
(* view is Good; an action either leaves them alone or replaces one by     *)
(* another Good state.  Patience says what one request at a time adds: a   *)
(* run's view is the latest checkpoint and its profile that of the row.    *)
(* RowInv says which rows the runs at work have added so far.              *)
(***************************************************************************)
EXTENDS Conversation, SequenceTheorems, WellFoundedInduction, TLAPS

Messages == [role: {"user", "assistant"}, run: Runs, text: Runs]
Jobs == [run: Texts, profile: Profiles \cup {None}, resumed: BOOLEAN,
         view: States]

Follows == {<<"human", "call">>, <<"human", "answer">>,
            <<"call", "tool">>, <<"tool", "answer">>}

Turns(s) ==
  \A i \in 1 .. Len(s):
    s[i].kind # "human" => /\ i > 1 /\ s[i - 1].run = s[i].run
                           /\ <<s[i - 1].kind, s[i].kind>> \in Follows

Asked(m, t) ==
  \E j \in 1 .. Len(m): m[j].role = "user" /\ m[j].text = t

Settled(v) == Done(v) => v.final = Turn(v).run

Good(v, m) ==
  /\ v \in States
  /\ Turns(v.chat)
  /\ \A i \in 1 .. Len(v.chat): Asked(m, v.chat[i].run)
  /\ v.final # None => Asked(m, v.final)
  /\ ~Bound /\ v.chat # <<>> => Settled(v)

GoodStates ==
  /\ Good(saved, messages)
  /\ \A w \in Workers: Good(job[w].view, messages)

\* What the local variables of a request are at its next step.
Locals ==
  \A w \in Workers:
    /\ pc[w] # "idle" => job[w].run \in Runs
    /\ pc[w] \in {"upsert", "ask"} => ~job[w].resumed
    /\ pc[w] = "enter" =>
         IF job[w].resumed THEN saved.chat # <<>>
         ELSE Asked(messages, job[w].run)
    /\ pc[w] \in {"graph", "record"} =>
         job[w].view.chat # <<>> /\ saved.chat # <<>>

Waiting == approvals # {} => saved.chat # <<>>

\* One request at a time.
Patience ==
  patient => \A w \in Workers: pc[w] # "idle" =>
    /\ \A v \in Workers: pc[v] # "idle" => v = w
    /\ pc[w] = "upsert" => row = None \/ job[w].profile = row
    /\ pc[w] # "upsert" => job[w].profile = row
    /\ pc[w] = "graph" => job[w].view = saved

Inv ==
  TypeOK /\ AnsweredIsAsked /\ GoodStates /\ Locals /\ Waiting /\ Patience

-----------------------------------------------------------------------------
(* Sequences of messages and of entries.                                   *)

\* A bounded set of positions has a last one.
LEMMA MaxIsIn ==
  ASSUME NEW n \in Nat, NEW S \in SUBSET (1 .. n), S # {}
  PROVE  Max(S) \in S
  <1> DEFINE R == OpToRel(<, Nat)
             T == {k \in Nat: n - k \in S}
  <1>1. IsWellFoundedOn(R, Nat)
    BY NatLessThanWellFounded
  <1>2. R = {p \in Nat \X Nat: p[1] < p[2]}
    BY DEF OpToRel
  <1>3. T # {}
    <2>1. PICK i \in S: TRUE
      OBVIOUS
    <2>2. n - i \in Nat /\ n - (n - i) = i
      BY <2>1
    <2>3. QED
      BY <2>2
  <1>4. PICK k \in T: \A j \in T: <<j, k>> \notin R
    <2> HIDE DEF R
    <2>1. T \subseteq Nat
      OBVIOUS
    <2> HIDE DEF T
    <2>2. QED
      BY <1>1, <1>3, <2>1, WFMin
  <1> HIDE DEF R
  <1>5. \A j \in T: k <= j
    <2> TAKE j \in T
    <2>1. j \in Nat /\ k \in Nat
      OBVIOUS
    <2> HIDE DEF T
    <2> DEFINE p == <<j, k>>
    <2>2. p \in Nat \X Nat /\ p[1] = j /\ p[2] = k
      BY <2>1
    <2>3. p \notin R
      BY <1>4
    <2>4. ~ (p[1] < p[2])
      <3> HIDE DEF p
      <3> QED BY <1>2, <2>2, <2>3
    <2>5. QED
      BY <2>1, <2>2, <2>4
  <1>6. \A i \in S: n - i \in T
    <2>1. \A i \in S: n - i \in Nat /\ n - (n - i) = i
      OBVIOUS
    <2>2. QED
      BY <2>1
  <1>7. \A i \in S: n - k >= i
    <2> TAKE i \in S
    <2>1. k <= n - i /\ i \in 1 .. n /\ k \in Nat
      BY <1>5, <1>6
    <2>2. QED
      BY <2>1
  <1>8. n - k \in S
    OBVIOUS
  <1>9. \E x \in S: \A y \in S: x >= y
    BY <1>7, <1>8
  <1>10. QED
    BY <1>9 DEF Max

LEMMA Appended ==
  ASSUME NEW S, NEW s \in Seq(S), NEW e \in S
  PROVE  /\ Append(s, e) \in Seq(S)
         /\ Len(Append(s, e)) = Len(s) + 1 /\ Len(s) \in Nat
         /\ \A i \in 1 .. Len(s): Append(s, e)[i] = s[i]
         /\ Append(s, e)[Len(s) + 1] = e
         /\ Append(s, e) # <<>>
         /\ IsPrefix(s, Append(s, e)) /\ IsPrefix(s, s)
  <1>1. /\ Append(s, e) \in Seq(S) /\ Len(Append(s, e)) = Len(s) + 1
        /\ \A i \in 1 .. Len(s): Append(s, e)[i] = s[i]
        /\ Append(s, e)[Len(s) + 1] = e
    BY AppendProperties
  <1>2. Len(s) \in Nat /\ DOMAIN s = 1 .. Len(s)
    BY LenProperties
  <1>3. Append(s, e) # <<>>
    BY <1>1, <1>2, EmptySeq
  <1>4. SubSeq(Append(s, e), 1, Len(s)) = SubSeq(s, 1, Len(s))
    BY <1>1, <1>2
  <1>5. QED
    BY <1>1, <1>2, <1>3, <1>4 DEF IsPrefix

LEMMA AskedMore ==
  ASSUME NEW m \in Seq(Messages), NEW r \in Messages
  PROVE  /\ \A t: Asked(m, t) => Asked(Append(m, r), t)
         /\ r.role = "user" => Asked(Append(m, r), r.text)
  <1> DEFINE n == Append(m, r)
  <1>1. /\ Len(n) = Len(m) + 1 /\ Len(m) \in Nat
        /\ \A i \in 1 .. Len(m): n[i] = m[i]
        /\ n[Len(m) + 1] = r
    BY Appended
  <1> HIDE DEF n
  <1>2. ASSUME NEW t, Asked(m, t) PROVE Asked(n, t)
    <2>1. PICK j \in 1 .. Len(m): m[j].role = "user" /\ m[j].text = t
      BY <1>2 DEF Asked
    <2>2. j \in 1 .. Len(n) /\ n[j] = m[j]
      BY <1>1
    <2>3. QED
      BY <2>1, <2>2 DEF Asked
  <1>3. r.role = "user" => Asked(n, r.text)
    <2>1. Len(m) + 1 \in 1 .. Len(n)
      BY <1>1
    <2>2. QED
      BY <1>1, <2>1 DEF Asked
  <1>4. QED
    BY <1>2, <1>3 DEF n

\* More messages make no state worse.
LEMMA GoodMore ==
  ASSUME NEW m \in Seq(Messages), NEW r \in Messages, NEW v, Good(v, m)
  PROVE  Good(v, Append(m, r))
  <1>1. \A t: Asked(m, t) => Asked(Append(m, r), t)
    BY AskedMore
  <1>2. QED
    BY <1>1 DEF Good

LEMMA BlankIsGood == \A m: Good(Blank, m)
  <1>1. <<>> \in Seq(Entries) /\ Len(<<>>) = 0
    BY EmptySeq
  <1>2. Blank \in States /\ Blank.chat = <<>> /\ Blank.final = None
    BY <1>1 DEF Blank, States, Texts
  <1>3. QED
    BY <1>1, <1>2 DEF Good, Turns

\* The last entry of a conversation that has one.
LEMMA TurnIs ==
  ASSUME NEW m, NEW v, Good(v, m), v.chat # <<>>
  PROVE  /\ Len(v.chat) \in Nat \ {0} /\ Turn(v) = v.chat[Len(v.chat)]
         /\ Turn(v) \in Entries /\ Asked(m, Turn(v).run)
  <1>1. v.chat \in Seq(Entries)
    BY DEF Good, States
  <1>2. Len(v.chat) \in Nat \ {0} /\ DOMAIN v.chat = 1 .. Len(v.chat)
    BY <1>1, LenProperties, EmptySeq
  <1>3. Len(v.chat) \in 1 .. Len(v.chat)
    BY <1>2
  <1>4. v.chat[Len(v.chat)] \in Entries
    BY <1>1, <1>3, ElementOfSeq
  <1>5. QED
    BY <1>2, <1>3, <1>4 DEF Good, Turn, Last

-----------------------------------------------------------------------------
(* What a run saves.                                                       *)

Grown(v, e) == [v EXCEPT !.chat = Append(@, e)]

\* A question, or the next entry of the last turn, keeps turns whole.
LEMMA GrownIs ==
  ASSUME NEW m, NEW v, Good(v, m), NEW e \in Entries, Asked(m, e.run),
         \/ e.kind = "human"
         \/ /\ v.chat # <<>> /\ Turn(v).run = e.run
            /\ <<Turn(v).kind, e.kind>> \in Follows
  PROVE  LET x == Grown(v, e)
         IN  /\ x \in States /\ x.final = v.final
             /\ Turns(x.chat) /\ x.chat # <<>> /\ Turn(x) = e
             /\ \A i \in 1 .. Len(x.chat): Asked(m, x.chat[i].run)
             /\ IsPrefix(v.chat, x.chat)
  <1> DEFINE x == Grown(v, e)
             s == v.chat
             t == Append(s, e)
  <1>1. s \in Seq(Entries) /\ v \in States
    BY DEF Good, States
  <1>2. /\ t \in Seq(Entries) /\ Len(t) = Len(s) + 1 /\ Len(s) \in Nat
        /\ \A i \in 1 .. Len(s): t[i] = s[i]
        /\ t[Len(s) + 1] = e
        /\ t # <<>> /\ IsPrefix(s, t)
    BY <1>1, Appended
  <1>3. x = [v EXCEPT !.chat = t]
    BY DEF Grown
  <1>4. x.chat = t /\ x.final = v.final /\ x \in States
    BY <1>1, <1>2, <1>3 DEF States
  <1>5. Turns(s) /\ \A i \in 1 .. Len(s): Asked(m, s[i].run)
    BY DEF Good
  <1>6. s # <<>> => Len(s) > 0 /\ Turn(v) = s[Len(s)]
    BY TurnIs
  <1> HIDE DEF x, s, t
  <1>7. Turn(x) = e
    BY <1>2, <1>4 DEF Turn, Last
  <1>8. \A i \in 1 .. Len(t): Asked(m, t[i].run)
    <2> TAKE i \in 1 .. Len(t)
    <2>1. CASE i \in 1 .. Len(s)
      BY <1>2, <1>5, <2>1
    <2>2. CASE i = Len(s) + 1
      BY <1>2, <2>2
    <2>3. QED
      BY <1>2, <2>1, <2>2
  <1>9. Turns(t)
    <2> SUFFICES ASSUME NEW i \in 1 .. Len(t), t[i].kind # "human"
                 PROVE  /\ i > 1 /\ t[i - 1].run = t[i].run
                        /\ <<t[i - 1].kind, t[i].kind>> \in Follows
      BY DEF Turns
    <2>1. CASE i \in 1 .. Len(s)
      <3>1. t[i] = s[i]
        BY <1>2, <2>1
      <3>2. i > 1 /\ s[i - 1].run = s[i].run
            /\ <<s[i - 1].kind, s[i].kind>> \in Follows
        BY <1>5, <2>1, <3>1 DEF Turns
      <3>3. i - 1 \in 1 .. Len(s)
        BY <2>1, <3>2
      <3>4. QED
        BY <1>2, <3>1, <3>2, <3>3
    <2>2. CASE i = Len(s) + 1
      <3>1. s # <<>> /\ Turn(v).run = e.run
            /\ <<Turn(v).kind, e.kind>> \in Follows
        BY <1>2, <2>2 DEF s
      <3>2. i - 1 = Len(s) /\ Len(s) \in 1 .. Len(s)
        BY <1>2, <1>6, <2>2, <3>1
      <3>3. QED
        BY <1>2, <1>6, <2>2, <3>1, <3>2
    <2>3. QED
      BY <1>2, <2>1, <2>2
  <1>10. QED
    BY <1>2, <1>4, <1>7, <1>8, <1>9 DEF x, s, t

LEMMA FinalIs ==
  ASSUME NEW x \in States, x.chat # <<>>, Turn(x).run \in Runs
  PROVE  /\ WithFinal(x) \in States /\ WithFinal(x).chat = x.chat
         /\ WithFinal(x).final = Turn(x).run
         /\ Turn(WithFinal(x)) = Turn(x) /\ Turn(x).run # None
  <1>1. /\ WithFinal(x) \in States /\ WithFinal(x).chat = x.chat
        /\ WithFinal(x).final = Turn(x).run
    BY DEF WithFinal, States, Texts
  <1>2. Turn(x).run \in Nat
    BY ConversationAssumption DEF Runs
  <1>3. QED
    BY <1>1, <1>2, ConversationAssumption DEF Turn

LEMMA QuestionIsGood ==
  ASSUME NEW m, NEW v, Good(v, m), NEW run \in Runs, Asked(m, run)
  PROVE  LET x == Grown(v, Entry("human", run))
         IN  Good(x, m) /\ x.chat # <<>> /\ IsPrefix(v.chat, x.chat)
  <1> DEFINE e == Entry("human", run)
             x == Grown(v, e)
  <1>1. e \in Entries /\ e.kind = "human" /\ e.run = run
    BY DEF Entry, Entries
  <1> HIDE DEF e
  <1>2. /\ x \in States /\ x.final = v.final
        /\ Turns(x.chat) /\ x.chat # <<>> /\ Turn(x) = e
        /\ \A i \in 1 .. Len(x.chat): Asked(m, x.chat[i].run)
        /\ IsPrefix(v.chat, x.chat)
    BY <1>1, GrownIs
  <1> HIDE DEF x
  <1>3. Good(x, m)
    BY <1>1, <1>2 DEF Good, Settled, Done
  <1>4. QED
    BY <1>2, <1>3 DEF x, e

\* A node's output is Good, with a final text if it ends the turn.
LEMMA NodeIsGood ==
  ASSUME NEW m, NEW v, Good(v, m), v.chat # <<>>,
         NEW kind \in {"call", "tool", "answer"},
         <<Turn(v).kind, kind>> \in Follows
  PROVE  LET x == Grown(v, Entry(kind, Turn(v).run))
         IN  /\ kind # "answer" \/ Bound => Good(x, m)
             /\ Good(WithFinal(x), m)
             /\ x.chat # <<>> /\ WithFinal(x).chat = x.chat
             /\ IsPrefix(v.chat, x.chat)
  <1> DEFINE e == Entry(kind, Turn(v).run)
             x == Grown(v, e)
  <1>1. Turn(v) \in Entries /\ Asked(m, Turn(v).run)
    BY TurnIs
  <1>2. e \in Entries /\ e.kind = kind /\ e.run = Turn(v).run
    BY <1>1 DEF Entry, Entries
  <1> HIDE DEF e
  <1>3. /\ x \in States /\ x.final = v.final
        /\ Turns(x.chat) /\ x.chat # <<>> /\ Turn(x) = e
        /\ \A i \in 1 .. Len(x.chat): Asked(m, x.chat[i].run)
        /\ IsPrefix(v.chat, x.chat)
    BY <1>1, <1>2, GrownIs
  <1> HIDE DEF x
  <1>4. e.run \in Runs
    BY <1>2 DEF Entries
  <1>5. /\ WithFinal(x) \in States /\ WithFinal(x).chat = x.chat
        /\ WithFinal(x).final = e.run /\ Turn(WithFinal(x)) = e
    BY <1>3, <1>4, FinalIs
  <1>6. kind # "answer" \/ Bound => Good(x, m)
    BY <1>2, <1>3 DEF Good, Settled, Done
  <1>7. Good(WithFinal(x), m)
    BY <1>1, <1>2, <1>3, <1>5 DEF Good, Settled, Done
  <1>8. QED
    BY <1>3, <1>5, <1>6, <1>7 DEF x, e

\* What is found of a Good state was asked.
LEMMA ContentIsAsked ==
  ASSUME NEW m, NEW v, Good(v, m), HasText(ContentText(v))
  PROVE  ContentText(v) \in Runs /\ Asked(m, ContentText(v))
  <1>1. v \in States /\ v.chat \in Seq(Entries) /\ v.final \in Texts
    BY DEF Good, States
  <1>2. CASE v.final # None
    BY <1>1, <1>2 DEF ContentText, Good, Texts
  <1>3. CASE v.final = None /\ Answers(v) # {}
    <2>1. Len(v.chat) \in Nat /\ DOMAIN v.chat = 1 .. Len(v.chat)
      BY <1>1, LenProperties
    <2>2. Answers(v) \in SUBSET (1 .. Len(v.chat))
      BY <2>1 DEF Answers
    <2>3. Max(Answers(v)) \in 1 .. Len(v.chat)
      BY <1>3, <2>1, <2>2, MaxIsIn
    <2>4. v.chat[Max(Answers(v))] \in Entries
      BY <1>1, <2>3, ElementOfSeq
    <2>5. QED
      BY <1>3, <2>3, <2>4 DEF ContentText, Good, Entries
  <1>4. QED
    BY <1>2, <1>3 DEF ContentText, HasText

-----------------------------------------------------------------------------
(* Init and the steps.                                                     *)

LEMMA InitInv == Init => Inv
  <1> SUFFICES ASSUME Init PROVE Inv
    OBVIOUS
  <1>1. <<>> \in Seq(Messages) /\ Len(<<>>) = 0
    BY EmptySeq
  <1>2. \A m: Good(Blank, m) /\ Blank \in States
    BY BlankIsGood DEF Good
  <1>3. NoJob \in Jobs /\ NoJob.view = Blank
    BY <1>2 DEF NoJob, Jobs, Texts
  <1>4. TypeOK
    <2>1. runs \in 0 .. MaxRuns
      BY ConversationAssumption DEF Init
    <2>2. QED
      BY <1>1, <1>2, <1>3, <2>1 DEF Init, TypeOK, Messages, Jobs, Steps
  <1>5. GoodStates /\ AnsweredIsAsked
    BY <1>1, <1>2, <1>3 DEF Init, GoodStates, AnsweredIsAsked
  <1>6. Locals /\ Waiting /\ Patience
    BY DEF Init, Locals, Waiting, Patience
  <1>7. QED
    BY <1>4, <1>5, <1>6 DEF Inv

LEMMA TypesAre ==
  ASSUME TypeOK
  PROVE  /\ messages \in Seq(Messages)
         /\ job \in [Workers -> Jobs] /\ pc \in [Workers -> Steps]
  BY DEF TypeOK, Messages, Jobs

\* Steps that change no message, no checkpoint and no view.
LEMMA OpenInv ==
  ASSUME Inv, NEW w \in Workers, NEW p \in Profiles, Open(w, p)
  PROVE  Inv'
  <1>1. TypeOK' /\ GoodStates' /\ AnsweredIsAsked'
    BY DEF Inv, TypeOK, GoodStates, AnsweredIsAsked, Open, Upsert
  <1>2. Locals' /\ Waiting'
    BY DEF Inv, Locals, Waiting, Open
  <1>3. Patience'
    BY DEF Inv, Patience, Open, Free
  <1>4. QED
    BY <1>1, <1>2, <1>3 DEF Inv

LEMMA RejectInv ==
  ASSUME Inv, NEW r \in approvals, Reject(r)
  PROVE  Inv'
  <1>1. TypeOK' /\ GoodStates' /\ AnsweredIsAsked'
    BY DEF Inv, TypeOK, GoodStates, AnsweredIsAsked, Reject
  <1>2. Locals' /\ Waiting' /\ Patience'
    BY DEF Inv, Locals, Waiting, Patience, Reject
  <1>3. QED
    BY <1>1, <1>2 DEF Inv

\* A request that starts, by a message or by an approval.
LEMMA StartInv ==
  ASSUME Inv, NEW w \in Workers, NEW j \in Jobs, NEW step \in Steps,
         Free(w), runs < MaxRuns, runs' = runs + 1,
         job' = [job EXCEPT ![w] = j], Goto(w, step),
         approvals' \in SUBSET approvals,
         UNCHANGED <<patient, row, messages, saved>>,
         j.run = runs + 1, j.view = Blank,
         \/ /\ step = "upsert" /\ ~j.resumed
            /\ row = None \/ j.profile = row
         \/ /\ step = "enter" /\ j.resumed /\ j.profile = row
            /\ saved.chat # <<>>
  PROVE  Inv'
  <1>1. /\ messages \in Seq(Messages)
        /\ job \in [Workers -> Jobs] /\ pc \in [Workers -> Steps]
    BY TypesAre DEF Inv
  <1>2. runs + 1 \in Runs /\ runs + 1 \in 0 .. MaxRuns
    BY ConversationAssumption DEF Inv, TypeOK, Runs
  <1>3. job' \in [Workers -> Jobs] /\ pc' \in [Workers -> Steps]
    BY <1>1 DEF Goto
  <1>4. TypeOK'
    BY <1>2, <1>3 DEF Inv, TypeOK, Jobs
  <1>5. /\ \A x \in Workers \ {w}: job'[x] = job[x] /\ pc'[x] = pc[x]
        /\ job'[w] = j /\ pc'[w] = step
    BY <1>1 DEF Goto
  <1>6. GoodStates' /\ AnsweredIsAsked'
    BY <1>5, BlankIsGood DEF Inv, GoodStates, AnsweredIsAsked
  <1>7. Locals'
    BY <1>2, <1>5 DEF Inv, Locals
  <1>8. Waiting'
    BY DEF Inv, Waiting
  <1>9. Patience'
    BY <1>5 DEF Inv, Patience, Free
  <1>10. QED
    BY <1>4, <1>6, <1>7, <1>8, <1>9 DEF Inv

LEMMA ReceiveInv ==
  ASSUME Inv, NEW w \in Workers, NEW p \in Profiles, Receive(w, p)
  PROVE  Inv'
  <1> DEFINE j == [NoJob EXCEPT !.run = runs + 1, !.profile = ProfileOf(p)]
  <1>1. Blank \in States
    BY BlankIsGood DEF Good
  <1>2. runs + 1 \in Runs /\ row \in Profiles \cup {None}
    BY ConversationAssumption DEF Inv, TypeOK, Runs, Receive
  <1>3. /\ j \in Jobs /\ j.run = runs + 1 /\ j.view = Blank
        /\ ~j.resumed
        /\ row = None \/ j.profile = row
    BY <1>1, <1>2 DEF NoJob, Jobs, Texts, ProfileOf
  <1>4. /\ job' = [job EXCEPT ![w] = j] /\ Goto(w, "upsert") /\ Free(w)
        /\ runs < MaxRuns /\ runs' = runs + 1 /\ approvals' \in SUBSET approvals
        /\ UNCHANGED <<patient, row, messages, saved>>
    BY DEF Receive
  <1> HIDE DEF j
  <1>5. QED
    BY <1>3, <1>4, StartInv DEF Steps

LEMMA ApproveInv ==
  ASSUME Inv, NEW w \in Workers, NEW r \in approvals, Approve(w, r)
  PROVE  Inv'
  <1> DEFINE j == [NoJob EXCEPT !.run = runs + 1, !.profile = row,
                                !.resumed = TRUE]
  <1>1. Blank \in States
    BY BlankIsGood DEF Good
  <1>2. runs + 1 \in Runs /\ row \in Profiles \cup {None}
    BY ConversationAssumption DEF Inv, TypeOK, Runs, Approve
  <1>3. /\ j \in Jobs /\ j.run = runs + 1 /\ j.view = Blank
        /\ j.profile = row /\ j.resumed
    BY <1>1, <1>2 DEF NoJob, Jobs, Texts
  <1>4. /\ job' = [job EXCEPT ![w] = j] /\ Goto(w, "enter") /\ Free(w)
        /\ runs < MaxRuns /\ runs' = runs + 1 /\ approvals' \in SUBSET approvals
        /\ UNCHANGED <<patient, row, messages, saved>>
    BY DEF Approve
  <1>5. saved.chat # <<>>
    BY DEF Inv, Waiting
  <1> HIDE DEF j
  <1>6. QED
    BY <1>3, <1>4, <1>5, StartInv DEF Steps

LEMMA InsertInv ==
  ASSUME Inv, NEW w \in Workers, Insert(w)
  PROVE  Inv'
  <1>1. job \in [Workers -> Jobs] /\ pc \in [Workers -> Steps]
    BY TypesAre DEF Inv
  <1>2. /\ \A x \in Workers \ {w}: pc'[x] = pc[x]
        /\ pc[w] = "upsert" /\ pc'[w] = "ask"
    BY <1>1 DEF Insert, Goto
  <1>3. row' \in Profiles \cup {None} /\ pc' \in [Workers -> Steps]
    BY <1>1 DEF Inv, TypeOK, Insert, Upsert, Goto, Steps, Jobs
  <1>4. TypeOK' /\ GoodStates' /\ AnsweredIsAsked'
    BY <1>3 DEF Inv, TypeOK, GoodStates, AnsweredIsAsked, Insert
  <1>5. Locals' /\ Waiting'
    BY <1>2 DEF Inv, Locals, Waiting, Insert
  <1>6. Patience'
    <2>1. patient => row' = job[w].profile
      BY <1>2 DEF Inv, Patience, Insert, Upsert
    <2>2. QED
      BY <1>2, <2>1 DEF Inv, Patience, Insert
  <1>7. QED
    BY <1>4, <1>5, <1>6 DEF Inv

\* A row is added; who adds it may change too.
LEMMA AddedInv ==
  ASSUME Inv, NEW r \in Messages, messages' = Append(messages, r),
         \/ r.role = "user"
         \/ Asked(messages, r.text)
  PROVE  /\ messages' \in Seq(Messages)
         /\ AnsweredIsAsked'
         /\ Good(saved, messages')
         /\ \A w \in Workers: Good(job[w].view, messages')
         /\ \A t: Asked(messages, t) => Asked(messages', t)
  <1>1. messages \in Seq(Messages)
    BY TypesAre DEF Inv
  <1>2. /\ messages' \in Seq(Messages)
        /\ Len(messages') = Len(messages) + 1 /\ Len(messages) \in Nat
        /\ \A i \in 1 .. Len(messages): messages'[i] = messages[i]
        /\ messages'[Len(messages) + 1] = r
    BY <1>1, Appended
  <1>3. AnsweredIsAsked'
    <2> SUFFICES ASSUME NEW i \in 1 .. Len(messages'),
                        messages'[i].role = "assistant"
                 PROVE  \E j \in 1 .. i - 1:
                          /\ messages'[j].role = "user"
                          /\ messages'[j].text = messages'[i].text
      BY DEF AnsweredIsAsked
    <2>1. CASE i \in 1 .. Len(messages)
      <3>1. messages'[i] = messages[i]
        BY <1>2, <2>1
      <3>2. PICK j \in 1 .. i - 1: /\ messages[j].role = "user"
                                   /\ messages[j].text = messages[i].text
        BY <2>1, <3>1 DEF Inv, AnsweredIsAsked
      <3>3. messages'[j] = messages[j]
        BY <1>2, <2>1
      <3>4. QED
        BY <3>1, <3>2, <3>3
    <2>2. CASE i = Len(messages) + 1
      <3>1. r.role = "assistant" /\ messages'[i] = r
        BY <1>2, <2>2
      <3>2. PICK j \in 1 .. Len(messages): /\ messages[j].role = "user"
                                           /\ messages[j].text = r.text
        BY <3>1 DEF Asked
      <3>3. messages'[j] = messages[j] /\ j \in 1 .. i - 1
        BY <1>2, <2>2
      <3>4. QED
        BY <3>1, <3>2, <3>3
    <2>3. QED
      BY <1>2, <2>1, <2>2
  <1>4. Good(saved, messages') /\ \A w \in Workers: Good(job[w].view, messages')
    BY <1>1, GoodMore DEF Inv, GoodStates
  <1>5. \A t: Asked(messages, t) => Asked(messages', t)
    BY <1>1, AskedMore
  <1>6. QED
    BY <1>2, <1>3, <1>4, <1>5

LEMMA AskInv ==
  ASSUME Inv, NEW w \in Workers, Ask(w)
  PROVE  Inv'
  <1> DEFINE r == [role |-> "user", run |-> job[w].run, text |-> job[w].run]
  <1>1. job \in [Workers -> Jobs] /\ pc \in [Workers -> Steps]
    BY TypesAre DEF Inv
  <1>2. /\ \A x \in Workers \ {w}: pc'[x] = pc[x]
        /\ pc[w] = "ask" /\ pc'[w] = "enter" /\ pc' \in [Workers -> Steps]
    BY <1>1 DEF Ask, Goto, Steps
  <1>3. job[w].run \in Runs
    BY <1>2 DEF Inv, Locals
  <1>4. r \in Messages /\ messages' = Append(messages, r) /\ r.role = "user"
    BY <1>3 DEF Messages, Ask, Question, WithRow
  <1>5. messages \in Seq(Messages) /\ r.text = job[w].run
    BY TypesAre DEF Inv
  <1> HIDE DEF r
  <1>6. /\ messages' \in Seq(Messages) /\ AnsweredIsAsked'
        /\ Good(saved, messages')
        /\ \A x \in Workers: Good(job[x].view, messages')
        /\ \A t: Asked(messages, t) => Asked(messages', t)
    BY <1>4, AddedInv
  <1>7. Asked(messages', job[w].run)
    BY <1>4, <1>5, AskedMore
  <1>8. TypeOK' /\ GoodStates'
    BY <1>2, <1>6 DEF Inv, TypeOK, GoodStates, Ask, Messages
  <1>9. Locals'
    <2>1. job' = job /\ saved' = saved /\ job[w].run \in Runs
      BY <1>3 DEF Ask
    <2>2. ~job[w].resumed
      BY <1>2 DEF Inv, Locals
    <2>3. QED
      BY <1>2, <1>6, <1>7, <2>1, <2>2 DEF Inv, Locals
  <1>10. Waiting' /\ Patience'
    BY <1>2 DEF Inv, Waiting, Patience, Ask
  <1>11. QED
    BY <1>6, <1>8, <1>9, <1>10 DEF Inv

-----------------------------------------------------------------------------
(* The graph: every node saves a state that is Good and that, with patient *)
(* clients, continues the checkpoint.                                      *)

\* What a step does to the conversation, if clients are patient.
Continued == patient => IsPrefix(saved.chat, saved'.chat)

LEMMA SaveInv ==
  ASSUME Inv, NEW w \in Workers, pc[w] \in {"enter", "graph"},
         NEW v, Good(v, messages), v.chat # <<>>,
         patient => IsPrefix(saved.chat, v.chat),
         Save(w, v), UNCHANGED approvals
  PROVE  Inv' /\ Continued
  <1>1. job \in [Workers -> Jobs] /\ pc \in [Workers -> Steps]
    BY TypesAre DEF Inv
  <1>2. v \in States
    BY DEF Good
  <1>3. /\ job' \in [Workers -> Jobs] /\ pc' \in [Workers -> Steps]
        /\ \A x \in Workers \ {w}: job'[x] = job[x] /\ pc'[x] = pc[x]
        /\ job'[w].view = v /\ job'[w].run = job[w].run
        /\ job'[w].profile = job[w].profile
        /\ pc'[w] \in {"graph", "record"} /\ saved' = v
        /\ UNCHANGED <<patient, row, messages, runs, approvals>>
    BY <1>1, <1>2 DEF Save, Goto, Steps, Jobs
  <1>4. TypeOK' /\ AnsweredIsAsked'
    BY <1>2, <1>3 DEF Inv, TypeOK, AnsweredIsAsked, Jobs
  <1>5. GoodStates'
    BY <1>3 DEF Inv, GoodStates
  <1>6. Locals'
    BY <1>3 DEF Inv, Locals
  <1>7. Waiting'
    BY <1>3 DEF Waiting
  <1>8. Patience'
    BY <1>3 DEF Inv, Patience
  <1>9. Continued
    BY <1>3 DEF Continued
  <1>10. QED
    BY <1>4, <1>5, <1>6, <1>7, <1>8, <1>9 DEF Inv

LEMMA EnterInv ==
  ASSUME Inv, NEW w \in Workers, Enter(w)
  PROVE  Inv' /\ Continued
  <1>1. pc[w] = "enter" /\ Save(w, Loaded(w)) /\ UNCHANGED approvals
    BY DEF Enter
  <1>2. saved \in States /\ Good(saved, messages)
    BY DEF Inv, TypeOK, GoodStates
  <1>3. CASE job[w].resumed
    <2>1. saved.chat # <<>> /\ Loaded(w) = saved
      BY <1>1, <1>3 DEF Inv, Locals, Loaded
    <2>2. IsPrefix(saved.chat, saved.chat)
      BY <1>2 DEF IsPrefix, States
    <2>3. QED
      BY <1>1, <1>2, <2>1, <2>2, SaveInv
  <1>4. CASE ~job[w].resumed
    <2>1. Loaded(w) = Grown(saved, Entry("human", job[w].run))
      BY <1>4 DEF Loaded, Grown
    <2>2. job[w].run \in Runs /\ Asked(messages, job[w].run)
      BY <1>1, <1>4 DEF Inv, Locals
    <2>3. /\ Good(Loaded(w), messages) /\ Loaded(w).chat # <<>>
          /\ IsPrefix(saved.chat, Loaded(w).chat)
      BY <1>2, <2>1, <2>2, QuestionIsGood
    <2>4. QED
      BY <1>1, <2>3, SaveInv
  <1>5. QED
    BY <1>3, <1>4

LEMMA NodeInv ==
  ASSUME Inv, NEW w \in Workers
  PROVE  CallTool(w) \/ Reply(w) \/ ReturnTool(w) \/ Conclude(w)
           => Inv' /\ Continued
  <1> SUFFICES ASSUME CallTool(w) \/ Reply(w) \/ ReturnTool(w) \/ Conclude(w)
               PROVE  Inv' /\ Continued
    OBVIOUS
  <1> DEFINE v == job[w].view
  <1>1. pc[w] = "graph" /\ UNCHANGED approvals
    BY DEF CallTool, Reply, ReturnTool, Conclude, At
  <1>2. Good(v, messages) /\ v.chat # <<>>
    BY <1>1 DEF Inv, GoodStates, Locals
  <1>3. patient => v = saved
    BY <1>1 DEF Inv, Patience
  <1>4. \A kind: Extended(w, kind) = Grown(v, Entry(kind, Turn(v).run))
    BY DEF Extended, View, Grown
  <1>5. ASSUME NEW kind \in {"call", "tool", "answer"},
               <<Turn(v).kind, kind>> \in Follows,
               \/ Save(w, Extended(w, kind)) /\ (kind # "answer" \/ Bound)
               \/ Save(w, WithFinal(Extended(w, kind)))
        PROVE  Inv' /\ Continued
    <2> DEFINE x == Extended(w, kind)
    <2>1. /\ kind # "answer" \/ Bound => Good(x, messages)
          /\ Good(WithFinal(x), messages)
          /\ x.chat # <<>> /\ WithFinal(x).chat = x.chat
          /\ IsPrefix(v.chat, x.chat)
      <3>1. x = Grown(v, Entry(kind, Turn(v).run))
        BY <1>4
      <3>2. <<Turn(v).kind, kind>> \in Follows
        BY <1>5
      <3> HIDE DEF x, v
      <3>3. QED
        BY <1>2, <3>1, <3>2, NodeIsGood
    <2> HIDE DEF x, v
    <2>2. patient => IsPrefix(saved.chat, x.chat)
      BY <1>3, <2>1
    <2>3. CASE Save(w, x) /\ (kind # "answer" \/ Bound)
      BY <1>1, <2>1, <2>2, <2>3, SaveInv
    <2>4. CASE Save(w, WithFinal(x))
      BY <1>1, <2>1, <2>2, <2>4, SaveInv
    <2>5. QED
      BY <1>5, <2>3, <2>4 DEF x
  <1>6. CASE CallTool(w)
    <2>1. Turn(v).kind = "human" /\ Save(w, Extended(w, "call"))
      BY <1>6 DEF CallTool, At
    <2>2. QED
      BY <1>5, <2>1 DEF Follows
  <1>7. CASE Reply(w)
    <2>1. /\ Turn(v).kind = "human"
          /\ IF Bound THEN Save(w, Extended(w, "answer"))
                      ELSE Save(w, WithFinal(Extended(w, "answer")))
      BY <1>7 DEF Reply, At
    <2>2. QED
      BY <1>5, <2>1 DEF Follows
  <1>8. CASE ReturnTool(w)
    <2>1. Turn(v).kind = "call" /\ Save(w, Extended(w, "tool"))
      BY <1>8 DEF ReturnTool, At
    <2>2. QED
      BY <1>5, <2>1 DEF Follows
  <1>9. CASE Conclude(w)
    <2>1. /\ Turn(v).kind = "tool"
          /\ Save(w, WithFinal(Extended(w, "answer")))
      BY <1>9 DEF Conclude, At
    <2>2. QED
      BY <1>5, <2>1 DEF Follows
  <1>10. QED
    BY <1>6, <1>7, <1>8, <1>9

LEMMA InterruptInv ==
  ASSUME Inv, NEW w \in Workers, Interrupt(w)
  PROVE  Inv'
  <1>1. job \in [Workers -> Jobs] /\ pc \in [Workers -> Steps]
    BY TypesAre DEF Inv
  <1>2. /\ \A x \in Workers \ {w}: pc'[x] = pc[x]
        /\ pc[w] = "graph" /\ pc'[w] = "record" /\ pc' \in [Workers -> Steps]
    BY <1>1 DEF Interrupt, At, Goto, Steps
  <1>3. Turn(job[w].view).run \in Runs /\ saved.chat # <<>>
    <2>1. /\ Good(job[w].view, messages) /\ job[w].view.chat # <<>>
          /\ saved.chat # <<>>
      BY <1>2 DEF Inv, GoodStates, Locals
    <2>2. Turn(job[w].view) \in Entries
      BY <2>1, TurnIs
    <2>3. QED
      BY <2>1, <2>2 DEF Entries
  <1>4. TypeOK' /\ GoodStates' /\ AnsweredIsAsked'
    BY <1>2, <1>3 DEF Inv, TypeOK, GoodStates, AnsweredIsAsked, Interrupt
  <1>5. Locals' /\ Waiting'
    BY <1>2, <1>3 DEF Inv, Locals, Waiting, Interrupt
  <1>6. Patience'
    BY <1>2 DEF Inv, Patience, Interrupt
  <1>7. QED
    BY <1>4, <1>5, <1>6 DEF Inv

\* A request that ends, with or without a row.
LEMMA EndInv ==
  ASSUME Inv, NEW w \in Workers, pc[w] # "idle", Goto(w, "idle"),
         job' = [job EXCEPT ![w] = NoJob],
         messages' \in Seq(Messages), AnsweredIsAsked',
         Good(saved, messages'),
         \A x \in Workers: Good(job[x].view, messages'),
         \A t: Asked(messages, t) => Asked(messages', t),
         UNCHANGED <<patient, row, saved, approvals, runs>>
  PROVE  Inv'
  <1>1. job \in [Workers -> Jobs] /\ pc \in [Workers -> Steps]
    BY TypesAre DEF Inv
  <1>2. Blank \in States
    BY BlankIsGood DEF Good
  <1>3. NoJob \in Jobs /\ NoJob.view = Blank
    BY <1>2 DEF NoJob, Jobs, Texts
  <1>4. /\ \A x \in Workers \ {w}: pc'[x] = pc[x] /\ job'[x] = job[x]
        /\ pc'[w] = "idle" /\ job'[w] = NoJob
        /\ pc' \in [Workers -> Steps] /\ job' \in [Workers -> Jobs]
    BY <1>1, <1>3 DEF Goto, Steps
  <1>5. TypeOK'
    BY <1>4 DEF Inv, TypeOK, Messages, Jobs
  <1>6. GoodStates'
    BY <1>3, <1>4, BlankIsGood DEF Inv, GoodStates
  <1>7. Locals' /\ Waiting' /\ Patience'
    BY <1>4 DEF Inv, Locals, Waiting, Patience
  <1>8. QED
    BY <1>5, <1>6, <1>7 DEF Inv

LEMMA RecordInv ==
  ASSUME Inv, NEW w \in Workers, Record(w)
  PROVE  Inv'
  <1> DEFINE text == ContentText(job[w].view)
             r == [role |-> "assistant", run |-> job[w].run, text |-> text]
  <1>1. /\ pc[w] = "record" /\ Goto(w, "idle")
        /\ job' = [job EXCEPT ![w] = NoJob]
        /\ UNCHANGED <<patient, row, saved, approvals, runs>>
    BY DEF Record
  <1>2. Good(job[w].view, messages) /\ job[w].run \in Runs
    BY <1>1 DEF Inv, GoodStates, Locals
  <1>3. CASE HasText(text)
    <2>1. text \in Runs /\ Asked(messages, text)
      BY <1>2, <1>3, ContentIsAsked
    <2>2. messages' = Append(messages, r)
      BY <1>3 DEF Record, WithRow
    <2>3. r \in Messages /\ r.text = text
      BY <1>2, <2>1 DEF Messages
    <2> HIDE DEF r, text
    <2>4. /\ messages' \in Seq(Messages) /\ AnsweredIsAsked'
          /\ Good(saved, messages')
          /\ \A x \in Workers: Good(job[x].view, messages')
          /\ \A t: Asked(messages, t) => Asked(messages', t)
      BY <2>1, <2>2, <2>3, AddedInv
    <2>5. QED
      BY <1>1, <2>4, EndInv
  <1>4. CASE ~HasText(text)
    <2>1. messages' = messages
      BY <1>4 DEF Record
    <2>2. messages \in Seq(Messages) /\ AnsweredIsAsked'
      BY <2>1, TypesAre DEF Inv, AnsweredIsAsked
    <2>3. QED
      BY <1>1, <2>1, <2>2, EndInv DEF Inv, GoodStates
  <1>5. QED
    BY <1>3, <1>4

LEMMA LoseInv ==
  ASSUME Inv, NEW w \in Workers, Lose(w)
  PROVE  Inv'
  <1>1. messages \in Seq(Messages) /\ messages' = messages
    BY TypesAre DEF Inv, Lose
  <1>2. AnsweredIsAsked'
    BY <1>1 DEF Inv, AnsweredIsAsked
  <1>3. QED
    BY <1>1, <1>2, EndInv DEF Inv, GoodStates, Lose

LEMMA StutterInv == Inv /\ UNCHANGED vars => Inv'
  BY DEF Inv, TypeOK, AnsweredIsAsked, GoodStates, Locals, Waiting, Patience,
         vars

-----------------------------------------------------------------------------

LEMMA NextInv == Inv /\ [Next]_vars => Inv'
  <1> SUFFICES ASSUME Inv, [Next]_vars PROVE Inv'
    OBVIOUS
  <1>1. ASSUME NEW r \in approvals, Reject(r) PROVE Inv'
    BY <1>1, RejectInv
  <1>2. ASSUME NEW w \in Workers, Step(w) PROVE Inv'
    BY <1>2, InsertInv, AskInv, EnterInv, NodeInv, InterruptInv, RecordInv
       DEF Step
  <1>3. ASSUME NEW w \in Workers, Lose(w) PROVE Inv'
    BY <1>3, LoseInv
  <1>4. ASSUME NEW w \in Workers, NEW p \in Profiles,
               Open(w, p) \/ Receive(w, p)
        PROVE  Inv'
    BY <1>4, OpenInv, ReceiveInv
  <1>5. ASSUME NEW w \in Workers, NEW r \in approvals, Approve(w, r)
        PROVE  Inv'
    BY <1>5, ApproveInv
  <1>6. CASE UNCHANGED vars
    BY <1>6, StutterInv
  <1>7. QED
    BY <1>1, <1>2, <1>3, <1>4, <1>5, <1>6 DEF Next

LEMMA NextContinues == Inv /\ [Next]_vars => Continued
  <1> SUFFICES ASSUME Inv, [Next]_vars PROVE Continued
    OBVIOUS
  <1>1. CASE saved' = saved
    <2>1. saved.chat \in Seq(Entries)
      BY DEF Inv, TypeOK, States
    <2>2. IsPrefix(saved.chat, saved.chat)
      BY <2>1 DEF IsPrefix
    <2>3. QED
      BY <1>1, <2>2 DEF Continued
  <1>2. CASE saved' # saved
    <2>1. PICK w \in Workers: Step(w)
      BY <1>2 DEF Next, vars, Reject, Lose, Open, Receive, Approve
    <2>2. Enter(w) \/ CallTool(w) \/ Reply(w) \/ ReturnTool(w) \/ Conclude(w)
      BY <1>2, <2>1 DEF Step, Insert, Ask, Interrupt, Record
    <2>3. QED
      BY <2>2, EnterInv, NodeInv
  <1>3. QED
    BY <1>1, <1>2

(* The inductive invariant holds of every reachable state.                 *)
THEOREM InvHolds == Spec => []Inv
  <1>1. QED
    BY InitInv, NextInv, PTL DEF Spec

(* Types: no row of thread_messages is without a text.                     *)
THEOREM TypeCorrect == Spec => []TypeOK
  <1>1. Inv => TypeOK
    BY DEF Inv
  <1>2. QED
    BY <1>1, InvHolds, PTL

(* One profile per thread with patient clients: message_run's lookup and   *)
(* thread_upsert agree, and approvals resume with the profile of the row.  *)
THEOREM ProfilesAreOne == Spec => []OneProfile
  <1>1. Inv => OneProfile
    <2> SUFFICES ASSUME Inv PROVE OneProfile
      OBVIOUS
    <2>1. QED
      BY DEF Inv, Patience, OneProfile
  <1>2. QED
    BY <1>1, InvHolds, PTL

(* Every answer in thread_messages answers a question stored before it.    *)
THEOREM AnswersAreAsked == Spec => []AnsweredIsAsked
  <1>1. Inv => AnsweredIsAsked
    BY DEF Inv
  <1>2. QED
    BY <1>1, InvHolds, PTL

(* Turns do not mix in a checkpoint, however runs overlap.                 *)
THEOREM TurnsStayWhole == Spec => []TurnsAreWhole
  <1>1. Inv => TurnsAreWhole
    BY DEF Inv, GoodStates, Good, Turns, TurnsAreWhole, Follows
  <1>2. QED
    BY <1>1, InvHolds, PTL

(* With patient clients a checkpoint continues the one before it.          *)
THEOREM ConversationStays == Spec => ConversationKept
  <1>1. Inv /\ [Next]_vars
          => [patient => IsPrefix(saved.chat, saved'.chat)]_<<patient, saved>>
    BY NextContinues DEF Continued
  <1>2. QED
    BY <1>1, InvHolds, PTL DEF Spec, ConversationKept

(* If the model's own replies set final, as AssistantNode does without     *)
(* bind_tools, an answered run stores its own answer.                      *)
THEOREM RepliesAreOwn == ASSUME ~Bound PROVE Spec => []RepliesWithOwn
  <1>1. Inv => RepliesWithOwn
    <2> SUFFICES ASSUME Inv, NEW w \in Workers, pc[w] = "record",
                        Done(job[w].view)
                 PROVE  ContentText(job[w].view) = Turn(job[w].view).run
      BY DEF RepliesWithOwn
    <2> DEFINE v == job[w].view
    <2>1. Good(v, messages) /\ v.chat # <<>>
      BY DEF Inv, GoodStates, Locals
    <2>2. v.final = Turn(v).run /\ Turn(v) \in Entries
      BY <2>1, TurnIs DEF Good, Settled
    <2>3. v.final # None
      BY <2>2, ConversationAssumption DEF Entries, Runs
    <2>4. QED
      BY <2>2, <2>3 DEF ContentText
  <1>2. QED
    BY <1>1, InvHolds, PTL

-----------------------------------------------------------------------------
(* Every run of the graph adds its own rows.                               *)

\* The rows of a run: its question, if it has one, and then its answer.
RowsInOrder ==
  \A i, j \in 1 .. Len(messages):
    i < j /\ messages[i].run = messages[j].run =>
      messages[i].role = "user" /\ messages[j].role = "assistant"

\* Requests at work have runs of their own; which rows those runs have so far.
RunsDiffer ==
  /\ \A w \in Workers: pc[w] # "idle" => job[w].run \in 1 .. runs
  /\ \A w, v \in Workers:
       pc[w] # "idle" /\ pc[v] # "idle" /\ job[w].run = job[v].run => w = v

RowsSoFar ==
  /\ \A i \in 1 .. Len(messages): messages[i].run <= runs
  /\ \A w \in Workers: pc[w] # "idle" =>
       \A i \in 1 .. Len(messages): messages[i].run = job[w].run =>
         pc[w] \notin {"upsert", "ask"} /\ messages[i].role = "user"

RowInv == RowsInOrder /\ RunsDiffer /\ RowsSoFar

\* A step after which every request at work is at work on the run it had, and
\* none is back before its question.
Proceeds ==
  \A w \in Workers: pc'[w] # "idle" =>
    /\ pc[w] # "idle" /\ job'[w].run = job[w].run
    /\ pc[w] \in {"upsert", "ask"} \/ pc'[w] \notin {"upsert", "ask"}

LEMMA ProceedsRows ==
  ASSUME Inv, RowInv, Proceeds, UNCHANGED <<messages, runs>>
  PROVE  RowInv'
  <1>1. RowsInOrder' /\ RunsDiffer'
    BY DEF RowInv, RowsInOrder, RunsDiffer, Proceeds
  <1>2. RowsSoFar'
    BY DEF RowInv, RowsSoFar, Proceeds
  <1>3. QED
    BY <1>1, <1>2 DEF RowInv

\* A run starts: no row is its own.
LEMMA StartRows ==
  ASSUME Inv, RowInv, NEW w \in Workers, runs' = runs + 1, UNCHANGED messages,
         \A v \in Workers \ {w}: pc'[v] = pc[v] /\ job'[v] = job[v],
         job'[w].run = runs + 1
  PROVE  RowInv'
  <1>1. /\ runs \in Nat /\ Len(messages) \in Nat
        /\ \A i \in 1 .. Len(messages): messages[i].run \in Nat
        /\ \A v \in Workers: pc[v] # "idle" => job[v].run \in Nat
    <2>1. runs \in Nat /\ messages \in Seq(Messages)
      BY ConversationAssumption, TypesAre DEF Inv, TypeOK
    <2>2. DOMAIN messages = 1 .. Len(messages) /\ Len(messages) \in Nat
      BY <2>1, LenProperties
    <2>3. \A i \in 1 .. Len(messages): messages[i] \in Messages
      BY <2>1, <2>2, ElementOfSeq
    <2>4. \A v \in Workers: pc[v] # "idle" => job[v].run \in Runs
      BY DEF Inv, Locals
    <2>5. QED
      BY <2>1, <2>2, <2>3, <2>4, ConversationAssumption DEF Messages, Runs
  <1>2. RowsInOrder'
    BY DEF RowInv, RowsInOrder
  <1>3. RunsDiffer'
    BY <1>1 DEF RowInv, RunsDiffer
  <1>4. RowsSoFar'
    <2>1. \A i \in 1 .. Len(messages): messages[i].run <= runs
      BY DEF RowInv, RowsSoFar
    <2>2. \A i \in 1 .. Len(messages):
            messages[i].run <= runs + 1 /\ messages[i].run # runs + 1
      BY <1>1, <2>1
    <2>3. \A v \in Workers \ {w}: pc'[v] # "idle" =>
            \A i \in 1 .. Len(messages): messages[i].run = job'[v].run =>
              pc'[v] \notin {"upsert", "ask"} /\ messages[i].role = "user"
      BY DEF RowInv, RowsSoFar
    <2>4. QED
      BY <2>2, <2>3 DEF RowsSoFar
  <1>5. QED
    BY <1>2, <1>3, <1>4 DEF RowInv

\* A request at work adds a row: a question before its graph runs, or an answer
\* after which it is done.
LEMMA AddRow ==
  ASSUME Inv, RowInv, NEW w \in Workers, pc[w] # "idle", NEW r \in Messages,
         r.run = job[w].run, messages' = Append(messages, r), UNCHANGED runs,
         Proceeds,
         \/ r.role = "user" /\ pc[w] = "ask" /\ pc'[w] = "enter"
         \/ r.role = "assistant" /\ pc'[w] = "idle"
  PROVE  RowInv'
  <1> DEFINE m == messages'
             n == Len(messages)
  <1>1. /\ Len(m) = n + 1 /\ n \in Nat
        /\ \A i \in 1 .. n: m[i] = messages[i]
        /\ m[n + 1] = r
    BY TypesAre, Appended DEF Inv
  <1>2. \A i \in 1 .. Len(m): i \in 1 .. n \/ i = n + 1
    BY <1>1
  <1>3. RunsDiffer'
    BY DEF RowInv, RunsDiffer, Proceeds
  <1>4. \A i \in 1 .. n: messages[i].run = r.run =>
          pc[w] # "ask" /\ messages[i].role = "user"
    BY DEF RowInv, RowsSoFar
  <1>5. r.run <= runs
    <2>1. r.run \in 1 .. runs /\ runs \in Nat
      BY ConversationAssumption DEF RowInv, RunsDiffer, Inv, TypeOK
    <2>2. QED
      BY <2>1
  <1> HIDE DEF m, n
  <1>6. ASSUME NEW i \in 1 .. Len(m), NEW j \in 1 .. Len(m), i < j, m[i].run = m[j].run
        PROVE  m[i].role = "user" /\ m[j].role = "assistant"
    <2>1. i \in 1 .. n
      BY <1>1, <1>2, <1>6
    <2>2. CASE j \in 1 .. n
      BY <1>1, <1>6, <2>1, <2>2 DEF RowInv, RowsInOrder, n
    <2>3. CASE j = n + 1
      BY <1>1, <1>4, <1>6, <2>1, <2>3
    <2>4. QED
      BY <1>2, <2>2, <2>3
  <1>7. RowsInOrder'
    BY <1>6 DEF RowsInOrder, m
  <1>8. \A i \in 1 .. Len(m): m[i].run <= runs'
    BY <1>1, <1>2, <1>5 DEF RowInv, RowsSoFar, n
  <1>9. ASSUME NEW v \in Workers, pc'[v] # "idle", NEW i \in 1 .. Len(m),
               m[i].run = job'[v].run
        PROVE  pc'[v] \notin {"upsert", "ask"} /\ m[i].role = "user"
    <2>1. /\ pc[v] # "idle" /\ job'[v].run = job[v].run
          /\ pc[v] \in {"upsert", "ask"} \/ pc'[v] \notin {"upsert", "ask"}
      BY <1>9 DEF Proceeds
    <2>2. CASE i \in 1 .. n
      BY <1>1, <1>9, <2>1, <2>2 DEF RowInv, RowsSoFar, n
    <2>3. CASE i = n + 1
      <3>1. v = w
        BY <1>1, <1>9, <2>1, <2>3 DEF RowInv, RunsDiffer
      <3>2. QED
        BY <1>1, <1>9, <2>3, <3>1
    <2>4. QED
      BY <1>2, <2>2, <2>3
  <1>10. RowsSoFar'
    BY <1>8, <1>9 DEF RowsSoFar, m
  <1>11. QED
    BY <1>3, <1>7, <1>10 DEF RowInv

\* One request proceeds and the others stay.
LEMMA OneProceeds ==
  ASSUME Inv, NEW w \in Workers, pc[w] # "idle", NEW step, Goto(w, step),
         \A v \in Workers \ {w}: job'[v] = job[v],
         step # "idle" => job'[w].run = job[w].run,
         pc[w] \in {"upsert", "ask"} \/ step \notin {"upsert", "ask"}
  PROVE  Proceeds /\ pc'[w] = step
  <1>1. /\ pc'[w] = step
        /\ \A v \in Workers \ {w}: pc'[v] = pc[v]
    BY TypesAre DEF Inv, Goto
  <1>2. QED
    BY <1>1 DEF Proceeds

LEMMA StepRows ==
  ASSUME Inv, RowInv, NEW w \in Workers, Step(w) \/ Lose(w)
  PROVE  RowInv'
  <1>1. /\ job \in [Workers -> Jobs] /\ messages \in Seq(Messages)
        /\ pc[w] # "idle" => job[w].run \in Runs
    BY TypesAre DEF Inv, Locals
  <1>2. CASE Ask(w)
    <2> DEFINE r == [role |-> "user", run |-> job[w].run, text |-> job[w].run]
    <2>1. r \in Messages /\ r.run = job[w].run /\ r.role = "user"
      BY <1>1, <1>2 DEF Messages, Ask
    <2>2. /\ messages' = Append(messages, r) /\ UNCHANGED <<runs, job>>
          /\ pc[w] = "ask" /\ Goto(w, "enter")
      BY <1>2 DEF Ask, Question, WithRow
    <2> HIDE DEF r
    <2>3. Proceeds /\ pc'[w] = "enter"
      BY <2>2, OneProceeds
    <2>4. QED
      BY <2>1, <2>2, <2>3, AddRow
  <1>3. CASE Record(w)
    <2> DEFINE text == ContentText(job[w].view)
               r == [role |-> "assistant", run |-> job[w].run, text |-> text]
    <2>1. /\ messages' = IF HasText(text) THEN Append(messages, r) ELSE messages
          /\ UNCHANGED runs /\ pc[w] = "record" /\ Goto(w, "idle")
          /\ job' = [job EXCEPT ![w] = NoJob]
      BY <1>3 DEF Record, WithRow
    <2>2. Proceeds /\ pc'[w] = "idle"
      BY <1>1, <2>1, OneProceeds
    <2>3. CASE HasText(text)
      <3>1. text \in Runs
        BY <2>3, ContentIsAsked DEF Inv, GoodStates
      <3>2. r \in Messages /\ r.run = job[w].run /\ r.role = "assistant"
        BY <1>1, <2>1, <3>1 DEF Messages
      <3> HIDE DEF r, text
      <3>3. QED
        BY <2>1, <2>2, <2>3, <3>2, AddRow
    <2>4. CASE ~HasText(text)
      BY <2>1, <2>2, <2>4, ProceedsRows
    <2>5. QED
      BY <2>3, <2>4
  <1>4. CASE Insert(w) \/ Interrupt(w)
    <2>1. /\ pc[w] \in {"upsert", "graph"} /\ UNCHANGED <<messages, runs, job>>
          /\ Goto(w, "ask") \/ Goto(w, "record")
          /\ pc[w] = "upsert" \/ Goto(w, "record")
      BY <1>4 DEF Insert, Interrupt, At
    <2>2. Proceeds
      BY <2>1, OneProceeds
    <2>3. QED
      BY <2>1, <2>2, ProceedsRows
  <1>5. CASE Lose(w)
    <2>1. /\ pc[w] # "idle" /\ UNCHANGED <<messages, runs>> /\ Goto(w, "idle")
          /\ job' = [job EXCEPT ![w] = NoJob]
      BY <1>5 DEF Lose
    <2>2. Proceeds
      BY <1>1, <2>1, OneProceeds
    <2>3. QED
      BY <2>1, <2>2, ProceedsRows
  <1>6. CASE Enter(w) \/ CallTool(w) \/ Reply(w) \/ ReturnTool(w) \/ Conclude(w)
    <2>1. PICK v : Save(w, v)
      BY <1>6 DEF Enter, CallTool, Reply, ReturnTool, Conclude
    <2>2. pc[w] \in {"enter", "graph"}
      BY <1>6 DEF Enter, CallTool, Reply, ReturnTool, Conclude, At
    <2>3. PICK step \in {"record", "graph"} : Goto(w, step)
      BY <2>1 DEF Save
    <2>4. job' = [job EXCEPT ![w].view = v] /\ UNCHANGED <<messages, runs>>
      BY <2>1 DEF Save
    <2>5. job'[w].run = job[w].run /\ \A u \in Workers \ {w}: job'[u] = job[u]
      BY <1>1, <2>4 DEF Jobs
    <2>6. Proceeds
      BY <2>2, <2>3, <2>5, OneProceeds
    <2>7. QED
      BY <2>4, <2>6, ProceedsRows
  <1>7. QED
    BY <1>2, <1>3, <1>4, <1>5, <1>6 DEF Step

LEMMA NextRows == Inv /\ RowInv /\ [Next]_vars => RowInv'
  <1> SUFFICES ASSUME Inv, RowInv, [Next]_vars PROVE RowInv'
    OBVIOUS
  <1>1. ASSUME NEW w \in Workers, Step(w) \/ Lose(w) PROVE RowInv'
    BY <1>1, StepRows
  <1>2. ASSUME NEW w \in Workers,
               \/ \E p \in Profiles: Receive(w, p)
               \/ \E r \in approvals: Approve(w, r)
        PROVE  RowInv'
    <2>1. job \in [Workers -> Jobs] /\ pc \in [Workers -> Steps]
      BY TypesAre DEF Inv
    <2>2. job'[w].run = runs + 1 /\ \A v \in Workers \ {w}: job'[v] = job[v]
      <3>1. ASSUME NEW p \in Profiles, Receive(w, p)
            PROVE  job'[w].run = runs + 1 /\ \A v \in Workers \ {w}: job'[v] = job[v]
        BY <2>1, <3>1 DEF Receive, NoJob
      <3>2. ASSUME NEW r \in approvals, Approve(w, r)
            PROVE  job'[w].run = runs + 1 /\ \A v \in Workers \ {w}: job'[v] = job[v]
        BY <2>1, <3>2 DEF Approve, NoJob
      <3>3. QED
        BY <1>2, <3>1, <3>2
    <2>3. /\ runs' = runs + 1 /\ UNCHANGED messages
          /\ \E step \in {"upsert", "enter"} : Goto(w, step)
      BY <1>2 DEF Receive, Approve
    <2>4. \A v \in Workers \ {w}: pc'[v] = pc[v]
      BY <2>1, <2>3 DEF Goto
    <2>5. QED
      BY <2>2, <2>3, <2>4, StartRows
  <1>3. CASE \/ \E r \in approvals: Reject(r)
             \/ \E w \in Workers, p \in Profiles: Open(w, p)
             \/ UNCHANGED vars
    <2>1. UNCHANGED <<messages, runs, pc, job>>
      BY <1>3 DEF Reject, Open, vars
    <2>2. QED
      BY <2>1, ProceedsRows DEF Proceeds
  <1>4. QED
    BY <1>1, <1>2, <1>3 DEF Next

(* A run of the graph stores at most one question and at most one answer,  *)
(* and the answer after the question: no resumption and no overlapping     *)
(* request adds a row for a run that is not its own.                       *)
THEOREM RunsStoreOnce == Spec => []RowsInOrder
  <1>1. Init => RowInv
    <2>1. Init => Len(messages) = 0
      BY DEF Init
    <2>2. QED
      BY <2>1 DEF Init, RowInv, RowsInOrder, RunsDiffer, RowsSoFar
  <1>2. Spec => []RowInv
    BY <1>1, InvHolds, NextRows, PTL DEF Spec
  <1>3. RowInv => RowsInOrder
    BY DEF RowInv
  <1>4. QED
    BY <1>2, <1>3, PTL

=============================================================================
