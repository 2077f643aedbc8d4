---------------------------- MODULE Conversation ----------------------------
(* One thread of the agent: the thread row and its message rows in the     *)
(* store, and the LangGraph checkpoint that carries the conversation from  *)
(* one run of the graph to the next.  A run loads the latest checkpoint,   *)
(* works on a view of its own and saves that view after every node; the    *)
(* last checkpoint saved is the latest.  A step is one store call or one   *)
(* node of one request thread.  The state of the graph has two channels:   *)
(* messages and final, the text of the last turn that set it.              *)
(*                                                                         *)
(* A text is named by the run whose question it asks or answers.  Audit    *)
(* rows and the statuses of responses are left out.                        *)
EXTENDS Naturals, Sequences, SequencesExt

CONSTANTS
  Workers,  \* request threads of the HTTP server
  Profiles, \* capability profiles the principal may ask for
  MaxRuns,  \* bound: runs started, by messages and by approvals
  Bound,    \* the model has bind_tools: its own replies leave final alone
  None      \* no row, no text

ASSUME ConversationAssumption ==
  /\ MaxRuns \in Nat
  /\ Bound \in BOOLEAN
  /\ None \notin Profiles \cup Nat

VARIABLES
  patient,   \* clients wait for each answer before they ask again
  row,       \* profile column of the thread row
  messages,  \* thread_messages of the thread, in order
  saved,     \* the latest checkpoint
  approvals, \* runs whose tool call waits for a reviewer's decision
  runs,      \* runs started
  pc,        \* pc[w]: the next step of request w
  job        \* job[w]: the local variables of request w

vars == <<patient, row, messages, saved, approvals, runs, pc, job>>

Runs  == 1 .. MaxRuns
Texts == Runs \cup {None}
Steps == {"idle", "upsert", "ask", "enter", "graph", "record"}

\* CircleState: what a checkpoint holds.
Blank == [chat |-> <<>>, final |-> None]
NoJob == [run |-> None, profile |-> None, resumed |-> FALSE, view |-> Blank]

Entries == [kind: {"human", "call", "tool", "answer"}, run: Runs]
States  == [chat: Seq(Entries), final: Texts]

(* Every variable keeps its type; no message row is without a text.        *)
TypeOK ==
  /\ patient \in BOOLEAN
  /\ row \in Profiles \cup {None}
  /\ messages \in Seq([role: {"user", "assistant"}, run: Runs, text: Runs])
  /\ saved \in States
  /\ approvals \subseteq Runs
  /\ runs \in 0 .. MaxRuns
  /\ pc \in [Workers -> Steps]
  /\ job \in [Workers -> [run: Texts, profile: Profiles \cup {None},
                          resumed: BOOLEAN, view: States]]

Init ==
  /\ patient \in BOOLEAN
  /\ row = None
  /\ messages = <<>>
  /\ saved = Blank
  /\ approvals = {}
  /\ runs = 0
  /\ pc = [w \in Workers |-> "idle"]
  /\ job = [w \in Workers |-> NoJob]

-----------------------------------------------------------------------------
Goto(w, step) == pc' = [pc EXCEPT ![w] = step]
\* A request can start on w.
Free(w) ==
  /\ pc[w] = "idle"
  /\ patient => \A v \in Workers: pc[v] = "idle"

Entry(kind, run) == [kind |-> kind, run |-> run]

\* thread_upsert: ON CONFLICT leaves the stored profile.
Upsert(p) == IF row = None THEN p ELSE row

\* Variant: the profile the client asks for, on every message.
ProfileAsked(p) == p

\* The profile of a message: the stored one if thread_get finds the thread.
ProfileOf(p) == IF row = None THEN p ELSE row

\* POST /api/v1/threads.
Open(w, p) ==
  /\ Free(w)
  /\ row' = Upsert(p)
  /\ UNCHANGED <<patient, messages, saved, approvals, runs, pc, job>>

\* message_run: a message arrives and the thread is looked up.
Receive(w, p) ==
  /\ Free(w) /\ runs < MaxRuns
  /\ runs' = runs + 1
  /\ job' = [job EXCEPT ![w] = [NoJob EXCEPT !.run = runs + 1,
                                             !.profile = ProfileOf(p)]]
  /\ Goto(w, "upsert")
  /\ UNCHANGED <<patient, row, messages, saved, approvals>>

Insert(w) ==
  /\ pc[w] = "upsert"
  /\ row' = Upsert(job[w].profile)
  /\ Goto(w, "ask")
  /\ UNCHANGED <<patient, messages, saved, approvals, runs, job>>

\* message_add.
WithRow(role, run, text) ==
  Append(messages, [role |-> role, run |-> run, text |-> text])

\* Variant: no row for the question.
QuestionDropped(w) == messages

Question(w) == WithRow("user", job[w].run, job[w].run)

Ask(w) ==
  /\ pc[w] = "ask"
  /\ messages' = Question(w)
  /\ Goto(w, "enter")
  /\ UNCHANGED <<patient, row, saved, approvals, runs, job>>

\* approval_decide_and_resume: a decision is taken once.  A rejection stops
\* here; an approval makes a run of its own, with the stored profile.
Reject(r) ==
  /\ r \in approvals
  /\ approvals' = approvals \ {r}
  /\ UNCHANGED <<patient, row, messages, saved, runs, pc, job>>

Approve(w, r) ==
  /\ Free(w) /\ runs < MaxRuns
  /\ r \in approvals
  /\ approvals' = approvals \ {r}
  /\ runs' = runs + 1
  /\ job' = [job EXCEPT ![w] = [NoJob EXCEPT !.run = runs + 1,
                                             !.profile = row, !.resumed = TRUE]]
  /\ Goto(w, "enter")
  /\ UNCHANGED <<patient, row, messages, saved>>

-----------------------------------------------------------------------------
(* The graph.  The last entry of the chat says which node is next.         *)

Turn(v) == Last(v.chat)
Done(v) == Turn(v).kind = "answer"

\* Variant: a run starts from its message alone.
LoadedNothing(w) ==
  IF job[w].resumed THEN saved
  ELSE [Blank EXCEPT !.chat = <<Entry("human", job[w].run)>>]

\* What a run starts from: the latest checkpoint, with its message if it has
\* one.  Command(resume) continues whatever that checkpoint left unfinished.
Loaded(w) ==
  IF job[w].resumed THEN saved
  ELSE [saved EXCEPT !.chat = Append(@, Entry("human", job[w].run))]

\* The run saves its view; it leaves the graph when the turn is answered.
Save(w, v) ==
  /\ saved' = v
  /\ job' = [job EXCEPT ![w].view = v]
  /\ Goto(w, IF Done(v) THEN "record" ELSE "graph")
  /\ UNCHANGED <<patient, row, messages, runs>>

Enter(w) ==
  /\ pc[w] = "enter"
  /\ Save(w, Loaded(w))
  /\ UNCHANGED approvals

\* Variant: a node's output is added to the latest checkpoint.
ViewOfLatest(w) == saved

\* The state a node is given: the run's own.
View(w) == job[w].view

\* add_messages: the node's message goes to the end, for the turn it is in.
Extended(w, kind) ==
  [View(w) EXCEPT !.chat = Append(@, Entry(kind, Turn(job[w].view).run))]

\* Variant: a final text is set once.
WithFirstFinal(v) ==
  IF v.final = None THEN [v EXCEPT !.final = Turn(v).run] ELSE v

\* The last turn's text is the final one.
WithFinal(v) == [v EXCEPT !.final = Turn(v).run]

At(w, kinds) == pc[w] = "graph" /\ Turn(job[w].view).kind \in kinds

\* AssistantNode: the model calls a tool ...
CallTool(w) ==
  /\ At(w, {"human"})
  /\ Save(w, Extended(w, "call"))
  /\ UNCHANGED approvals

\* ... or replies.  Without bind_tools the reply is the final text as well.
Reply(w) ==
  /\ At(w, {"human"})
  /\ LET v == Extended(w, "answer")
     IN  Save(w, IF Bound THEN v ELSE WithFinal(v))
  /\ UNCHANGED approvals

\* ToolNode: the tool returns ...
ReturnTool(w) ==
  /\ At(w, {"call"})
  /\ Save(w, Extended(w, "tool"))
  /\ UNCHANGED approvals

\* ... or asks for approval, which interrupts the graph before its result is
\* saved.  A resumed run gives interrupt() its value instead.
Interrupt(w) ==
  /\ At(w, {"call"}) /\ ~job[w].resumed
  /\ approvals' = approvals \cup {Turn(job[w].view).run}
  /\ Goto(w, "record")
  /\ UNCHANGED <<patient, row, messages, saved, runs, job>>

\* AssistantNode after a tool: its result is the answer and the final text.
Conclude(w) ==
  /\ At(w, {"tool"})
  /\ Save(w, WithFinal(Extended(w, "answer")))
  /\ UNCHANGED approvals

-----------------------------------------------------------------------------
\* Where content_text, going backwards, meets an answer.
Answers(v) == {i \in DOMAIN v.chat: v.chat[i].kind = "answer"}

\* content_text: the final text, else the last answer, else none.
ContentText(v) ==
  IF v.final # None THEN v.final
  ELSE IF Answers(v) # {} THEN v.chat[Max(Answers(v))].run
  ELSE None

HasText(text) == text # None

\* The request ends: what content_text finds is added as the answer.
Record(w) ==
  /\ pc[w] = "record"
  /\ LET text == ContentText(job[w].view)
     IN  messages' = IF HasText(text)
                     THEN WithRow("assistant", job[w].run, text) ELSE messages
  /\ Goto(w, "idle")
  /\ job' = [job EXCEPT ![w] = NoJob]
  /\ UNCHANGED <<patient, row, saved, approvals, runs>>

\* The model, a tool or the store raises, or the process stops: the request
\* is lost and what it saved remains.
Lose(w) ==
  /\ pc[w] # "idle"
  /\ Goto(w, "idle")
  /\ job' = [job EXCEPT ![w] = NoJob]
  /\ UNCHANGED <<patient, row, messages, saved, approvals, runs>>

Step(w) ==
  \/ Insert(w) \/ Ask(w) \/ Enter(w) \/ CallTool(w) \/ Reply(w)
  \/ ReturnTool(w) \/ Interrupt(w) \/ Conclude(w) \/ Record(w)

Next ==
  \/ \E r \in approvals: Reject(r)
  \/ \E w \in Workers:
       \/ Step(w) \/ Lose(w)
       \/ \E p \in Profiles: Open(w, p) \/ Receive(w, p)
       \/ \E r \in approvals: Approve(w, r)

Spec == Init /\ [][Next]_vars

-----------------------------------------------------------------------------
(* A thread runs with the profile its row holds: with patient clients no   *)
(* run enters the graph of another profile.                                *)
OneProfile ==
  patient => \A w \in Workers:
    pc[w] \in {"ask", "enter", "graph", "record"} => job[w].profile = row

(* With patient clients the conversation only grows: a checkpoint continues *)
(* the one before it, so the model is shown every earlier turn, whatever   *)
(* was lost, interrupted or resumed on the way.                            *)
ConversationKept ==
  [][patient => IsPrefix(saved.chat, saved'.chat)]_<<patient, saved>>

(* A text stored as an answer answers a question that was stored before    *)
(* it, whichever runs overlapped, failed or resumed in between.            *)
AnsweredIsAsked ==
  \A i \in 1 .. Len(messages):
    messages[i].role = "assistant" =>
      \E j \in 1 .. i - 1: /\ messages[j].role = "user"
                           /\ messages[j].text = messages[i].text

(* Turns do not mix: in every checkpoint what follows a question is its    *)
(* own call, result or answer, in that order, until the next question.     *)
TurnsAreWhole ==
  \A i \in 1 .. Len(saved.chat):
    LET e == saved.chat[i]
    IN  e.kind # "human" =>
          /\ i > 1 /\ saved.chat[i - 1].run = e.run
          /\ <<saved.chat[i - 1].kind, e.kind>> \in
               {<<"human", "call">>, <<"human", "answer">>,
                <<"call", "tool">>, <<"tool", "answer">>}

(* A run that reached its answer stores that answer and not the final text *)
(* of an earlier turn, which its state still carries.                      *)
RepliesWithOwn ==
  \A w \in Workers:
    pc[w] = "record" /\ Done(job[w].view)
      => ContentText(job[w].view) = Turn(job[w].view).run

=============================================================================
