-------------------------------- MODULE Access --------------------------------
(* Who may do what: memberships and credentials as set-up leaves them,     *)
(* browser sessions, the threads and memories of a principal, and the      *)
(* rights a request works with from its admission to its end, also when    *)
(* a reviewer's request resumes the thread of another principal.           *)
(*                                                                         *)
(* Set-up scripts and requests of the server are processes that share the  *)
(* store of one organization; a step is one store call.  A row that is     *)
(* revoked or past its time never admits again and is left out, so that a  *)
(* principal's credentials are their number and a session is a slot.       *)
EXTENDS Naturals, FiniteSets

CONSTANTS
  Principals,  \* members of the organization
  Memberships, \* Memberships[p]: roles and scopes set-ups may give p
  Profiles,    \* capability profiles
  Needs,       \* Needs[f]: the scopes profile_authorize asks for profile f
  Threads,     \* thread ids
  Transfers,   \* slots for transfers that ask for approval
  Sessions,    \* slots for sessions that are neither over nor signed out
  Workers,     \* request threads of the HTTP server
  Setups,      \* runs of setup_local.py that may overlap
  Scenes,      \* who works together, what clients call, what goes wrong
  None         \* no row, no value

Grants == UNION {Memberships[p] : p \in Principals}

\* What requests of clients are about.
Calls == {"sessions", "threads", "memories", "messages", "decisions"}

ASSUME AccessAssumption ==
  /\ Memberships \in [Principals -> SUBSET [roles: SUBSET STRING,
                                            scopes: SUBSET STRING]]
  /\ Needs \in [Profiles -> SUBSET STRING]
  /\ Scenes \subseteq [crew: SUBSET (Setups \cup Workers), orderly: BOOLEAN,
                      calls: SUBSET Calls, slots: SUBSET Transfers,
                      faults: SUBSET {"stop", "loss"}]
  /\ IsFiniteSet(Setups)
  /\ None \notin Principals \cup Profiles \cup Threads \cup Transfers
  /\ None \notin Sessions \cup Grants

VARIABLES
  scene,       \* the processes of this behaviour; orderly: one set-up at a
               \* time; what clients call; the slots of transfers in use; and
               \* the faults: "stop" of a set-up, "loss" of a request
  member,      \* the membership row
  credentials, \* how many credentials of a principal are not revoked
  session,     \* the principal of a session
  thread,      \* the thread row
  rows,        \* <<thread, principal>> of message rows and memory rows
  approval,    \* approval[x]: who asks to approve transfer x, in which thread
  waiting,     \* waiting[t]: the transfer whose call thread t's graph waits in
  seeding,     \* seeding[u]: step and local variables of set-up u
  pc,          \* pc[w]: the next step of request w
  job,         \* job[w]: the local variables of request w; history: fresh, if
               \* it found no thread
  cut,         \* history: principals whose last set-up stopped half-way
  raced,       \* history: <<thread, principal>>, who found no such thread
               \* and then somebody else's
  lost         \* history: transfers whose resumption was lost

transfers == <<approval, waiting>>
store  == <<member, credentials, session, thread, rows, transfers>>
locals == <<pc, job>>
others == <<scene, seeding, cut, lost>>  \* what a request leaves alone
vars   == <<scene, store, seeding, locals, cut, raced, lost>>

NoThread   == [owner |-> None, profile |-> None]
NoApproval == [actor |-> None, thread |-> None, status |-> "none"]
AtRest     == [step |-> "idle", who |-> None]
NoJob      == [caller |-> None, who |-> None, grants |-> None,
               thread |-> None, profile |-> None, session |-> None,
               transfer |-> None, fresh |-> FALSE]

Statuses  == {"none", "pending", "rejected", "approved", "resumed"}
SeedSteps == {"idle", "list", "revoke", "create"}
Steps     == {"idle", "lookup", "upsert", "ask", "run", "open", "recall",
              "remember", "session", "signout", "decide",
              "membership", "thread", "resume"}

Optional(S) == S \cup {None}

(* Every variable keeps its type; however set-ups overlap, no principal     *)
(* has more credentials at once than set-ups can run at once.              *)
TypeOK ==
  /\ scene \in Scenes
  /\ member \in [Principals -> Optional(Grants)]
  /\ credentials \in [Principals -> 0 .. Cardinality(Setups)]
  /\ session \in [Sessions -> Optional(Principals)]
  /\ thread \in [Threads -> [owner: Principals, profile: Profiles]
                             \cup {NoThread}]
  /\ rows \subseteq Threads \X Principals
  /\ approval \in [Transfers -> [actor: Optional(Principals),
                                 thread: Optional(Threads),
                                 status: Statuses]]
  /\ waiting \in [Threads -> Optional(Transfers)]
  /\ seeding \in [Setups -> [step: SeedSteps, who: Optional(Principals)]]
  /\ pc \in [Workers -> Steps]
  /\ job \in [Workers -> [caller: Optional(Principals),
                          who: Optional(Principals),
                          grants: Optional(Grants),
                          thread: Optional(Threads),
                          profile: Optional(Profiles),
                          session: Optional(Sessions),
                          transfer: Optional(Transfers),
                          fresh: BOOLEAN]]
  /\ cut \subseteq Principals
  /\ raced \subseteq Threads \X Principals
  /\ lost \subseteq Transfers

\* A migrated store that nobody has set up.
Init ==
  /\ scene \in Scenes
  /\ member = [p \in Principals |-> None]
  /\ credentials = [p \in Principals |-> 0]
  /\ session = [s \in Sessions |-> None]
  /\ thread = [t \in Threads |-> NoThread]
  /\ rows = {}
  /\ approval = [x \in Transfers |-> NoApproval]
  /\ waiting = [t \in Threads |-> None]
  /\ seeding = [u \in Setups |-> AtRest]
  /\ pc = [w \in Workers |-> "idle"]
  /\ job = [w \in Workers |-> NoJob]
  /\ cut = {}
  /\ raced = {}
  /\ lost = {}

-----------------------------------------------------------------------------
(* Set-up: seed_principal for one principal.                               *)

SeedEnds(u) == seeding' = [seeding EXCEPT ![u] = AtRest]
SeedGoes(u, step) == seeding' = [seeding EXCEPT ![u].step = step]

\* principal_create and membership_create, which replaces roles and scopes.
SeedMember(u, p, m) ==
  /\ u \in scene.crew
  /\ seeding[u].step = "idle"
  /\ scene.orderly => \A v \in Setups: seeding[v].step = "idle"
  /\ member' = [member EXCEPT ![p] = m]
  /\ seeding' = [seeding EXCEPT ![u] = [step |-> "list", who |-> p]]
  /\ UNCHANGED <<scene, credentials, session, thread, rows, transfers, locals,
                 cut, raced, lost>>

\* Variant: the list of active credentials comes back empty.
NeverActive(p) == FALSE

\* credential_active_list has rows.
Active(p) == credentials[p] > 0

\* An active credential is retained unless set-up was asked to rotate.
SeedList(u, rotate) ==
  LET p == seeding[u].who
  IN  /\ seeding[u].step = "list"
      /\ \/ /\ Active(p) /\ ~rotate
            /\ cut' = cut \ {p}
            /\ SeedEnds(u)
         \/ Active(p) /\ rotate /\ SeedGoes(u, "revoke") /\ UNCHANGED cut
         \/ ~Active(p) /\ SeedGoes(u, "create") /\ UNCHANGED cut
      /\ UNCHANGED <<scene, store, locals, raced, lost>>

\* Variant: rotation ends with the revocation.
SeedRevokeOnly(u) ==
  /\ seeding[u].step = "revoke"
  /\ credentials' = [credentials EXCEPT ![seeding[u].who] = 0]
  /\ SeedEnds(u)
  /\ UNCHANGED <<scene, member, session, thread, rows, transfers, locals, cut,
                 raced, lost>>

\* credential_revoke_all, of whatever credentials there are by now.
SeedRevoke(u) ==
  /\ seeding[u].step = "revoke"
  /\ credentials' = [credentials EXCEPT ![seeding[u].who] = 0]
  /\ SeedGoes(u, "create")
  /\ UNCHANGED <<scene, member, session, thread, rows, transfers, locals, cut,
                 raced, lost>>

\* credential_create.
SeedCreate(u) ==
  /\ seeding[u].step = "create"
  /\ credentials' = [credentials EXCEPT ![seeding[u].who] = @ + 1]
  /\ cut' = cut \ {seeding[u].who}
  /\ SeedEnds(u)
  /\ UNCHANGED <<scene, member, session, thread, rows, transfers, locals,
                 raced, lost>>

\* The script is stopped between two store calls.
SeedStop(u) ==
  /\ "stop" \in scene.faults
  /\ seeding[u].step # "idle"
  /\ cut' = cut \cup {seeding[u].who}
  /\ SeedEnds(u)
  /\ UNCHANGED <<scene, store, locals, raced, lost>>

-----------------------------------------------------------------------------
(* Admission: the credential or session is looked up together with the     *)
(* membership, and the rights read are those of the request from then on.  *)

HasScope(g, scope) == scope \in g.scopes \/ "*" \in g.scopes
HasRole(g, role) == role \in g.roles \/ "admin" \in g.roles

\* profile_authorize.
Covers(g, f) == \A scope \in Needs[f]: HasScope(g, scope)

Goto(w, step) == pc' = [pc EXCEPT ![w] = step]
Ends(w) == Goto(w, "idle") /\ job' = [job EXCEPT ![w] = NoJob]

\* resolve_principal and resolve_session: the client shows a token of p, or
\* the cookie of session s.
Bearer(p) == credentials[p] > 0
Cookie(p, s) == session[s] = p
Known(p) == member[p] # None
Admitted(p) == Known(p) /\ (Bearer(p) \/ \E s \in Sessions: Cookie(p, s))

\* Request w of p for a call starts at a step, with what it reads and is given.
Starts(w, p, call, step, given) ==
  /\ w \in scene.crew /\ call \in scene.calls
  /\ pc[w] = "idle"
  /\ job' = [job EXCEPT ![w] = [given EXCEPT !.caller = p, !.who = p,
                                             !.grants = member[p]]]
  /\ Goto(w, step)
  /\ UNCHANGED <<store, raced, others>>

For(t, f) == [NoJob EXCEPT !.thread = t, !.profile = f]

Message(w, p, t, f) ==
  /\ Admitted(p) /\ HasScope(member[p], "agent:chat")
  /\ Starts(w, p, "messages", "lookup", For(t, f))

OpenThread(w, p, t, f) ==
  /\ Admitted(p) /\ Covers(member[p], f)
  /\ Starts(w, p, "threads", "open", For(t, f))

Remember(w, p, t) ==
  /\ Admitted(p) /\ HasScope(member[p], "memory:write")
  /\ Starts(w, p, "memories", "recall", For(t, None))

Decide(w, p, x) ==
  /\ Admitted(p) /\ HasScope(member[p], "circle:approval:decide")
  /\ approval[x].status # "none"
  /\ Starts(w, p, "decisions", "decide", [NoJob EXCEPT !.transfer = x])

\* POST /api/v1/sessions takes a credential only; s is a slot for the session.
SignIn(w, p, s) ==
  /\ Known(p) /\ Bearer(p)
  /\ session[s] = None /\ \A v \in Workers: job[v].session # s
  /\ Starts(w, p, "sessions", "session", [NoJob EXCEPT !.session = s])

\* The session of the cookie.  Who is admitted by a credential is not asked
\* for the secret of the cookie, nor whose session it is.
SignOut(w, p, s) ==
  /\ Known(p) /\ session[s] # None
  /\ Bearer(p) \/ Cookie(p, s)
  /\ Starts(w, p, "sessions", "signout", [NoJob EXCEPT !.session = s])

-----------------------------------------------------------------------------
(* Sessions.                                                               *)

\* session_create, whatever became of the credential in the meantime.
CreateSession(w) ==
  /\ pc[w] = "session"
  /\ session' = [session EXCEPT ![job[w].session] = job[w].caller]
  /\ Ends(w)
  /\ UNCHANGED <<member, credentials, thread, rows, transfers, raced, others>>

\* session_revoke.
RevokeSession(w) ==
  /\ pc[w] = "signout"
  /\ session' = [session EXCEPT ![job[w].session] = None]
  /\ Ends(w)
  /\ UNCHANGED <<member, credentials, thread, rows, transfers, raced, others>>

\* Variant: a session has no end.
NeverLapses(s) == FALSE /\ UNCHANGED vars

\* Eight hours have passed.
Lapse(s) ==
  /\ session[s] # None
  /\ session' = [session EXCEPT ![s] = None]
  /\ UNCHANGED <<member, credentials, thread, rows, transfers, locals, raced,
                 others>>

-----------------------------------------------------------------------------
(* Threads, messages and memories.                                         *)

\* Variant: any thread of the organization will do.
AnyThread(t, p) == TRUE

\* The thread's row names p.
OwnedBy(t, p) == thread[t].owner = p

\* message_run: the thread is looked up.  A thread that exists keeps its
\* profile, a new one takes the profile asked for, if the rights cover it.
Lookup(w) ==
  LET t == job[w].thread
  IN  /\ pc[w] = "lookup"
      /\ \/ /\ thread[t] # NoThread /\ OwnedBy(t, job[w].who)
            /\ job' = [job EXCEPT ![w].profile = thread[t].profile]
            /\ Goto(w, "upsert")
         \/ /\ thread[t] = NoThread
            /\ Covers(job[w].grants, job[w].profile)
            /\ job' = [job EXCEPT ![w].fresh = TRUE]
            /\ Goto(w, "upsert")
         \/ /\ thread[t] # NoThread /\ ~OwnedBy(t, job[w].who)
            /\ Ends(w)
         \/ /\ thread[t] = NoThread
            /\ ~Covers(job[w].grants, job[w].profile)
            /\ Ends(w)
      /\ UNCHANGED <<store, raced, others>>

\* thread_upsert: ON CONFLICT leaves owner and profile as they are.
Upserted(w) ==
  LET t == job[w].thread
  IN  IF thread[t] # NoThread THEN thread
      ELSE [thread EXCEPT ![t] = [owner |-> job[w].who,
                                  profile |-> job[w].profile]]

\* Somebody else made the thread after w found none.
Beaten(w) ==
  job[w].fresh /\ thread[job[w].thread].owner \notin {None, job[w].who}

Upsert(w) ==
  /\ pc[w] = "upsert"
  /\ thread' = Upserted(w)
  /\ raced' = raced \cup
       {pair \in {<<job[w].thread, job[w].who>>}: Beaten(w)}
  /\ job' = [job EXCEPT ![w].fresh = FALSE]
  /\ Goto(w, "ask")
  /\ UNCHANGED <<member, credentials, session, rows, transfers, others>>

\* POST /api/v1/threads.
Open(w) ==
  /\ pc[w] = "open"
  /\ thread' = Upserted(w)
  /\ Ends(w)
  /\ UNCHANGED <<member, credentials, session, rows, transfers, raced, others>>

\* message_add.
Ask(w) ==
  /\ pc[w] = "ask"
  /\ rows' = rows \cup {<<job[w].thread, job[w].who>>}
  /\ Goto(w, "run")
  /\ UNCHANGED <<member, credentials, session, thread, transfers, job, raced,
                 others>>

\* POST /api/v1/memories: the thread must exist and be the caller's.
Recall(w) ==
  LET t == job[w].thread
  IN  /\ pc[w] = "recall"
      /\ IF thread[t] # NoThread /\ OwnedBy(t, job[w].who)
         THEN Goto(w, "remember") /\ UNCHANGED job
         ELSE Ends(w)
      /\ UNCHANGED <<store, raced, others>>

AddMemory(w) ==
  /\ pc[w] = "remember"
  /\ rows' = rows \cup {<<job[w].thread, job[w].who>>}
  /\ Ends(w)
  /\ UNCHANGED <<member, credentials, session, thread, transfers, raced, others>>

-----------------------------------------------------------------------------
(* A transfer that needs approval, from its proposal to the resumption of  *)
(* its thread.                                                             *)

\* A slot for a transfer: never used, or used by one that is decided, that no
\* request names and no thread waits for, so that nothing will resume it.
Free(x) ==
  /\ x \in scene.slots
  /\ approval[x].status # "pending"
  /\ \A v \in Workers: job[v].transfer # x
  /\ \A t \in Threads: waiting[t] # x

\* The graph starts from the message, whatever call the thread waited in, and
\* runs to its end; or its tool, which asks for a scope of its own, proposes a
\* transfer and waits.
Run(w) ==
  LET t == job[w].thread
  IN  /\ pc[w] = "run"
      /\ \/ waiting' = [waiting EXCEPT ![t] = None] /\ UNCHANGED approval
         \/ \E x \in Transfers:
              /\ HasScope(job[w].grants, "circle:transfer:request")
              /\ Free(x)
              /\ approval' = [approval EXCEPT ![x] =
                     [actor |-> job[w].who, thread |-> t, status |-> "pending"]]
              /\ waiting' = [waiting EXCEPT ![t] = x]
      /\ Ends(w)
      /\ UNCHANGED <<member, credentials, session, thread, rows, raced, others>>

\* Variant: every decision ends the request.
DecisionEnds(status) == "idle"

\* What follows a verdict.
AfterVerdict(status) == IF status = "approved" THEN "membership" ELSE "idle"

\* approval_decide: reviewer_authorize by the rights of the request, then
\* the verdict on a request that is still pending.
Verdict(w, status) ==
  LET x == job[w].transfer
  IN  /\ pc[w] = "decide"
      /\ approval[x].status = "pending" /\ HasRole(job[w].grants, "reviewer")
      /\ approval' = [approval EXCEPT ![x].status = status]
      /\ Goto(w, AfterVerdict(status))
      /\ job' = [job EXCEPT ![w] = IF AfterVerdict(status) = "idle"
                                   THEN NoJob ELSE @]
      /\ UNCHANGED <<member, credentials, session, thread, rows, waiting, raced,
                     others>>

\* The reviewer may not decide, or somebody else has.
NoVerdict(w) ==
  /\ pc[w] = "decide"
  /\ \/ approval[job[w].transfer].status # "pending"
     \/ ~HasRole(job[w].grants, "reviewer")
  /\ Ends(w)
  /\ UNCHANGED <<store, raced, others>>

\* Variant: the resumption keeps the rights of the reviewer.
ReviewerGrants(w) == job[w].grants

\* principal_membership_get: the rights the requester has now.
RequesterGrants(w) == member[approval[job[w].transfer].actor]

\* From here on the request works as the requester.
BecomeRequester(w) ==
  /\ pc[w] = "membership"
  /\ job' = [job EXCEPT ![w].who = approval[job[w].transfer].actor,
                        ![w].grants = RequesterGrants(w)]
  /\ Goto(w, "thread")
  /\ UNCHANGED <<store, raced, others>>

\* thread_get and profile_authorize, for the requester.
AuthorizeThread(w) ==
  /\ pc[w] = "thread"
  /\ IF Covers(job[w].grants, thread[approval[job[w].transfer].thread].profile)
     THEN Goto(w, "resume") /\ UNCHANGED job
     ELSE Ends(w)
  /\ UNCHANGED <<store, raced, others>>

\* The call for transfer y carries it out: its tool asks for its scope again and
\* finds y approved.  (Pending still, it is handed the name of another transfer
\* and raises.)
CarriesOut(w, y) ==
  /\ HasScope(job[w].grants, "circle:transfer:request")
  /\ approval[y].status = "approved"

\* The graph is resumed: the call the thread waits in by now, if any, runs
\* again; it carries out its transfer, or returns or raises without.
Resume(w) ==
  LET t == approval[job[w].transfer].thread
  IN  /\ pc[w] = "resume"
      /\ \/ waiting[t] = None /\ UNCHANGED transfers
         \/ \E y \in Transfers:
              /\ waiting[t] = y
              /\ waiting' = [waiting EXCEPT ![t] = None]
              /\ IF CarriesOut(w, y)
                 THEN approval' = [approval EXCEPT ![y].status = "resumed"]
                 ELSE UNCHANGED approval
      /\ Ends(w)
      /\ UNCHANGED <<member, credentials, session, thread, rows, raced, others>>

\* An exception or the end of the process: the request is gone.
Lose(w) ==
  /\ "loss" \in scene.faults
  /\ pc[w] # "idle"
  /\ lost' = IF pc[w] \in {"membership", "thread", "resume"}
             THEN lost \cup {job[w].transfer} ELSE lost
  /\ Ends(w)
  /\ UNCHANGED <<scene, store, seeding, cut, raced>>

-----------------------------------------------------------------------------
Admission(w) == \E p \in Principals:
  \/ \E s \in Sessions: SignIn(w, p, s) \/ SignOut(w, p, s)
  \/ \E x \in Transfers: Decide(w, p, x)
  \/ \E t \in Threads:
       \/ Remember(w, p, t)
       \/ \E f \in Profiles: Message(w, p, t, f) \/ OpenThread(w, p, t, f)

Step(w) ==
  \/ CreateSession(w) \/ RevokeSession(w)
  \/ Lookup(w) \/ Upsert(w) \/ Open(w) \/ Ask(w) \/ Recall(w) \/ AddMemory(w) \/ Run(w)
  \/ Verdict(w, "approved") \/ Verdict(w, "rejected") \/ NoVerdict(w)
  \/ BecomeRequester(w) \/ AuthorizeThread(w) \/ Resume(w)

Seed(u) ==
  \/ \E p \in Principals: \E m \in Memberships[p]: SeedMember(u, p, m)
  \/ \E rotate \in BOOLEAN: SeedList(u, rotate)
  \/ SeedRevoke(u) \/ SeedCreate(u) \/ SeedStop(u)

Next ==
  \/ \E u \in Setups: Seed(u)
  \/ \E w \in Workers: Admission(w) \/ Step(w) \/ Lose(w)
  \/ \E s \in Sessions: Lapse(s)

Spec == Init /\ [][Next]_vars

\* A request that was accepted goes on, and time passes.
FairSpec ==
  /\ Spec
  /\ \A w \in Workers: WF_vars(Step(w))
  /\ \A s \in Sessions: WF_vars(Lapse(s))

-----------------------------------------------------------------------------
(* With set-ups one at a time a principal has at most one credential, also *)
(* after set-ups that were stopped between revocation and creation.        *)
OneCredential == scene.orderly => \A p \in Principals: credentials[p] <= 1

(* A principal whose last set-up ran to its end has a credential, also     *)
(* when rotations overlapped and revoked each other's.                     *)
SeededHasCredential ==
  \A p \in Principals:
    /\ member[p] # None /\ p \notin cut
    /\ \A u \in Setups: seeding[u].who # p
    => credentials[p] > 0

(* Message and memory rows of a thread are its owner's, although ownership *)
(* is checked in one transaction and the row written in another; but for   *)
(* who found no such thread and lost the race for making it.               *)
ThreadsAreOwned ==
  \A row \in rows: thread[row[1]].owner = row[2] \/ row \in raced

(* A request has only rights that set-up gave the very principal it works  *)
(* as, and one that resumes an approved transfer works for who asked for   *)
(* it: a reviewer's request takes nothing of its own over.                 *)
WorksInOwnRight ==
  \A w \in Workers:
    /\ pc[w] # "idle" => job[w].grants \in Memberships[job[w].who]
    /\ pc[w] \in {"thread", "resume"} =>
         /\ approval[job[w].transfer].actor = job[w].who
         /\ approval[job[w].transfer].status \in {"approved", "resumed"}

(* Rights that are taken away are gone once the requests that read them    *)
(* have ended: no session and no resumption by a reviewer keeps them.      *)
RightsFade ==
  \A p \in Principals: \A scope \in UNION {g.scopes : g \in Grants}:
    <>[](member[p] # None /\ ~HasScope(member[p], scope))
      => <>[](\A w \in Workers:
                job[w].who = p => ~HasScope(job[w].grants, scope))

(* A principal whose credentials were revoked for good is at last not      *)
(* admitted any more: sessions opened with them end, and so do requests.   *)
RevocationEnds ==
  \A p \in Principals:
    <>[](credentials[p] = 0)
      => <>[](/\ \A s \in Sessions: session[s] # p
              /\ \A w \in Workers: job[w].caller # p)

\* The requester of x has the rights that its resumption will ask for, and
\* until x is resumed its thread waits in the call of x.
Resumable(x) ==
  LET a == approval[x]
  IN  a.status # "none" =>
        /\ HasScope(member[a.actor], "circle:transfer:request")
        /\ Covers(member[a.actor], thread[a.thread].profile)
        /\ a.status \in {"pending", "approved"} => waiting[a.thread] = x

(* A transfer that was approved is resumed, if its requester keeps the     *)
(* rights it takes, the reviewer's request is not lost, and no further     *)
(* message to the thread and no other resumption ends the call it is to    *)
(* resume.                                                                 *)
ApprovedIsResumed ==
  \A x \in Transfers:
    [](Resumable(x) /\ x \notin lost)
      => (approval[x].status = "approved" ~> approval[x].status = "resumed")

=============================================================================
