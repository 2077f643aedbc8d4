----------------------------- MODULE AccessProofs -----------------------------
(***************************************************************************)
(* Theorems about Access, for any principals, memberships, threads,        *)
(* set-ups and requests and every scene.                                   *)
(*                                                                         *)
(* Set-ups and requests write different variables, so the invariant has a  *)
(* part for each.  That overlapping set-ups cannot pile up credentials     *)
(* follows from counting those about to create one (Bounded); that the     *)
(* rows of a thread are its owner's, from what a request knows of the      *)
(* owner at each step (Local); that a resumption works for who asked, from *)
(* no slot being used again while a request names its transfer.            *)
(***************************************************************************)
EXTENDS Access, TLAPS, FiniteSetTheorems

-----------------------------------------------------------------------------
(* The invariant of the set-ups.                                           *)

seeded == <<scene, member, credentials, seeding, cut>>

SeedType ==
  /\ scene \in Scenes
  /\ member \in [Principals -> Optional(Grants)]
  /\ credentials \in [Principals -> Nat]
  /\ seeding \in [Setups -> [step: SeedSteps, who: Optional(Principals)]]
  /\ cut \subseteq Principals

SeedLocals ==
  \A u \in Setups:
    \/ seeding[u] = AtRest
    \/ seeding[u].step # "idle" /\ seeding[u].who \in Principals

\* The set-ups that are about to create a credential for p.
Creating(p) ==
  {u \in Setups: seeding[u].step = "create" /\ seeding[u].who = p}

\* Nobody comes to create while there is a credential, and each creates one.
Bounded ==
  \A p \in Principals:
    credentials[p] + Cardinality(Creating(p)) <= Cardinality(Setups)

OneSetup ==
  scene.orderly =>
    \A u, v \in Setups:
      seeding[u].step # "idle" /\ seeding[v].step # "idle" => u = v

NoneToCreate ==
  scene.orderly =>
    \A u \in Setups:
      seeding[u].step = "create" => credentials[seeding[u].who] = 0

SeedInv ==
  /\ SeedType /\ SeedLocals /\ Bounded
  /\ OneSetup /\ NoneToCreate /\ OneCredential
  /\ SeededHasCredential

LEMMA CreatingIsFinite ==
  ASSUME NEW p \in Principals
  PROVE  /\ IsFiniteSet(Creating(p)) /\ Cardinality(Creating(p)) \in Nat
         /\ Cardinality(Creating(p)) <= Cardinality(Setups)
         /\ Cardinality(Setups) \in Nat
  BY FS_Subset, FS_CardinalityType, AccessAssumption DEF Creating

LEMMA CreatingIsFiniteNext ==
  ASSUME NEW p \in Principals
  PROVE  /\ IsFiniteSet(Creating(p)') /\ Cardinality(Creating(p)') \in Nat
         /\ Cardinality(Creating(p)') <= Cardinality(Setups)
  BY FS_Subset, FS_CardinalityType, AccessAssumption DEF Creating

\* A principal none of whose credentials is left, or for whom no set-up came
\* to create one, stays within the bound.
LEMMA StaysBounded ==
  ASSUME SeedInv, NEW p \in Principals,
         \/ credentials'[p] = 0
         \/ credentials'[p] = credentials[p] /\ Creating(p)' \subseteq Creating(p)
  PROVE  credentials'[p] + Cardinality(Creating(p)') <= Cardinality(Setups)
  <1>1. credentials[p] \in Nat
    BY DEF SeedInv, SeedType
  <1>2. CASE credentials'[p] = 0
    BY <1>2, CreatingIsFiniteNext, CreatingIsFinite
  <1>3. CASE /\ credentials'[p] = credentials[p]
             /\ Creating(p)' \subseteq Creating(p)
    <2>1. Cardinality(Creating(p)') <= Cardinality(Creating(p))
      BY <1>3, CreatingIsFinite, FS_Subset
    <2>2. QED
      BY <1>1, <1>3, <2>1, CreatingIsFinite, CreatingIsFiniteNext
        DEF SeedInv, Bounded
  <1>4. QED
    BY <1>2, <1>3

\* Set-up u moves to step s for principal who.
LEMMA SeedMoves ==
  ASSUME SeedType, NEW u \in Setups, NEW x \in [step: SeedSteps,
         who: Optional(Principals)], seeding' = [seeding EXCEPT ![u] = x]
  PROVE  /\ seeding' \in [Setups -> [step: SeedSteps, who: Optional(Principals)]]
         /\ seeding'[u] = x
         /\ \A v \in Setups \ {u}: seeding'[v] = seeding[v]
  BY DEF SeedType

LEMMA AtRestIs ==
  /\ AtRest \in [step: SeedSteps, who: Optional(Principals)]
  /\ AtRest.step = "idle" /\ AtRest.who = None /\ None \notin Principals
  BY AccessAssumption DEF AtRest, SeedSteps, Optional

LEMMA SeedMemberInv ==
  ASSUME SeedInv, NEW u \in Setups, NEW p \in Principals,
         NEW m \in Memberships[p], SeedMember(u, p, m)
  PROVE  SeedInv'
  <1> DEFINE x == [step |-> "list", who |-> p]
  <1>1. x \in [step: SeedSteps, who: Optional(Principals)]
    BY DEF SeedSteps, Optional
  <1>2. SeedType /\ seeding' = [seeding EXCEPT ![u] = x]
    BY DEF SeedInv, SeedMember
  <1>3. x.step = "list" /\ x.who = p
    OBVIOUS
  <1> HIDE DEF x
  <1>4. /\ seeding' \in [Setups -> [step: SeedSteps, who: Optional(Principals)]]
        /\ seeding'[u] = x
        /\ \A v \in Setups \ {u}: seeding'[v] = seeding[v]
    BY <1>1, <1>2, SeedMoves
  <1>5. seeding[u].step = "idle" /\ seeding[u].who \notin Principals
    BY AtRestIs DEF SeedInv, SeedLocals, SeedMember
  <1>6. SeedType'
    <2>1. m \in Grants
      BY DEF Grants
    <2>2. QED
      BY <1>2, <1>4, <2>1 DEF SeedType, SeedMember, Optional
  <1>7. SeedLocals' /\ OneSetup' /\ NoneToCreate' /\ OneCredential'
    BY <1>3, <1>4
      DEF SeedInv, SeedLocals, OneSetup, NoneToCreate, OneCredential, SeedMember
  <1>8. Bounded'
    <2>1. \A q \in Principals: Creating(q)' \subseteq Creating(q)
      BY <1>3, <1>4 DEF Creating
    <2>2. QED
      BY <2>1, StaysBounded DEF Bounded, SeedMember
  <1>9. SeededHasCredential'
    <2>1. \A q \in Principals \ {p}: member'[q] = member[q]
      BY <1>2 DEF SeedType, SeedMember
    <2>2. QED
      BY <1>3, <1>4, <1>5, <2>1 DEF SeedInv, SeededHasCredential, SeedMember
  <1>10. QED
    BY <1>6, <1>7, <1>8, <1>9 DEF SeedInv

\* A set-up that ends, or goes on with the principal it works on.
LEMMA SeedGoesOn ==
  ASSUME SeedInv, NEW u \in Setups, NEW s \in {"revoke", "create"},
         seeding[u].step # "idle", SeedGoes(u, s)
  PROVE  /\ seeding' \in [Setups -> [step: SeedSteps, who: Optional(Principals)]]
         /\ seeding'[u].step = s /\ seeding'[u].who = seeding[u].who
         /\ \A v \in Setups \ {u}: seeding'[v] = seeding[v]
         /\ seeding[u].who \in Principals
         /\ SeedLocals'
  <1> DEFINE x == [seeding[u] EXCEPT !.step = s]
  <1>1. SeedType /\ seeding[u].who \in Principals
    BY AtRestIs DEF SeedInv, SeedLocals
  <1>2. /\ x \in [step: SeedSteps, who: Optional(Principals)]
        /\ x.step = s /\ x.who = seeding[u].who
    BY <1>1 DEF SeedType, SeedSteps
  <1>3. seeding' = [seeding EXCEPT ![u] = x]
    BY <1>1 DEF SeedType, SeedGoes
  <1> HIDE DEF x
  <1>4. /\ seeding' \in [Setups -> [step: SeedSteps, who: Optional(Principals)]]
        /\ seeding'[u] = x
        /\ \A v \in Setups \ {u}: seeding'[v] = seeding[v]
    BY <1>1, <1>2, <1>3, SeedMoves
  <1>5. SeedLocals'
    BY <1>1, <1>2, <1>4 DEF SeedInv, SeedLocals
  <1>6. QED
    BY <1>1, <1>2, <1>4, <1>5

LEMMA SeedIsOver ==
  ASSUME SeedInv, NEW u \in Setups, seeding[u].step # "idle", SeedEnds(u)
  PROVE  /\ seeding' \in [Setups -> [step: SeedSteps, who: Optional(Principals)]]
         /\ seeding'[u] = AtRest
         /\ \A v \in Setups \ {u}: seeding'[v] = seeding[v]
         /\ seeding[u].who \in Principals
         /\ SeedLocals'
  <1>1. SeedType /\ seeding[u].who \in Principals
    BY AtRestIs DEF SeedInv, SeedLocals
  <1>2. /\ seeding' \in [Setups -> [step: SeedSteps, who: Optional(Principals)]]
        /\ seeding'[u] = AtRest
        /\ \A v \in Setups \ {u}: seeding'[v] = seeding[v]
    BY <1>1, AtRestIs, SeedMoves DEF SeedEnds
  <1>3. SeedLocals'
    BY <1>2 DEF SeedInv, SeedLocals
  <1>4. QED
    BY <1>1, <1>2, <1>3

LEMMA SeedListInv ==
  ASSUME SeedInv, NEW u \in Setups, NEW rotate \in BOOLEAN, SeedList(u, rotate)
  PROVE  SeedInv'
  <1> DEFINE p == seeding[u].who
  <1>1. /\ UNCHANGED <<scene, member, credentials>> /\ SeedType
        /\ seeding[u].step = "list"
    BY DEF SeedList, store, SeedInv
  <1>2. CASE Active(p) /\ SeedEnds(u) /\ cut' = cut \ {p}
    <2>1. /\ seeding' \in [Setups -> [step: SeedSteps, who: Optional(Principals)]]
          /\ seeding'[u] = AtRest
          /\ \A v \in Setups \ {u}: seeding'[v] = seeding[v]
          /\ p \in Principals /\ SeedLocals'
      BY <1>1, <1>2, SeedIsOver
    <2>2. SeedType' /\ OneSetup' /\ NoneToCreate' /\ OneCredential'
      BY <1>1, <1>2, <2>1, AtRestIs
        DEF SeedInv, SeedType, OneSetup, NoneToCreate, OneCredential
    <2>3. Bounded'
      <3>1. \A q \in Principals: Creating(q)' \subseteq Creating(q)
        BY <2>1, AtRestIs DEF Creating
      <3>2. QED
        BY <1>1, <3>1, StaysBounded DEF Bounded
    <2>4. SeededHasCredential'
      BY <1>1, <1>2, <2>1 DEF SeedInv, SeededHasCredential, Active
    <2>5. QED
      BY <2>1, <2>2, <2>3, <2>4 DEF SeedInv
  <1>3. CASE SeedGoes(u, "revoke") /\ UNCHANGED cut
    <2>1. /\ seeding' \in [Setups -> [step: SeedSteps, who: Optional(Principals)]]
          /\ seeding'[u].step = "revoke" /\ seeding'[u].who = p
          /\ \A v \in Setups \ {u}: seeding'[v] = seeding[v]
          /\ p \in Principals /\ SeedLocals'
      BY <1>1, <1>3, SeedGoesOn
    <2>2. SeedType' /\ OneSetup' /\ NoneToCreate' /\ OneCredential'
      BY <1>1, <1>3, <2>1
        DEF SeedInv, SeedType, OneSetup, NoneToCreate, OneCredential
    <2>3. Bounded'
      <3>1. \A q \in Principals: Creating(q)' \subseteq Creating(q)
        BY <2>1 DEF Creating
      <3>2. QED
        BY <1>1, <3>1, StaysBounded DEF Bounded
    <2>4. SeededHasCredential'
      BY <1>1, <1>3, <2>1 DEF SeedInv, SeededHasCredential
    <2>5. QED
      BY <2>1, <2>2, <2>3, <2>4 DEF SeedInv
  <1>4. CASE ~Active(p) /\ SeedGoes(u, "create") /\ UNCHANGED cut
    <2>1. /\ seeding' \in [Setups -> [step: SeedSteps, who: Optional(Principals)]]
          /\ seeding'[u].step = "create" /\ seeding'[u].who = p
          /\ \A v \in Setups \ {u}: seeding'[v] = seeding[v]
          /\ p \in Principals /\ SeedLocals'
      BY <1>1, <1>4, SeedGoesOn
    <2>2. credentials[p] = 0
      BY <1>1, <1>4, <2>1 DEF Active, SeedType
    <2>3. SeedType' /\ OneSetup' /\ NoneToCreate' /\ OneCredential'
      BY <1>1, <1>4, <2>1, <2>2
        DEF SeedInv, SeedType, OneSetup, NoneToCreate, OneCredential
    <2>4. Bounded'
      <3>1. \A q \in Principals \ {p}: Creating(q)' \subseteq Creating(q)
        BY <2>1 DEF Creating
      <3>2. \A q \in Principals:
               \/ credentials'[q] = 0
               \/ /\ credentials'[q] = credentials[q]
                  /\ Creating(q)' \subseteq Creating(q)
        BY <1>1, <2>2, <3>1
      <3>3. QED
        BY <3>2, StaysBounded DEF Bounded
    <2>5. SeededHasCredential'
      BY <1>1, <1>4, <2>1 DEF SeedInv, SeededHasCredential
    <2>6. QED
      BY <2>1, <2>3, <2>4, <2>5 DEF SeedInv
  <1>5. QED
    BY <1>2, <1>3, <1>4 DEF SeedList

LEMMA SeedRevokeInv ==
  ASSUME SeedInv, NEW u \in Setups, SeedRevoke(u) PROVE SeedInv'
  <1> DEFINE p == seeding[u].who
  <1>1. /\ UNCHANGED <<scene, member, cut>> /\ SeedType
        /\ seeding[u].step = "revoke"
    BY DEF SeedRevoke, SeedInv
  <1>2. /\ seeding' \in [Setups -> [step: SeedSteps, who: Optional(Principals)]]
        /\ seeding'[u].step = "create" /\ seeding'[u].who = p
        /\ \A v \in Setups \ {u}: seeding'[v] = seeding[v]
        /\ p \in Principals /\ SeedLocals'
    BY <1>1, SeedGoesOn DEF SeedRevoke
  <1>3. /\ credentials' \in [Principals -> Nat] /\ credentials'[p] = 0
        /\ \A q \in Principals \ {p}: credentials'[q] = credentials[q]
    BY <1>1, <1>2 DEF SeedType, SeedRevoke
  <1>4. SeedType'
    BY <1>1, <1>2, <1>3 DEF SeedType
  <1>5. OneSetup' /\ OneCredential'
    BY <1>1, <1>2, <1>3 DEF SeedInv, OneSetup, OneCredential
  <1>6. NoneToCreate'
    <2> SUFFICES ASSUME scene.orderly, NEW v \in Setups,
                        seeding'[v].step = "create"
                 PROVE  credentials'[seeding'[v].who] = 0
      BY <1>1 DEF NoneToCreate
    <2>1. v = u
      BY <1>1, <1>2 DEF SeedInv, OneSetup
    <2>2. QED
      BY <1>2, <1>3, <2>1
  <1>7. Bounded'
    <2>1. \A q \in Principals \ {p}: Creating(q)' \subseteq Creating(q)
      BY <1>2 DEF Creating
    <2>2. \A q \in Principals:
             \/ credentials'[q] = 0
             \/ /\ credentials'[q] = credentials[q]
                /\ Creating(q)' \subseteq Creating(q)
      BY <1>3, <2>1
    <2>3. QED
      BY <2>2, StaysBounded DEF Bounded
  <1>8. SeededHasCredential'
    BY <1>1, <1>2, <1>3 DEF SeedInv, SeededHasCredential
  <1>9. QED
    BY <1>2, <1>4, <1>5, <1>6, <1>7, <1>8 DEF SeedInv

LEMMA SeedCreateInv ==
  ASSUME SeedInv, NEW u \in Setups, SeedCreate(u) PROVE SeedInv'
  <1> PICK p \in Principals: p = seeding[u].who
    BY AtRestIs DEF SeedInv, SeedLocals, SeedCreate
  <1>1. /\ UNCHANGED <<scene, member>> /\ SeedType /\ cut' = cut \ {p}
        /\ seeding[u].step = "create"
    BY DEF SeedCreate, SeedInv
  <1>2. /\ seeding' \in [Setups -> [step: SeedSteps, who: Optional(Principals)]]
        /\ seeding'[u] = AtRest
        /\ \A v \in Setups \ {u}: seeding'[v] = seeding[v]
        /\ p \in Principals /\ SeedLocals'
    BY <1>1, SeedIsOver DEF SeedCreate
  <1>3. /\ credentials' \in [Principals -> Nat]
        /\ credentials[p] \in Nat /\ credentials'[p] = credentials[p] + 1
        /\ \A q \in Principals \ {p}: credentials'[q] = credentials[q]
    BY <1>1, <1>2 DEF SeedType, SeedCreate
  <1>4. SeedType'
    BY <1>1, <1>2, <1>3 DEF SeedType
  <1>5. OneSetup' /\ OneCredential'
    BY <1>1, <1>2, <1>3, AtRestIs
      DEF SeedInv, OneSetup, OneCredential, NoneToCreate
  <1>6. NoneToCreate'
    BY <1>1, <1>2, AtRestIs DEF SeedInv, OneSetup, NoneToCreate
  <1>7. Bounded'
    <2>1. \A q \in Principals \ {p}: Creating(q)' \subseteq Creating(q)
      BY <1>2, AtRestIs DEF Creating
    <2>2. Creating(p)' = Creating(p) \ {u} /\ u \in Creating(p)
      BY <1>1, <1>2, AtRestIs DEF Creating
    <2>3. Cardinality(Creating(p)') = Cardinality(Creating(p)) - 1
      <3>1. IsFiniteSet(Creating(p))
        BY <1>2, CreatingIsFinite
      <3>2. Cardinality(Creating(p) \ {u}) = Cardinality(Creating(p)) - 1
        BY <2>2, <3>1, FS_RemoveElement
      <3>3. QED
        BY <2>2, <3>2
    <2>4. credentials'[p] + Cardinality(Creating(p)') <= Cardinality(Setups)
      BY <1>2, <1>3, <2>3, CreatingIsFinite DEF SeedInv, Bounded
    <2>5. \A q \in Principals \ {p}:
            credentials'[q] + Cardinality(Creating(q)') <= Cardinality(Setups)
      BY <1>3, <2>1, StaysBounded
    <2>6. QED
      BY <2>4, <2>5 DEF Bounded
  <1>8. SeededHasCredential'
    BY <1>1, <1>2, <1>3 DEF SeedInv, SeededHasCredential
  <1>9. QED
    BY <1>2, <1>4, <1>5, <1>6, <1>7, <1>8 DEF SeedInv

LEMMA SeedStopInv ==
  ASSUME SeedInv, NEW u \in Setups, SeedStop(u) PROVE SeedInv'
  <1> DEFINE p == seeding[u].who
  <1>1. /\ UNCHANGED <<scene, member, credentials>> /\ SeedType
        /\ cut' = cut \cup {p} /\ seeding[u].step # "idle"
    BY DEF SeedStop, SeedInv, store
  <1>2. /\ seeding' \in [Setups -> [step: SeedSteps, who: Optional(Principals)]]
        /\ seeding'[u] = AtRest
        /\ \A v \in Setups \ {u}: seeding'[v] = seeding[v]
        /\ p \in Principals /\ SeedLocals'
    BY <1>1, SeedIsOver DEF SeedStop
  <1>3. SeedType' /\ OneSetup' /\ NoneToCreate' /\ OneCredential'
    BY <1>1, <1>2, AtRestIs
      DEF SeedInv, SeedType, OneSetup, NoneToCreate, OneCredential
  <1>4. Bounded'
    <2>1. \A q \in Principals: Creating(q)' \subseteq Creating(q)
      BY <1>2, AtRestIs DEF Creating
    <2>2. QED
      BY <1>1, <2>1, StaysBounded DEF Bounded
  <1>5. SeededHasCredential'
    BY <1>1, <1>2 DEF SeedInv, SeededHasCredential
  <1>6. QED
    BY <1>2, <1>3, <1>4, <1>5 DEF SeedInv

LEMMA SeedQuiet == SeedInv /\ UNCHANGED seeded => SeedInv'
  BY DEF SeedInv, SeedType, SeedLocals, Bounded, Creating, OneSetup,
         NoneToCreate, OneCredential, SeededHasCredential, seeded

LEMMA SeedStep ==
  ASSUME SeedInv, NEW u \in Setups, Seed(u) PROVE SeedInv'
  BY SeedMemberInv, SeedListInv, SeedRevokeInv, SeedCreateInv, SeedStopInv
    DEF Seed

-----------------------------------------------------------------------------
(* The invariant of the requests.                                          *)

worked == <<scene, session, thread, rows, approval, waiting, pc, job, raced,
            lost>>

Jobs == [caller: Optional(Principals), who: Optional(Principals),
         grants: Optional(Grants), thread: Optional(Threads),
         profile: Optional(Profiles), session: Optional(Sessions),
         transfer: Optional(Transfers), fresh: BOOLEAN]
Asks == [actor: Optional(Principals), thread: Optional(Threads),
         status: Statuses]
Rows == [owner: Principals, profile: Profiles] \cup {NoThread}

WorkType ==
  /\ scene \in Scenes
  /\ session \in [Sessions -> Optional(Principals)]
  /\ thread \in [Threads -> Rows]
  /\ rows \subseteq Threads \X Principals
  /\ approval \in [Transfers -> Asks]
  /\ waiting \in [Threads -> Optional(Transfers)]
  /\ pc \in [Workers -> Steps]
  /\ job \in [Workers -> Jobs]
  /\ raced \subseteq Threads \X Principals
  /\ lost \subseteq Transfers

\* What a request knows at each step.
Local(w) ==
  LET t == job[w].thread
  IN  /\ pc[w] = "idle" => job[w] = NoJob
      /\ pc[w] # "idle" =>
           job[w].caller \in Principals /\ job[w].who \in Principals
      /\ pc[w] \in {"session", "signout"} => job[w].session \in Sessions
      /\ pc[w] \in {"lookup", "upsert", "open", "ask", "run", "recall",
                    "remember"} => t \in Threads
      /\ pc[w] \in {"lookup", "upsert", "open"} => job[w].profile \in Profiles
      /\ pc[w] \in {"decide", "membership", "thread", "resume"} =>
           /\ job[w].transfer \in Transfers
           /\ approval[job[w].transfer].status # "none"
      /\ pc[w] = "remember" => thread[t].owner = job[w].who
      /\ pc[w] = "upsert" => job[w].fresh \/ thread[t].owner = job[w].who
      /\ pc[w] \in {"ask", "run"} =>
           thread[t].owner = job[w].who \/ <<t, job[w].who>> \in raced

Locals == \A w \in Workers: Local(w)

\* A transfer that asks for approval has a requester.
Asked ==
  \A x \in Transfers:
    approval[x].status # "none" => approval[x].actor \in Principals

WorkInv == WorkType /\ Locals /\ Asked /\ ThreadsAreOwned

\* A step of request w leaves the other requests alone.
Only(w) == \A q \in Workers \ {w}: pc'[q] = pc[q] /\ job'[q] = job[q]

\* A step of w that keeps what the other requests know of the rows.
Keeps(w) ==
  /\ Only(w)
  /\ \A t \in Threads: thread[t] # NoThread => thread'[t] = thread[t]
  /\ raced \subseteq raced'
  /\ \A x \in Transfers:
       approval[x].status # "none" => approval'[x].status # "none"

LEMMA NoThreadIs ==
  /\ NoThread.owner = None /\ None \notin Principals
  /\ NoJob \in Jobs
  BY AccessAssumption DEF NoThread, NoJob, Jobs, Optional

\* A thread that has an owner keeps it.
LEMMA KeepsOwner ==
  ASSUME NEW w \in Workers, Keeps(w), NEW t \in Threads, NEW p \in Principals,
         thread[t].owner = p
  PROVE  thread'[t].owner = p
  BY NoThreadIs DEF Keeps

LEMMA KeepsLocals ==
  ASSUME WorkInv, NEW w \in Workers, Keeps(w), Local(w)' PROVE Locals'
  <1> SUFFICES ASSUME NEW q \in Workers \ {w} PROVE Local(q)'
    BY DEF Locals
  <1>1. Local(q) /\ pc'[q] = pc[q] /\ job'[q] = job[q]
    BY DEF WorkInv, Locals, Keeps, Only
  <1>2. pc[q] \in {"decide", "membership", "thread", "resume"} =>
          approval'[job[q].transfer].status # "none"
    BY <1>1 DEF Local, Keeps
  <1>3. ASSUME pc[q] \in {"remember", "upsert", "ask", "run"},
               thread[job[q].thread].owner = job[q].who
        PROVE  thread'[job[q].thread].owner = job[q].who
    <2> PICK t \in Threads, p \in Principals:
          t = job[q].thread /\ p = job[q].who
      BY <1>1, <1>3 DEF Local
    <2>1. QED
      BY <1>3, KeepsOwner
  <1>4. raced \subseteq raced'
    BY DEF Keeps
  <1>5. QED
    BY <1>1, <1>2, <1>3, <1>4 DEF Local

\* Rows that are there stay their owners', or of who lost the race.
LEMMA KeepsOwned ==
  ASSUME WorkInv, NEW w \in Workers, Keeps(w), NEW row \in rows
  PROVE  thread'[row[1]].owner = row[2] \/ row \in raced'
  <1>1. row[1] \in Threads /\ row[2] \in Principals
    BY DEF WorkInv, WorkType
  <1>2. thread[row[1]].owner = row[2] \/ row \in raced
    BY DEF WorkInv, ThreadsAreOwned
  <1>3. QED
    BY <1>1, <1>2, KeepsOwner DEF Keeps

LEMMA Moves ==
  ASSUME WorkType, NEW w \in Workers, NEW s \in Steps, NEW j \in Jobs,
         Goto(w, s), job' = [job EXCEPT ![w] = j]
  PROVE  /\ pc' \in [Workers -> Steps] /\ job' \in [Workers -> Jobs]
         /\ pc'[w] = s /\ job'[w] = j /\ Only(w)
  BY DEF WorkType, Goto, Only

LEMMA GoesOn ==
  ASSUME WorkType, NEW w \in Workers, NEW s \in Steps, Goto(w, s), job' = job
  PROVE  /\ pc' \in [Workers -> Steps] /\ job' \in [Workers -> Jobs]
         /\ pc'[w] = s /\ job'[w] = job[w] /\ Only(w)
  BY DEF WorkType, Goto, Only

LEMMA IsOver ==
  ASSUME WorkType, NEW w \in Workers, Ends(w)
  PROVE  /\ pc' \in [Workers -> Steps] /\ job' \in [Workers -> Jobs]
         /\ pc'[w] = "idle" /\ Only(w) /\ Local(w)'
  <1>1. "idle" \in Steps /\ NoJob \in Jobs
    BY NoThreadIs DEF Steps
  <1>2. /\ pc' \in [Workers -> Steps] /\ job' \in [Workers -> Jobs]
        /\ pc'[w] = "idle" /\ job'[w] = NoJob /\ Only(w)
    BY <1>1, Moves DEF Ends
  <1>3. QED
    BY <1>2 DEF Local

\* A step that leaves the rows alone.
LEMMA QuietStep ==
  ASSUME WorkInv, NEW w \in Workers,
         UNCHANGED <<scene, session, thread, rows, approval, waiting, raced>>,
         lost' \subseteq Transfers, pc' \in [Workers -> Steps],
         job' \in [Workers -> Jobs], Only(w), Local(w)'
  PROVE  WorkInv'
  <1>1. WorkType' /\ Asked' /\ ThreadsAreOwned'
    BY DEF WorkInv, WorkType, Asked, ThreadsAreOwned
  <1>2. Keeps(w)
    BY DEF Keeps
  <1>3. QED
    BY <1>1, <1>2, KeepsLocals DEF WorkInv

-----------------------------------------------------------------------------
(* Admission.                                                              *)

LEMMA ForIs ==
  ASSUME NEW t \in Threads, NEW f \in Optional(Profiles)
  PROVE  For(t, f) \in Jobs /\ For(t, f).thread = t /\ For(t, f).profile = f
  BY DEF For, NoJob, Jobs, Optional

\* What admission leaves of request w.
Begins(w, p, step, given) ==
  /\ pc' \in [Workers -> Steps] /\ job' \in [Workers -> Jobs]
  /\ pc'[w] = step /\ Only(w)
  /\ job'[w].caller = p /\ job'[w].who = p
  /\ job'[w].thread = given.thread
  /\ job'[w].profile = given.profile
  /\ job'[w].session = given.session
  /\ job'[w].transfer = given.transfer
  /\ UNCHANGED <<scene, session, thread, rows, approval, waiting, raced>>
  /\ lost' = lost /\ lost' \subseteq Transfers

LEMMA StartsMoves ==
  ASSUME SeedType, WorkInv, NEW w \in Workers, NEW p \in Principals, NEW call,
         NEW step \in Steps, NEW given \in Jobs, Starts(w, p, call, step, given)
  PROVE  Begins(w, p, step, given)
  <1> DEFINE j == [given EXCEPT !.caller = p, !.who = p, !.grants = member[p]]
  <1>1. WorkType /\ member[p] \in Optional(Grants)
    BY DEF WorkInv, SeedType
  <1>2. /\ j \in Jobs /\ j.caller = p /\ j.who = p
        /\ j.thread = given.thread /\ j.profile = given.profile
        /\ j.session = given.session /\ j.transfer = given.transfer
    BY <1>1 DEF Jobs, Optional
  <1>3. job' = [job EXCEPT ![w] = j] /\ Goto(w, step)
    BY DEF Starts
  <1> HIDE DEF j
  <1>4. /\ pc' \in [Workers -> Steps] /\ job' \in [Workers -> Jobs]
        /\ pc'[w] = step /\ job'[w] = j /\ Only(w)
    BY <1>1, <1>2, <1>3, Moves
  <1>5. QED
    BY <1>1, <1>2, <1>4 DEF Begins, Starts, store, transfers, others, WorkType

\* What a request is given that signs in or out.
Slot(s) == [NoJob EXCEPT !.session = s]

\* What a request is given that decides on transfer x.
On(x) == [NoJob EXCEPT !.transfer = x]

LEMMA SlotIs ==
  ASSUME NEW s \in Sessions PROVE Slot(s) \in Jobs /\ Slot(s).session = s
  <1>1. s \in Optional(Sessions) /\ NoJob \in Jobs
    BY NoThreadIs DEF Optional
  <1>2. QED
    BY <1>1 DEF Slot, Jobs

LEMMA OnIs ==
  ASSUME NEW x \in Transfers PROVE On(x) \in Jobs /\ On(x).transfer = x
  <1>1. x \in Optional(Transfers) /\ NoJob \in Jobs
    BY NoThreadIs DEF Optional
  <1>2. QED
    BY <1>1 DEF On, Jobs

LEMMA SignStarts ==
  ASSUME SeedType, WorkInv, NEW w \in Workers, NEW p \in Principals,
         NEW call, NEW s \in Sessions, NEW i \in {"session", "signout"},
         Starts(w, p, call, i, Slot(s))
  PROVE  WorkInv'
  <1>1. i \in Steps
    BY DEF Steps
  <1>2. Slot(s) \in Jobs /\ Slot(s).session = s
    BY SlotIs
  <1>3. Begins(w, p, i, Slot(s))
    BY <1>1, <1>2, StartsMoves
  <1>4. /\ pc' \in [Workers -> Steps] /\ job' \in [Workers -> Jobs]
        /\ pc'[w] = i /\ Only(w)
        /\ job'[w].caller = p /\ job'[w].who = p /\ job'[w].session = s
        /\ UNCHANGED <<scene, session, thread, rows, approval, waiting, raced>>
        /\ lost' \subseteq Transfers
    BY <1>2, <1>3 DEF Begins
  <1>5. Local(w)'
    BY <1>4 DEF Local
  <1>6. QED
    BY <1>4, <1>5, QuietStep

LEMMA DecideStarts ==
  ASSUME SeedType, WorkInv, NEW w \in Workers, NEW p \in Principals,
         NEW x \in Transfers, Decide(w, p, x)
  PROVE  WorkInv'
  <1>1. On(x) \in Jobs /\ On(x).transfer = x
    BY OnIs
  <1>2. /\ "decide" \in Steps
        /\ Starts(w, p, "decisions", "decide", On(x))
        /\ approval[x].status # "none"
    BY DEF Steps, On, Decide
  <1>3. Begins(w, p, "decide", On(x))
    BY <1>1, <1>2, StartsMoves
  <1>4. /\ pc' \in [Workers -> Steps] /\ job' \in [Workers -> Jobs]
        /\ pc'[w] = "decide" /\ Only(w)
        /\ job'[w].caller = p /\ job'[w].who = p /\ job'[w].transfer = x
        /\ UNCHANGED <<scene, session, thread, rows, approval, waiting, raced>>
        /\ lost' \subseteq Transfers
    BY <1>1, <1>3 DEF Begins
  <1>5. Local(w)'
    BY <1>2, <1>4 DEF Local
  <1>6. QED
    BY <1>4, <1>5, QuietStep

LEMMA ThreadStarts ==
  ASSUME SeedType, WorkInv, NEW w \in Workers, NEW p \in Principals, NEW call,
         NEW t \in Threads, NEW f \in Optional(Profiles),
         NEW i \in {"lookup", "open", "recall"},
         Starts(w, p, call, i, For(t, f)), i # "recall" => f \in Profiles
  PROVE  WorkInv'
  <1>1. i \in Steps
    BY DEF Steps
  <1>2. /\ For(t, f) \in Jobs /\ For(t, f).thread = t
        /\ For(t, f).profile = f
    BY ForIs
  <1>3. Begins(w, p, i, For(t, f))
    BY <1>1, <1>2, StartsMoves
  <1>4. /\ pc' \in [Workers -> Steps] /\ job' \in [Workers -> Jobs]
        /\ pc'[w] = i /\ Only(w)
        /\ job'[w].caller = p /\ job'[w].who = p /\ job'[w].thread = t
        /\ job'[w].profile = f
        /\ UNCHANGED <<scene, session, thread, rows, approval, waiting, raced>>
        /\ lost' \subseteq Transfers
    BY <1>2, <1>3 DEF Begins
  <1>5. Local(w)'
    BY <1>4 DEF Local
  <1>6. QED
    BY <1>4, <1>5, QuietStep

LEMMA AdmissionInv ==
  ASSUME SeedType, WorkInv, NEW w \in Workers, Admission(w) PROVE WorkInv'
  <1> PICK p \in Principals:
        \/ \E s \in Sessions: SignIn(w, p, s) \/ SignOut(w, p, s)
        \/ \E x \in Transfers: Decide(w, p, x)
        \/ \E t \in Threads:
             \/ Remember(w, p, t)
             \/ \E f \in Profiles: Message(w, p, t, f) \/ OpenThread(w, p, t, f)
    BY DEF Admission
  <1>1. ASSUME NEW s \in Sessions, SignIn(w, p, s) \/ SignOut(w, p, s)
        PROVE  WorkInv'
    <2>1. \/ Starts(w, p, "sessions", "session", Slot(s))
          \/ Starts(w, p, "sessions", "signout", Slot(s))
      BY <1>1 DEF SignIn, SignOut, Slot
    <2>2. QED
      BY <2>1, SignStarts
  <1>2. CASE \E x \in Transfers: Decide(w, p, x)
    BY <1>2, DecideStarts
  <1>3. ASSUME NEW t \in Threads, Remember(w, p, t) PROVE WorkInv'
    <2>1. Starts(w, p, "memories", "recall", For(t, None))
      BY <1>3 DEF Remember
    <2>2. QED
      BY <2>1, ThreadStarts DEF Optional
  <1>4. ASSUME NEW t \in Threads, NEW f \in Profiles,
               Message(w, p, t, f) \/ OpenThread(w, p, t, f)
        PROVE  WorkInv'
    <2>1. \/ Starts(w, p, "messages", "lookup", For(t, f))
          \/ Starts(w, p, "threads", "open", For(t, f))
      BY <1>4 DEF Message, OpenThread
    <2>2. QED
      BY <2>1, ThreadStarts DEF Optional
  <1>5. QED
    BY <1>1, <1>2, <1>3, <1>4

-----------------------------------------------------------------------------
(* Steps of a request that change no thread.                               *)

LEMMA SessionInv ==
  ASSUME WorkInv, NEW w \in Workers, CreateSession(w) \/ RevokeSession(w)
  PROVE  WorkInv'
  <1>1. /\ WorkType /\ Ends(w) /\ Local(w) /\ pc[w] \in {"session", "signout"}
        /\ UNCHANGED <<scene, thread, rows, approval, waiting, raced, lost>>
    BY DEF CreateSession, RevokeSession, others, transfers, WorkInv, Locals
  <1>2. /\ pc' \in [Workers -> Steps] /\ job' \in [Workers -> Jobs]
        /\ pc'[w] = "idle" /\ Only(w) /\ Local(w)'
    BY <1>1, IsOver
  <1>3. session' \in [Sessions -> Optional(Principals)]
    BY <1>1 DEF CreateSession, RevokeSession, WorkType, Local, Optional
  <1>4. WorkType' /\ Asked' /\ ThreadsAreOwned'
    BY <1>1, <1>2, <1>3 DEF WorkInv, WorkType, Asked, ThreadsAreOwned
  <1>5. Keeps(w)
    BY <1>1, <1>2 DEF Keeps
  <1>6. QED
    BY <1>2, <1>4, <1>5, KeepsLocals DEF WorkInv

LEMMA LapseInv == ASSUME WorkInv, NEW s \in Sessions, Lapse(s) PROVE WorkInv'
  <1> USE DEF Lapse, others, locals, transfers
  <1>1. WorkType'
    BY DEF WorkInv, WorkType, Optional
  <1>2. Locals' /\ Asked' /\ ThreadsAreOwned'
    BY DEF WorkInv, Locals, Local, Asked, ThreadsAreOwned
  <1>3. QED
    BY <1>1, <1>2 DEF WorkInv

LEMMA LoseInv == ASSUME WorkInv, NEW w \in Workers, Lose(w) PROVE WorkInv'
  <1>1. /\ WorkType /\ Local(w) /\ Ends(w)
        /\ UNCHANGED <<scene, session, thread, rows, approval, waiting, raced>>
    BY DEF Lose, store, transfers, WorkInv, Locals
  <1>2. lost' \subseteq Transfers
    BY <1>1 DEF Lose, WorkType, Local
  <1>3. /\ pc' \in [Workers -> Steps] /\ job' \in [Workers -> Jobs]
        /\ Only(w) /\ Local(w)'
    BY <1>1, IsOver
  <1>4. QED
    BY <1>1, <1>2, <1>3, QuietStep

\* A request that gives up.
LEMMA GiveUp ==
  ASSUME WorkInv, NEW w \in Workers, Ends(w), UNCHANGED <<store, raced, others>>
  PROVE  WorkInv'
  <1>1. /\ WorkType /\ lost' \subseteq Transfers
        /\ UNCHANGED <<scene, session, thread, rows, approval, waiting, raced>>
    BY DEF WorkInv, WorkType, store, transfers, others
  <1>2. QED
    BY <1>1, IsOver, QuietStep

LEMMA LookupInv == ASSUME WorkInv, NEW w \in Workers, Lookup(w) PROVE WorkInv'
  <1> PICK t \in Threads: t = job[w].thread
    BY DEF Lookup, WorkInv, Locals, Local
  <1>1. /\ WorkType /\ Local(w) /\ pc[w] = "lookup" /\ "upsert" \in Steps
        /\ lost' \subseteq Transfers /\ job[w] \in Jobs
        /\ UNCHANGED <<scene, session, thread, rows, approval, waiting, raced>>
    BY DEF Lookup, WorkInv, WorkType, Locals, store, transfers, others, Steps
  <1>2. CASE /\ thread[t] # NoThread /\ OwnedBy(t, job[w].who)
             /\ job' = [job EXCEPT ![w].profile = thread[t].profile]
             /\ Goto(w, "upsert")
    <2> DEFINE j == [job[w] EXCEPT !.profile = thread[t].profile]
    <2>1. thread[t].profile \in Profiles /\ thread[t].owner = job[w].who
      BY <1>1, <1>2 DEF WorkType, Rows, OwnedBy
    <2>2. /\ j \in Jobs /\ j.thread = t /\ j.profile \in Profiles
          /\ j.who = job[w].who /\ j.caller = job[w].caller
      BY <1>1, <2>1 DEF Jobs, Optional
    <2>3. job' = [job EXCEPT ![w] = j]
      BY <1>1, <1>2 DEF WorkType
    <2> HIDE DEF j
    <2>4. /\ pc' \in [Workers -> Steps] /\ job' \in [Workers -> Jobs]
          /\ pc'[w] = "upsert" /\ job'[w] = j /\ Only(w)
      BY <1>1, <1>2, <2>2, <2>3, Moves
    <2>5. Local(w)'
      BY <1>1, <2>1, <2>2, <2>4 DEF Local
    <2>6. QED
      BY <1>1, <2>4, <2>5, QuietStep
  <1>3. CASE job' = [job EXCEPT ![w].fresh = TRUE] /\ Goto(w, "upsert")
    <2> DEFINE j == [job[w] EXCEPT !.fresh = TRUE]
    <2>1. /\ j \in Jobs /\ j.thread = t /\ j.profile = job[w].profile /\ j.fresh
          /\ j.who = job[w].who /\ j.caller = job[w].caller
      BY <1>1 DEF Jobs
    <2>2. job' = [job EXCEPT ![w] = j]
      BY <1>1, <1>3 DEF WorkType
    <2> HIDE DEF j
    <2>3. /\ pc' \in [Workers -> Steps] /\ job' \in [Workers -> Jobs]
          /\ pc'[w] = "upsert" /\ job'[w] = j /\ Only(w)
      BY <1>1, <1>3, <2>1, <2>2, Moves
    <2>4. Local(w)'
      BY <1>1, <2>1, <2>3 DEF Local
    <2>5. QED
      BY <1>1, <2>3, <2>4, QuietStep
  <1>4. CASE Ends(w)
    BY <1>4, GiveUp DEF Lookup
  <1>5. QED
    BY <1>2, <1>3, <1>4 DEF Lookup

LEMMA RecallInv == ASSUME WorkInv, NEW w \in Workers, Recall(w) PROVE WorkInv'
  <1> PICK t \in Threads: t = job[w].thread
    BY DEF Recall, WorkInv, Locals, Local
  <1>1. /\ WorkType /\ Local(w) /\ pc[w] = "recall" /\ "remember" \in Steps
        /\ lost' \subseteq Transfers
        /\ UNCHANGED <<scene, session, thread, rows, approval, waiting, raced>>
    BY DEF Recall, WorkInv, WorkType, Locals, store, transfers, others, Steps
  <1>2. CASE OwnedBy(t, job[w].who) /\ Goto(w, "remember") /\ UNCHANGED job
    <2>1. /\ pc' \in [Workers -> Steps] /\ job' \in [Workers -> Jobs]
          /\ pc'[w] = "remember" /\ job'[w] = job[w] /\ Only(w)
      BY <1>1, <1>2, GoesOn
    <2>2. Local(w)'
      BY <1>1, <1>2, <2>1 DEF Local, OwnedBy
    <2>3. QED
      BY <1>1, <2>1, <2>2, QuietStep
  <1>3. CASE Ends(w)
    BY <1>3, GiveUp DEF Recall
  <1>4. QED
    BY <1>2, <1>3 DEF Recall

LEMMA NoVerdictInv ==
  ASSUME WorkInv, NEW w \in Workers, NoVerdict(w) PROVE WorkInv'
  BY GiveUp DEF NoVerdict

LEMMA BecomeRequesterInv ==
  ASSUME SeedType, WorkInv, NEW w \in Workers, BecomeRequester(w)
  PROVE  WorkInv'
  <1> PICK x \in Transfers: x = job[w].transfer
    BY DEF BecomeRequester, WorkInv, Locals, Local
  <1> DEFINE a == approval[x].actor
             j == [job[w] EXCEPT !.who = a, !.grants = member[a]]
  <1>1. /\ WorkType /\ Local(w) /\ pc[w] = "membership" /\ "thread" \in Steps
        /\ lost' \subseteq Transfers /\ job[w] \in Jobs /\ Goto(w, "thread")
        /\ UNCHANGED <<scene, session, thread, rows, approval, waiting, raced>>
    BY DEF BecomeRequester, WorkInv, WorkType, Locals, store, transfers, others,
           Steps
  <1>2. a \in Principals /\ member[a] \in Optional(Grants)
    BY <1>1 DEF Local, WorkInv, Asked, SeedType
  <1>3. j \in Jobs /\ j.transfer = x /\ j.who = a /\ j.caller = job[w].caller
    BY <1>1, <1>2 DEF Jobs, Optional
  <1>4. job' = [job EXCEPT ![w] = j]
    BY <1>1 DEF WorkType, BecomeRequester, RequesterGrants
  <1> HIDE DEF j
  <1>5. /\ pc' \in [Workers -> Steps] /\ job' \in [Workers -> Jobs]
        /\ pc'[w] = "thread" /\ job'[w] = j /\ Only(w)
    BY <1>1, <1>3, <1>4, Moves
  <1>6. Local(w)'
    BY <1>1, <1>2, <1>3, <1>5 DEF Local
  <1>7. QED
    BY <1>1, <1>5, <1>6, QuietStep

LEMMA AuthorizeThreadInv ==
  ASSUME WorkInv, NEW w \in Workers, AuthorizeThread(w) PROVE WorkInv'
  <1>1. /\ WorkType /\ Local(w) /\ pc[w] = "thread" /\ "resume" \in Steps
        /\ lost' \subseteq Transfers
        /\ UNCHANGED <<scene, session, thread, rows, approval, waiting, raced>>
    BY DEF AuthorizeThread, WorkInv, WorkType, Locals, store, transfers, others,
           Steps
  <1>2. CASE Goto(w, "resume") /\ UNCHANGED job
    <2>1. /\ pc' \in [Workers -> Steps] /\ job' \in [Workers -> Jobs]
          /\ pc'[w] = "resume" /\ job'[w] = job[w] /\ Only(w)
      BY <1>1, <1>2, GoesOn
    <2>2. Local(w)'
      BY <1>1, <2>1 DEF Local
    <2>3. QED
      BY <1>1, <2>1, <2>2, QuietStep
  <1>3. CASE Ends(w)
    BY <1>3, GiveUp DEF AuthorizeThread
  <1>4. QED
    BY <1>2, <1>3 DEF AuthorizeThread

-----------------------------------------------------------------------------
(* Steps on transfers.                                                     *)

\* A verdict on transfer x, or its resumption.
LEMMA NewStatus ==
  ASSUME WorkType, NEW x \in Transfers, NEW s \in Statuses,
         approval' = [approval EXCEPT ![x].status = s]
  PROVE  /\ approval' \in [Transfers -> Asks]
         /\ approval'[x].status = s /\ approval'[x].actor = approval[x].actor
         /\ \A y \in Transfers \ {x}: approval'[y] = approval[y]
  BY DEF WorkType, Asks

\* A step that writes approvals, and never takes a request for one away.
LEMMA ApprovalStep ==
  ASSUME WorkInv, NEW w \in Workers, NEW x \in Transfers,
         approval' \in [Transfers -> Asks],
         approval'[x].status # "none", approval'[x].actor \in Principals,
         \A y \in Transfers \ {x}: approval'[y] = approval[y],
         waiting' \in [Threads -> Optional(Transfers)],
         UNCHANGED <<scene, session, thread, rows, raced, lost>>,
         pc' \in [Workers -> Steps], job' \in [Workers -> Jobs],
         Only(w), Local(w)'
  PROVE  WorkInv'
  <1>1. WorkType' /\ Asked' /\ ThreadsAreOwned'
    BY DEF WorkInv, WorkType, Asked, ThreadsAreOwned
  <1>2. Keeps(w)
    BY DEF Keeps
  <1>3. QED
    BY <1>1, <1>2, KeepsLocals DEF WorkInv

\* A step by which a thread's call ends, and no more.
LEMMA CallEnds ==
  ASSUME WorkInv, NEW w \in Workers,
         waiting' \in [Threads -> Optional(Transfers)],
         UNCHANGED <<scene, session, thread, rows, approval, raced, lost>>,
         pc' \in [Workers -> Steps], job' \in [Workers -> Jobs],
         Only(w), Local(w)'
  PROVE  WorkInv'
  <1>1. WorkType' /\ Asked' /\ ThreadsAreOwned'
    BY DEF WorkInv, WorkType, Asked, ThreadsAreOwned
  <1>2. Keeps(w)
    BY DEF Keeps
  <1>3. QED
    BY <1>1, <1>2, KeepsLocals DEF WorkInv

LEMMA RunInv == ASSUME WorkInv, NEW w \in Workers, Run(w) PROVE WorkInv'
  <1> PICK t \in Threads, p \in Principals: t = job[w].thread /\ p = job[w].who
    BY DEF Run, WorkInv, Locals, Local
  <1>1. /\ WorkType /\ Ends(w)
        /\ UNCHANGED <<scene, session, thread, rows, raced, lost>>
    BY DEF Run, WorkInv, others
  <1>2. /\ pc' \in [Workers -> Steps] /\ job' \in [Workers -> Jobs]
        /\ Only(w) /\ Local(w)'
    BY <1>1, IsOver
  <1>3. CASE waiting' = [waiting EXCEPT ![t] = None] /\ UNCHANGED approval
    <2>1. waiting' \in [Threads -> Optional(Transfers)]
      BY <1>1, <1>3 DEF WorkType, Optional
    <2>2. QED
      BY <1>1, <1>2, <1>3, <2>1, CallEnds
  <1>4. ASSUME NEW x \in Transfers,
               approval' = [approval EXCEPT ![x] =
                  [actor |-> p, thread |-> t, status |-> "pending"]],
               waiting' = [waiting EXCEPT ![t] = x]
        PROVE  WorkInv'
    <2> DEFINE a == [actor |-> p, thread |-> t, status |-> "pending"]
    <2>1. a \in Asks /\ a.actor = p /\ a.status # "none"
      BY DEF Asks, Optional, Statuses
    <2>2. approval' = [approval EXCEPT ![x] = a]
      BY <1>4
    <2> HIDE DEF a
    <2>3. /\ approval' \in [Transfers -> Asks] /\ approval'[x] = a
          /\ \A y \in Transfers \ {x}: approval'[y] = approval[y]
      BY <1>1, <2>1, <2>2 DEF WorkType
    <2>4. waiting' \in [Threads -> Optional(Transfers)]
      BY <1>1, <1>4 DEF WorkType, Optional
    <2>5. QED
      BY <1>1, <1>2, <2>1, <2>3, <2>4, ApprovalStep
  <1>5. QED
    BY <1>3, <1>4 DEF Run

LEMMA VerdictInv ==
  ASSUME WorkInv, NEW w \in Workers, NEW status \in {"approved", "rejected"},
         Verdict(w, status)
  PROVE  WorkInv'
  <1> PICK x \in Transfers: x = job[w].transfer
    BY DEF Verdict, WorkInv, Locals, Local
  <1>1. /\ WorkType /\ Local(w) /\ pc[w] = "decide"
        /\ approval[x].status = "pending" /\ job[w] \in Jobs
        /\ UNCHANGED <<scene, session, thread, rows, waiting, raced, lost>>
        /\ status \in Statuses \ {"none"}
        /\ approval[x].actor \in Principals
        /\ waiting' \in [Threads -> Optional(Transfers)]
    BY DEF Verdict, WorkInv, WorkType, Locals, others, Statuses, Asked
  <1>2. /\ approval' \in [Transfers -> Asks] /\ approval'[x].status = status
        /\ approval'[x].actor \in Principals
        /\ \A y \in Transfers \ {x}: approval'[y] = approval[y]
    BY <1>1, NewStatus DEF Verdict
  <1>3. CASE status = "approved"
    <2>1. Goto(w, "membership") /\ job' = job /\ "membership" \in Steps
      BY <1>1, <1>3 DEF Verdict, AfterVerdict, WorkType, Steps
    <2>2. /\ pc' \in [Workers -> Steps] /\ job' \in [Workers -> Jobs]
          /\ pc'[w] = "membership" /\ job'[w] = job[w] /\ Only(w)
      BY <1>1, <2>1, GoesOn
    <2>3. Local(w)'
      BY <1>1, <1>2, <1>3, <2>2 DEF Local
    <2>4. QED
      BY <1>1, <1>2, <2>2, <2>3, ApprovalStep
  <1>4. CASE status = "rejected"
    <2>1. Ends(w)
      BY <1>4 DEF Verdict, AfterVerdict, Ends
    <2>2. /\ pc' \in [Workers -> Steps] /\ job' \in [Workers -> Jobs]
          /\ Only(w) /\ Local(w)'
      BY <1>1, <2>1, IsOver
    <2>3. QED
      BY <1>1, <1>2, <2>2, ApprovalStep
  <1>5. QED
    BY <1>3, <1>4

LEMMA ResumeInv == ASSUME WorkInv, NEW w \in Workers, Resume(w) PROVE WorkInv'
  <1>1. /\ WorkType /\ Ends(w)
        /\ UNCHANGED <<scene, session, thread, rows, raced, lost>>
    BY DEF Resume, WorkInv, others
  <1>2. /\ pc' \in [Workers -> Steps] /\ job' \in [Workers -> Jobs]
        /\ Only(w) /\ Local(w)'
    BY <1>1, IsOver
  <1>3. waiting' \in [Threads -> Optional(Transfers)]
    BY <1>1 DEF Resume, WorkType, Optional, transfers
  <1>4. CASE UNCHANGED approval
    BY <1>1, <1>2, <1>3, <1>4, CallEnds
  <1>5. ASSUME NEW y \in Transfers, approval[y].status = "approved",
               approval' = [approval EXCEPT ![y].status = "resumed"]
        PROVE  WorkInv'
    <2>1. "resumed" \in Statuses /\ approval[y].actor \in Principals
      BY <1>5 DEF Statuses, WorkInv, Asked
    <2>2. /\ approval' \in [Transfers -> Asks]
          /\ approval'[y].status = "resumed" /\ approval'[y].actor \in Principals
          /\ \A z \in Transfers \ {y}: approval'[z] = approval[z]
      BY <1>1, <1>5, <2>1, NewStatus
    <2>3. QED
      BY <1>1, <1>2, <1>3, <2>2, ApprovalStep
  <1>6. QED
    BY <1>4, <1>5 DEF Resume, CarriesOut, transfers

-----------------------------------------------------------------------------
(* Steps that make a thread or write its rows.                             *)

\* A request that may still make its thread.
Makes(w) == pc[w] \in {"lookup", "upsert", "open"}

\* What thread_upsert leaves: afterwards the thread has an owner.
LEMMA UpsertKeeps ==
  ASSUME WorkInv, NEW w \in Workers, Makes(w), thread' = Upserted(w)
  PROVE  /\ thread' \in [Threads -> Rows]
         /\ \A t \in Threads: thread[t] # NoThread => thread'[t] = thread[t]
         /\ \A t \in Threads \ {job[w].thread}: thread'[t] = thread[t]
         /\ thread[job[w].thread] = NoThread =>
              thread'[job[w].thread].owner = job[w].who
  <1> DEFINE row == [owner |-> job[w].who, profile |-> job[w].profile]
  <1> PICK t \in Threads: t = job[w].thread
    BY DEF WorkInv, Locals, Local, Makes
  <1>1. row \in Rows /\ row.owner = job[w].who
    BY DEF WorkInv, Locals, Local, Makes, Rows
  <1>2. thread \in [Threads -> Rows]
    BY DEF WorkInv, WorkType
  <1>3. CASE thread[t] # NoThread
    BY <1>2, <1>3 DEF Upserted
  <1>4. CASE thread[t] = NoThread
    <2>1. thread' = [thread EXCEPT ![t] = row]
      BY <1>4 DEF Upserted
    <2> HIDE DEF row
    <2>2. /\ thread' \in [Threads -> Rows] /\ thread'[t] = row
          /\ \A i \in Threads \ {t}: thread'[i] = thread[i]
      BY <1>1, <1>2, <2>1
    <2>3. QED
      BY <1>1, <1>4, <2>2
  <1>5. QED
    BY <1>3, <1>4

LEMMA UpsertInv == ASSUME WorkInv, NEW w \in Workers, Upsert(w) PROVE WorkInv'
  <1> PICK t \in Threads, p \in Principals: t = job[w].thread /\ p = job[w].who
    BY DEF Upsert, WorkInv, Locals, Local
  <1> DEFINE j == [job[w] EXCEPT !.fresh = FALSE]
  <1>1. /\ WorkType /\ Local(w) /\ pc[w] = "upsert" /\ "ask" \in Steps
        /\ UNCHANGED <<scene, session, rows, approval, waiting, lost>>
        /\ thread' = Upserted(w) /\ Goto(w, "ask") /\ Makes(w)
        /\ job[w] \in Jobs
    BY DEF Upsert, WorkInv, WorkType, Locals, others, transfers, Steps, Makes
  <1>2. /\ j \in Jobs /\ j.thread = t /\ j.who = p /\ j.caller = job[w].caller
    BY <1>1 DEF Jobs
  <1>3. job' = [job EXCEPT ![w] = j]
    BY <1>1 DEF Upsert, WorkType
  <1> HIDE DEF j
  <1>4. /\ pc' \in [Workers -> Steps] /\ job' \in [Workers -> Jobs]
        /\ pc'[w] = "ask" /\ job'[w] = j /\ Only(w)
    BY <1>1, <1>2, <1>3, Moves
  <1>5. /\ thread' \in [Threads -> Rows]
        /\ \A i \in Threads: thread[i] # NoThread => thread'[i] = thread[i]
        /\ thread[t] = NoThread => thread'[t].owner = p
    BY <1>1, UpsertKeeps
  <1>6. /\ raced \subseteq raced' /\ raced' \subseteq Threads \X Principals
        /\ Beaten(w) => <<t, p>> \in raced'
    BY <1>1 DEF Upsert, WorkType
  <1>7. thread'[t].owner = p \/ <<t, p>> \in raced'
    <2>1. CASE thread[t] = NoThread
      BY <1>5, <2>1
    <2>2. CASE thread[t] # NoThread
      <3>1. thread[t].owner # None
        BY <1>1, <2>2, NoThreadIs DEF WorkType, Rows
      <3>2. thread[t].owner = p \/ Beaten(w)
        BY <1>1, <3>1 DEF Local, Beaten
      <3>3. QED
        BY <1>5, <1>6, <2>2, <3>2
    <2>3. QED
      BY <2>1, <2>2
  <1>8. Local(w)'
    BY <1>1, <1>2, <1>4, <1>7 DEF Local
  <1>9. WorkType' /\ Asked'
    BY <1>1, <1>4, <1>5, <1>6 DEF WorkInv, WorkType, Asked
  <1>10. Keeps(w)
    BY <1>1, <1>4, <1>5, <1>6 DEF Keeps
  <1>11. ThreadsAreOwned'
    BY <1>1, <1>10, KeepsOwned DEF ThreadsAreOwned
  <1>12. QED
    BY <1>8, <1>9, <1>10, <1>11, KeepsLocals DEF WorkInv

LEMMA OpenInv == ASSUME WorkInv, NEW w \in Workers, Open(w) PROVE WorkInv'
  <1>1. /\ WorkType /\ Ends(w) /\ thread' = Upserted(w) /\ Makes(w)
        /\ UNCHANGED <<scene, session, rows, approval, waiting, raced, lost>>
    BY DEF Open, WorkInv, others, transfers, Makes
  <1>2. /\ pc' \in [Workers -> Steps] /\ job' \in [Workers -> Jobs]
        /\ Only(w) /\ Local(w)'
    BY <1>1, IsOver
  <1>3. /\ thread' \in [Threads -> Rows]
        /\ \A t \in Threads: thread[t] # NoThread => thread'[t] = thread[t]
    BY <1>1, UpsertKeeps
  <1>4. WorkType' /\ Asked'
    BY <1>1, <1>2, <1>3 DEF WorkInv, WorkType, Asked
  <1>5. Keeps(w)
    BY <1>1, <1>2, <1>3 DEF Keeps
  <1>6. ThreadsAreOwned'
    BY <1>1, <1>5, KeepsOwned DEF ThreadsAreOwned
  <1>7. QED
    BY <1>2, <1>4, <1>5, <1>6, KeepsLocals DEF WorkInv

\* A row written for the owner of its thread, or for who lost the race.
LEMMA RowStep ==
  ASSUME WorkInv, NEW w \in Workers, NEW t \in Threads, NEW p \in Principals,
         rows' = rows \cup {<<t, p>>},
         thread[t].owner = p \/ <<t, p>> \in raced,
         UNCHANGED <<scene, session, thread, approval, waiting, raced, lost>>,
         pc' \in [Workers -> Steps], job' \in [Workers -> Jobs],
         Only(w), Local(w)'
  PROVE  WorkInv'
  <1>1. rows' \subseteq Threads \X Principals
    BY DEF WorkInv, WorkType
  <1>2. WorkType' /\ Asked'
    BY <1>1 DEF WorkInv, WorkType, Asked
  <1>3. ThreadsAreOwned'
    BY DEF WorkInv, ThreadsAreOwned
  <1>4. Keeps(w)
    BY DEF Keeps
  <1>5. QED
    BY <1>2, <1>3, <1>4, KeepsLocals DEF WorkInv

LEMMA AskInv == ASSUME WorkInv, NEW w \in Workers, Ask(w) PROVE WorkInv'
  <1> PICK t \in Threads, p \in Principals:
        t = job[w].thread /\ p = job[w].who
    BY DEF Ask, WorkInv, Locals, Local
  <1>1. /\ WorkType /\ Local(w) /\ pc[w] = "ask" /\ "run" \in Steps
        /\ UNCHANGED <<scene, session, thread, approval, waiting, job, raced,
                       lost>>
        /\ Goto(w, "run")
    BY DEF Ask, WorkInv, Locals, others, transfers, Steps
  <1>2. /\ pc' \in [Workers -> Steps] /\ job' \in [Workers -> Jobs]
        /\ pc'[w] = "run" /\ job'[w] = job[w] /\ Only(w)
    BY <1>1, GoesOn
  <1>3. Local(w)' /\ (thread[t].owner = p \/ <<t, p>> \in raced)
    BY <1>1, <1>2 DEF Local
  <1>4. rows' = rows \cup {<<t, p>>}
    BY DEF Ask
  <1>5. QED
    BY <1>1, <1>2, <1>3, <1>4, RowStep

LEMMA AddMemoryInv ==
  ASSUME WorkInv, NEW w \in Workers, AddMemory(w) PROVE WorkInv'
  <1> PICK t \in Threads, p \in Principals:
        t = job[w].thread /\ p = job[w].who
    BY DEF AddMemory, WorkInv, Locals, Local
  <1>1. /\ WorkType /\ Local(w) /\ Ends(w) /\ thread[t].owner = p
        /\ UNCHANGED <<scene, session, thread, approval, waiting, raced, lost>>
    BY DEF AddMemory, WorkInv, Locals, Local, others, transfers
  <1>2. /\ pc' \in [Workers -> Steps] /\ job' \in [Workers -> Jobs]
        /\ Only(w) /\ Local(w)'
    BY <1>1, IsOver
  <1>3. rows' = rows \cup {<<t, p>>}
    BY DEF AddMemory
  <1>4. QED
    BY <1>1, <1>2, <1>3, RowStep

-----------------------------------------------------------------------------
(* The theorems.                                                           *)

Inv == SeedInv /\ WorkInv

LEMMA InitInv == Init => Inv
  <1> SUFFICES ASSUME Init PROVE Inv
    OBVIOUS
  <1> USE DEF Init
  <1>1. SeedType /\ SeedLocals /\ OneSetup /\ NoneToCreate /\ OneCredential
    BY AtRestIs DEF SeedType, SeedLocals, OneSetup, NoneToCreate,
                    OneCredential, Optional
  <1>2. Bounded
    BY CreatingIsFinite DEF Bounded
  <1>3. SeededHasCredential
    BY DEF SeededHasCredential
  <1>4. WorkType
    BY NoThreadIs
      DEF WorkType, Optional, Rows, Asks, NoApproval, Statuses, Steps
  <1>5. Locals /\ Asked /\ ThreadsAreOwned
    BY DEF Locals, Local, Asked, NoApproval, ThreadsAreOwned
  <1>6. QED
    BY <1>1, <1>2, <1>3, <1>4, <1>5 DEF Inv, SeedInv, WorkInv

LEMMA WorkQuiet == WorkInv /\ UNCHANGED worked => WorkInv'
  <1> SUFFICES ASSUME WorkInv, UNCHANGED worked PROVE WorkInv'
    OBVIOUS
  <1> USE DEF worked
  <1>1. WorkType' /\ Asked' /\ ThreadsAreOwned'
    BY DEF WorkInv, WorkType, Asked, ThreadsAreOwned
  <1>2. Locals'
    BY DEF WorkInv, Locals, Local
  <1>3. QED
    BY <1>1, <1>2 DEF WorkInv

LEMMA SetupLeaves ==
  ASSUME NEW u \in Setups, Seed(u) PROVE UNCHANGED worked
  <1> USE DEF store, transfers, locals, worked
  <1>1. CASE \E p \in Principals: \E m \in Memberships[p]: SeedMember(u, p, m)
    BY <1>1 DEF SeedMember
  <1>2. CASE \E rotate \in BOOLEAN: SeedList(u, rotate)
    BY <1>2 DEF SeedList
  <1>3. CASE SeedRevoke(u) \/ SeedCreate(u) \/ SeedStop(u)
    BY <1>3 DEF SeedRevoke, SeedCreate, SeedStop
  <1>4. QED
    BY <1>1, <1>2, <1>3 DEF Seed

LEMMA RequestLeaves ==
  ASSUME NEW w \in Workers, Admission(w) \/ Step(w) \/ Lose(w)
  PROVE  UNCHANGED seeded
  <1> USE DEF store, others, seeded
  <1>1. CASE Admission(w)
    <2> PICK p \in Principals:
          \/ \E s \in Sessions: SignIn(w, p, s) \/ SignOut(w, p, s)
          \/ \E x \in Transfers: Decide(w, p, x)
          \/ \E t \in Threads:
               \/ Remember(w, p, t)
               \/ \E f \in Profiles:
                    Message(w, p, t, f) \/ OpenThread(w, p, t, f)
      BY <1>1 DEF Admission
    <2>1. ASSUME NEW s \in Sessions, SignIn(w, p, s) \/ SignOut(w, p, s)
          PROVE  UNCHANGED seeded
      BY <2>1 DEF SignIn, SignOut, Starts
    <2>2. ASSUME NEW x \in Transfers, Decide(w, p, x) PROVE UNCHANGED seeded
      BY <2>2 DEF Decide, Starts
    <2>3. ASSUME NEW t \in Threads, Remember(w, p, t) PROVE UNCHANGED seeded
      BY <2>3 DEF Remember, Starts
    <2>4. ASSUME NEW t \in Threads, NEW f \in Profiles,
                 Message(w, p, t, f) \/ OpenThread(w, p, t, f)
          PROVE  UNCHANGED seeded
      BY <2>4 DEF Message, OpenThread, Starts
    <2>5. QED
      BY <2>1, <2>2, <2>3, <2>4
  <1>2. CASE Lose(w)
    BY <1>2 DEF Lose
  <1>3. CASE Step(w)
    <2>1. CASE \/ CreateSession(w) \/ RevokeSession(w) \/ Lookup(w) \/ Upsert(w)
               \/ Open(w) \/ Ask(w) \/ Recall(w) \/ AddMemory(w)
      BY <2>1 DEF CreateSession, RevokeSession, Lookup, Upsert, Open, Ask,
                  Recall, AddMemory
    <2>2. CASE \/ Run(w) \/ Verdict(w, "approved") \/ Verdict(w, "rejected")
               \/ NoVerdict(w) \/ BecomeRequester(w) \/ AuthorizeThread(w)
               \/ Resume(w)
      BY <2>2 DEF Run, Verdict, NoVerdict, BecomeRequester, AuthorizeThread,
                  Resume
    <2>3. QED
      BY <1>3, <2>1, <2>2 DEF Step
  <1>4. QED
    BY <1>1, <1>2, <1>3

LEMMA StepInv ==
  ASSUME SeedType, WorkInv, NEW w \in Workers, Step(w) PROVE WorkInv'
  BY SessionInv, LookupInv, UpsertInv, OpenInv, AskInv, RecallInv,
     AddMemoryInv, RunInv, VerdictInv, NoVerdictInv, BecomeRequesterInv,
     AuthorizeThreadInv, ResumeInv DEF Step

LEMMA NextInv == Inv /\ [Next]_vars => Inv'
  <1> SUFFICES ASSUME Inv, [Next]_vars PROVE Inv'
    OBVIOUS
  <1>1. CASE \E u \in Setups: Seed(u)
    BY <1>1, SeedStep, SetupLeaves, WorkQuiet DEF Inv
  <1>2. CASE \E w \in Workers: Admission(w) \/ Step(w) \/ Lose(w)
    BY <1>2, AdmissionInv, StepInv, LoseInv, RequestLeaves, SeedQuiet
      DEF Inv, SeedInv
  <1>3. CASE \E s \in Sessions: Lapse(s)
    <2>1. UNCHANGED seeded
      BY <1>3 DEF Lapse, others, seeded
    <2>2. QED
      BY <1>3, <2>1, LapseInv, SeedQuiet DEF Inv
  <1>4. CASE UNCHANGED vars
    <2>1. UNCHANGED seeded /\ UNCHANGED worked
      BY <1>4 DEF vars, store, transfers, locals, seeded, worked
    <2>2. QED
      BY <2>1, SeedQuiet, WorkQuiet DEF Inv
  <1>5. QED
    BY <1>1, <1>2, <1>3, <1>4 DEF Next

\* What set-ups and requests rely on always holds.
THEOREM InvHolds == Spec => []Inv
  BY InitInv, NextInv, PTL DEF Spec

\* Types are kept, and overlapping set-ups leave a principal no more
\* credentials than set-ups can overlap (setup_local.py, seed_principal).
THEOREM TypeCorrect == Spec => []TypeOK
  <1>1. Inv => TypeOK
    <2> SUFFICES ASSUME Inv PROVE TypeOK
      OBVIOUS
    <2>1. credentials \in [Principals -> 0 .. Cardinality(Setups)]
      <3> SUFFICES ASSUME NEW p \in Principals
                   PROVE  credentials[p] \in 0 .. Cardinality(Setups)
        BY DEF Inv, SeedInv, SeedType
      <3>1. credentials[p] \in Nat
        BY DEF Inv, SeedInv, SeedType
      <3>2. credentials[p] + Cardinality(Creating(p)) <= Cardinality(Setups)
        BY DEF Inv, SeedInv, Bounded
      <3>3. QED
        BY <3>1, <3>2, CreatingIsFinite
    <2>2. QED
      BY <2>1 DEF Inv, SeedInv, SeedType, WorkInv, WorkType, TypeOK, Jobs, Asks,
                 Rows
  <1>2. QED
    BY <1>1, InvHolds, PTL

\* One set-up at a time leaves at most one credential.
THEOREM CredentialsAreSingle == Spec => []OneCredential
  <1>1. Inv => OneCredential
    BY DEF Inv, SeedInv
  <1>2. QED
    BY <1>1, InvHolds, PTL

\* However set-ups overlap, who was set up to the end can sign in.
THEOREM SeededCanSignIn == Spec => []SeededHasCredential
  <1>1. Inv => SeededHasCredential
    BY DEF Inv, SeedInv
  <1>2. QED
    BY <1>1, InvHolds, PTL

\* Message and memory rows are of the owner of their thread or of somebody who
\* lost the race for making it, whatever requests overlap (message_run).
THEOREM RowsAreTheOwners == Spec => []ThreadsAreOwned
  <1>1. Inv => ThreadsAreOwned
    BY DEF Inv, WorkInv
  <1>2. QED
    BY <1>1, InvHolds, PTL

-----------------------------------------------------------------------------
(* Threads that one request at a time may make.                            *)

\* No two requests may still make one thread.
OneMaker ==
  \A v, w \in Workers:
    /\ Makes(v) /\ Makes(w) /\ job[v].thread = job[w].thread
    /\ thread[job[w].thread] = NoThread
    => v = w

RowsOwned == \A row \in rows: thread[row[1]].owner = row[2]

\* What a request then knows of the owner.
Owner(w) ==
  LET t == job[w].thread
  IN  /\ pc[w] = "upsert" =>
           thread[t] = NoThread \/ thread[t].owner = job[w].who
      /\ pc[w] \in {"ask", "run"} => thread[t].owner = job[w].who

OwnedInv == RowsOwned /\ \A w \in Workers: Owner(w)

\* A step by which w makes no thread that another request may still make.
LEMMA OwnedStep ==
  ASSUME WorkInv, OwnedInv, NEW w \in Workers, Only(w),
         \A t \in Threads: thread[t] # NoThread => thread'[t] = thread[t],
         \A q \in Workers \ {w}: pc[q] = "upsert" =>
            thread'[job[q].thread] = thread[job[q].thread],
         Owner(w)',
         \A row \in rows' \ rows: thread'[row[1]].owner = row[2]
  PROVE  OwnedInv'
  <1>1. ASSUME NEW t \in Threads, NEW p \in Principals, thread[t].owner = p
        PROVE  thread'[t].owner = p
    BY <1>1, NoThreadIs
  <1>2. ASSUME NEW q \in Workers \ {w} PROVE Owner(q)'
    <2>1. pc'[q] = pc[q] /\ job'[q] = job[q] /\ Owner(q) /\ Local(q)
      BY DEF OwnedInv, Only, WorkInv, Locals
    <2>2. pc[q] \in {"ask", "run"} =>
            job[q].thread \in Threads /\ job[q].who \in Principals
      BY <2>1 DEF Local
    <2>3. pc[q] \in {"ask", "run"} => thread'[job[q].thread].owner = job[q].who
      BY <1>1, <2>1, <2>2 DEF Owner
    <2>4. QED
      BY <2>1, <2>3 DEF Owner
  <1>3. RowsOwned'
    <2> SUFFICES ASSUME NEW row \in rows' PROVE thread'[row[1]].owner = row[2]
      BY DEF RowsOwned
    <2>1. CASE row \in rows
      <3>1. row[1] \in Threads /\ row[2] \in Principals
        BY <2>1 DEF WorkInv, WorkType
      <3>2. QED
        BY <1>1, <2>1, <3>1 DEF OwnedInv, RowsOwned
    <2>2. QED
      BY <2>1
  <1>4. QED
    BY <1>2, <1>3 DEF OwnedInv

\* A step that makes no thread and writes no row.
LEMMA OwnedQuiet ==
  ASSUME WorkInv, OwnedInv, NEW w \in Workers, Only(w),
         UNCHANGED <<thread, rows>>, Owner(w)'
  PROVE  OwnedInv'
  BY OwnedStep

LEMMA OwnedEnds ==
  ASSUME WorkInv, OwnedInv, NEW w \in Workers, Ends(w),
         UNCHANGED <<thread, rows>>
  PROVE  OwnedInv'
  <1>1. pc'[w] = "idle" /\ Only(w)
    BY IsOver DEF WorkInv
  <1>2. QED
    BY <1>1, OwnedQuiet DEF Owner

LEMMA OwnedAdmission ==
  ASSUME WorkInv, OwnedInv, NEW w \in Workers, Admission(w) PROVE OwnedInv'
  <1> PICK p \in Principals:
        \/ \E s \in Sessions: SignIn(w, p, s) \/ SignOut(w, p, s)
        \/ \E x \in Transfers: Decide(w, p, x)
        \/ \E t \in Threads:
             \/ Remember(w, p, t)
             \/ \E f \in Profiles: Message(w, p, t, f) \/ OpenThread(w, p, t, f)
    BY DEF Admission
  <1>1. PICK i \in {"session", "signout", "decide", "recall", "lookup", "open"},
             call \in Calls: \E j: Starts(w, p, call, i, j)
    BY DEF SignIn, SignOut, Decide, Remember, Message, OpenThread, Calls
  <1>2. pc'[w] = i /\ Only(w) /\ UNCHANGED <<thread, rows>>
    BY <1>1 DEF Starts, Goto, Only, store, WorkInv, WorkType
  <1>3. QED
    BY <1>2, OwnedQuiet DEF Owner

LEMMA OwnedUpserted ==
  ASSUME WorkInv, OwnedInv, OneMaker, NEW w \in Workers, Makes(w), Only(w),
         thread' = Upserted(w), UNCHANGED rows, Owner(w)'
  PROVE  OwnedInv'
  <1>1. /\ \A t \in Threads: thread[t] # NoThread => thread'[t] = thread[t]
        /\ \A t \in Threads \ {job[w].thread}: thread'[t] = thread[t]
    BY UpsertKeeps
  <1>2. ASSUME NEW q \in Workers \ {w}, pc[q] = "upsert"
        PROVE  thread'[job[q].thread] = thread[job[q].thread]
    <2>1. job[q].thread \in Threads /\ Makes(q)
      BY <1>2 DEF WorkInv, Locals, Local, Makes
    <2>2. job[q].thread = job[w].thread => thread[job[q].thread] # NoThread
      BY <2>1 DEF OneMaker
    <2>3. QED
      BY <1>1, <2>1, <2>2
  <1>3. QED
    BY <1>1, <1>2, OwnedStep

LEMMA OwnedMessage ==
  ASSUME WorkInv, OwnedInv, OneMaker, NEW w \in Workers,
         Lookup(w) \/ Upsert(w) \/ Open(w) \/ Ask(w)
  PROVE  OwnedInv'
  <1> PICK t \in Threads, p \in Principals: t = job[w].thread /\ p = job[w].who
    BY DEF Lookup, Upsert, Open, Ask, WorkInv, Locals, Local
  <1>1. WorkType /\ Owner(w) /\ job[w] \in Jobs
    BY DEF WorkInv, WorkType, OwnedInv
  <1>2. CASE Lookup(w)
    <2>1. UNCHANGED <<thread, rows>>
      BY <1>2 DEF Lookup, store
    <2>2. CASE Ends(w)
      BY <2>1, <2>2, OwnedEnds
    <2>3. CASE /\ Goto(w, "upsert")
               /\ thread[t] = NoThread \/ thread[t].owner = p
               /\ \/ job' = [job EXCEPT ![w].fresh = TRUE]
                  \/ job' = [job EXCEPT ![w].profile = thread[t].profile]
      <3>1. pc'[w] = "upsert" /\ Only(w)
        BY <1>1, <2>3 DEF Goto, Only, WorkType
      <3>2. job'[w].thread = t /\ job'[w].who = p
        BY <1>1, <2>3 DEF WorkType, Jobs
      <3>3. Owner(w)'
        BY <2>1, <2>3, <3>1, <3>2 DEF Owner
      <3>4. QED
        BY <2>1, <3>1, <3>3, OwnedQuiet
    <2>4. QED
      BY <1>2, <2>2, <2>3 DEF Lookup, OwnedBy
  <1>3. CASE Upsert(w)
    <2>1. pc'[w] = "ask" /\ Only(w) /\ thread' = Upserted(w) /\ UNCHANGED rows
      BY <1>1, <1>3 DEF Upsert, Goto, Only, WorkType
    <2>2. job'[w].thread = t /\ job'[w].who = p
      BY <1>1, <1>3 DEF Upsert, WorkType, Jobs
    <2>3. Makes(w) /\ (thread[t] = NoThread \/ thread[t].owner = p)
      BY <1>1, <1>3 DEF Upsert, Makes, Owner
    <2>4. thread'[t].owner = p
      BY <2>1, <2>3, NoThreadIs, UpsertKeeps
    <2>5. Owner(w)'
      BY <2>1, <2>2, <2>4 DEF Owner
    <2>6. QED
      BY <2>1, <2>3, <2>5, OwnedUpserted
  <1>4. CASE Open(w)
    <2>1. /\ Ends(w) /\ thread' = Upserted(w) /\ UNCHANGED rows /\ Makes(w)
      BY <1>4 DEF Open, Makes
    <2>2. pc'[w] = "idle" /\ Only(w)
      BY <1>1, <2>1, IsOver
    <2>3. QED
      BY <2>1, <2>2, OwnedUpserted DEF Owner
  <1>5. CASE Ask(w)
    <2>1. /\ pc'[w] = "run" /\ Only(w) /\ job' = job /\ thread' = thread
          /\ rows' = rows \cup {<<t, p>>} /\ thread[t].owner = p
      BY <1>1, <1>5 DEF Ask, Goto, Only, WorkType, Owner
    <2>2. Owner(w)'
      BY <2>1 DEF Owner
    <2>3. QED
      BY <2>1, <2>2, OwnedStep
  <1>6. QED
    BY <1>2, <1>3, <1>4, <1>5

LEMMA OwnedRest ==
  ASSUME WorkInv, OwnedInv, NEW w \in Workers,
         \/ CreateSession(w) \/ RevokeSession(w) \/ Recall(w) \/ AddMemory(w)
         \/ Run(w) \/ Verdict(w, "approved") \/ Verdict(w, "rejected")
         \/ NoVerdict(w) \/ BecomeRequester(w) \/ AuthorizeThread(w)
         \/ Resume(w) \/ Lose(w)
  PROVE  OwnedInv'
  <1>1. CASE \/ CreateSession(w) \/ RevokeSession(w) \/ Run(w) \/ NoVerdict(w)
             \/ Resume(w) \/ Lose(w)
    <2>1. Ends(w) /\ UNCHANGED <<thread, rows>>
      BY <1>1 DEF CreateSession, RevokeSession, Run, NoVerdict, Resume, Lose,
                  store
    <2>2. QED
      BY <2>1, OwnedEnds
  <1>2. CASE Recall(w) \/ AuthorizeThread(w)
    <2>1. UNCHANGED <<thread, rows>>
      BY <1>2 DEF Recall, AuthorizeThread, store
    <2>2. CASE Ends(w)
      BY <2>1, <2>2, OwnedEnds
    <2>3. CASE (Goto(w, "remember") \/ Goto(w, "resume")) /\ UNCHANGED job
      <3>1. pc'[w] \in {"remember", "resume"} /\ Only(w)
        BY <2>3 DEF Goto, Only, WorkInv, WorkType
      <3>2. QED
        BY <2>1, <3>1, OwnedQuiet DEF Owner
    <2>4. QED
      BY <1>2, <2>2, <2>3 DEF Recall, AuthorizeThread
  <1>3. CASE BecomeRequester(w)
    <2>1. /\ pc'[w] = "thread" /\ Only(w) /\ UNCHANGED <<thread, rows>>
      BY <1>3 DEF BecomeRequester, Goto, Only, WorkInv, WorkType, store
    <2>2. QED
      BY <2>1, OwnedQuiet DEF Owner
  <1>4. CASE Verdict(w, "approved") \/ Verdict(w, "rejected")
    <2>1. /\ pc'[w] \in {"membership", "idle"} /\ Only(w)
          /\ UNCHANGED <<thread, rows>>
      BY <1>4 DEF Verdict, AfterVerdict, Goto, Only, WorkInv, WorkType
    <2>2. QED
      BY <2>1, OwnedQuiet DEF Owner
  <1>5. CASE AddMemory(w)
    <2> PICK t \in Threads, p \in Principals:
          t = job[w].thread /\ p = job[w].who
      BY <1>5 DEF AddMemory, WorkInv, Locals, Local
    <2>1. /\ Ends(w) /\ thread' = thread /\ rows' = rows \cup {<<t, p>>}
          /\ thread[t].owner = p
      BY <1>5 DEF AddMemory, WorkInv, Locals, Local
    <2>2. pc'[w] = "idle" /\ Only(w)
      BY <2>1, IsOver DEF WorkInv
    <2>3. QED
      BY <2>1, <2>2, OwnedStep DEF Owner
  <1>6. QED
    BY <1>1, <1>2, <1>3, <1>4, <1>5

LEMMA NextOwned == Inv /\ OwnedInv /\ OneMaker /\ [Next]_vars => OwnedInv'
  <1> SUFFICES ASSUME Inv, OwnedInv, OneMaker, [Next]_vars PROVE OwnedInv'
    OBVIOUS
  <1>1. WorkInv
    BY DEF Inv
  <1>2. CASE \E w \in Workers: Admission(w) \/ Step(w) \/ Lose(w)
    BY <1>1, <1>2, OwnedAdmission, OwnedMessage, OwnedRest DEF Step
  <1>3. CASE UNCHANGED <<thread, rows, pc, job>>
    BY <1>3 DEF OwnedInv, RowsOwned, Owner
  <1>4. (\E u \in Setups: Seed(u)) => UNCHANGED <<thread, rows, pc, job>>
    BY SetupLeaves DEF worked
  <1>5. (\E s \in Sessions: Lapse(s)) => UNCHANGED <<thread, rows, pc, job>>
    BY DEF Lapse, locals
  <1>6. UNCHANGED vars => UNCHANGED <<thread, rows, pc, job>>
    BY DEF vars, store, locals
  <1>7. QED
    BY <1>2, <1>3, <1>4, <1>5, <1>6 DEF Next

\* Where no two requests at once may make one thread, a row is always of the
\* owner of its thread: nothing but that race gives a stranger one.
THEOREM OneMakerOwnsAll == Spec /\ []OneMaker => []RowsOwned
  <1>1. Init => OwnedInv
    BY DEF Init, OwnedInv, RowsOwned, Owner
  <1>2. OwnedInv => RowsOwned
    BY DEF OwnedInv
  <1>3. QED
    BY <1>1, <1>2, NextOwned, InvHolds, PTL DEF Spec

-----------------------------------------------------------------------------
(* In whose right a request works.                                         *)

\* A membership row holds what a set-up gives that principal.
OwnMemberships == \A p \in Principals: member[p] \in Optional(Memberships[p])

RequestersKnown ==
  \A x \in Transfers:
    approval[x].status # "none" => member[approval[x].actor] # None

\* On its way from an approving verdict to the resumption.
Resuming(w) == pc[w] \in {"membership", "thread", "resume"}

Right(w) ==
  /\ pc[w] # "idle" => /\ job[w].grants \in Memberships[job[w].who]
                       /\ member[job[w].who] # None
  /\ Resuming(w) => approval[job[w].transfer].status \in {"approved", "resumed"}
  /\ pc[w] \in {"thread", "resume"} =>
       approval[job[w].transfer].actor = job[w].who

RightInv ==
  /\ OwnMemberships /\ RequestersKnown
  /\ \A w \in Workers: Right(w)

LEMMA OwnIsNotNone ==
  ASSUME NEW p \in Principals, NEW m \in Memberships[p] PROVE m # None /\ m \in Grants
  BY AccessAssumption DEF Grants

\* A step of w that leaves the transfers others are resuming approved and
\* their requesters'.
LEMMA RightStep ==
  ASSUME RightInv, NEW w \in Workers, Only(w), member' = member, Right(w)',
         RequestersKnown',
         \A q \in Workers \ {w}: Resuming(q) =>
            /\ approval'[job[q].transfer].actor = approval[job[q].transfer].actor
            /\ approval'[job[q].transfer].status \in {"approved", "resumed"}
  PROVE  RightInv'
  <1>1. ASSUME NEW q \in Workers \ {w} PROVE Right(q)'
    <2>1. pc'[q] = pc[q] /\ job'[q] = job[q] /\ Right(q)
      BY DEF RightInv, Only
    <2>2. pc[q] \in {"thread", "resume"} => Resuming(q)
      BY DEF Resuming
    <2>3. QED
      BY <2>1, <2>2 DEF Right, Resuming
  <1>2. OwnMemberships'
    BY DEF RightInv, OwnMemberships
  <1>3. QED
    BY <1>1, <1>2 DEF RightInv

\* A step of w that writes no approval.
LEMMA RightQuiet ==
  ASSUME RightInv, NEW w \in Workers, Only(w), UNCHANGED <<member, approval>>,
         Right(w)'
  PROVE  RightInv'
  <1>1. RequestersKnown'
    BY DEF RightInv, RequestersKnown
  <1>2. \A q \in Workers \ {w}: Resuming(q) =>
          approval[job[q].transfer].status \in {"approved", "resumed"}
    BY DEF RightInv, Right
  <1>3. QED
    BY <1>1, <1>2, RightStep

LEMMA RightEnds ==
  ASSUME WorkInv, RightInv, NEW w \in Workers, Ends(w), UNCHANGED <<member, approval>>
  PROVE  RightInv'
  <1>1. pc'[w] = "idle" /\ Only(w)
    BY IsOver DEF WorkInv
  <1>2. Right(w)'
    BY <1>1 DEF Right, Resuming
  <1>3. QED
    BY <1>1, <1>2, RightQuiet

\* w goes on to step s, which is not one of the resumption, in the same right.
LEMMA RightGoesOn ==
  ASSUME WorkInv, RightInv, NEW w \in Workers, UNCHANGED <<member, approval>>,
         NEW s \in Steps \ {"idle", "membership", "thread", "resume"},
         pc[w] # "idle", Goto(w, s), NEW j \in Jobs, job' = [job EXCEPT ![w] = j],
         j.who = job[w].who, j.grants = job[w].grants
  PROVE  RightInv'
  <1>1. pc'[w] = s /\ job'[w] = j /\ Only(w)
    BY Moves DEF WorkInv
  <1>2. Right(w)'
    BY <1>1 DEF RightInv, Right, Resuming
  <1>3. QED
    BY <1>1, <1>2, RightQuiet

LEMMA RightStays ==
  ASSUME WorkInv, RightInv, NEW w \in Workers, UNCHANGED <<member, approval, job>>,
         NEW s \in Steps \ {"idle", "membership", "thread", "resume"},
         pc[w] # "idle", Goto(w, s)
  PROVE  RightInv'
  <1>1. job[w] \in Jobs /\ job' = [job EXCEPT ![w] = job[w]]
    BY DEF WorkInv, WorkType
  <1>2. QED
    BY <1>1, RightGoesOn

\* Admission reads the rights of the principal it admits.
LEMMA RightStarts ==
  ASSUME SeedType, WorkInv, RightInv, NEW w \in Workers, NEW p \in Principals,
         Known(p), NEW call,
         NEW s \in Steps \ {"idle", "membership", "thread", "resume"},
         NEW given \in Jobs, Starts(w, p, call, s, given)
  PROVE  RightInv'
  <1> DEFINE j == [given EXCEPT !.caller = p, !.who = p, !.grants = member[p]]
  <1>1. member[p] \in Memberships[p] /\ member[p] # None
    BY DEF RightInv, OwnMemberships, Optional, Known
  <1>2. member[p] \in Optional(Grants)
    BY DEF SeedType
  <1>3. j \in Jobs /\ j.who = p /\ j.grants = member[p]
    BY <1>2 DEF Jobs, Optional
  <1>4. /\ job' = [job EXCEPT ![w] = j] /\ Goto(w, s)
        /\ UNCHANGED <<member, approval>>
    BY DEF Starts, store, transfers
  <1> HIDE DEF j
  <1>5. pc'[w] = s /\ job'[w] = j /\ Only(w)
    BY <1>3, <1>4, Moves DEF WorkInv
  <1>6. Right(w)'
    BY <1>1, <1>3, <1>4, <1>5 DEF Right, Resuming
  <1>7. QED
    BY <1>4, <1>5, <1>6, RightQuiet

LEMMA RightAdmission ==
  ASSUME SeedType, WorkInv, RightInv, NEW w \in Workers, Admission(w) PROVE RightInv'
  <1> PICK p \in Principals:
        \/ \E s \in Sessions: SignIn(w, p, s) \/ SignOut(w, p, s)
        \/ \E x \in Transfers: Decide(w, p, x)
        \/ \E t \in Threads:
             \/ Remember(w, p, t)
             \/ \E f \in Profiles: Message(w, p, t, f) \/ OpenThread(w, p, t, f)
    BY DEF Admission
  <1>1. {"session", "signout", "recall", "decide", "lookup", "open"}
          \subseteq Steps \ {"idle", "membership", "thread", "resume"}
    BY DEF Steps
  <1>2. Known(p)
    BY DEF SignIn, SignOut, Decide, Remember, Message, OpenThread, Admitted
  <1>3. ASSUME NEW s \in Sessions, SignIn(w, p, s) \/ SignOut(w, p, s)
        PROVE  RightInv'
    <2>1. Slot(s) \in Jobs
      BY SlotIs
    <2>2. \/ Starts(w, p, "sessions", "session", Slot(s))
          \/ Starts(w, p, "sessions", "signout", Slot(s))
      BY <1>3 DEF SignIn, SignOut, Slot
    <2>3. QED
      BY <1>1, <1>2, <2>1, <2>2, RightStarts
  <1>4. ASSUME NEW x \in Transfers, Decide(w, p, x) PROVE RightInv'
    <2>1. On(x) \in Jobs
      BY OnIs
    <2>2. Starts(w, p, "decisions", "decide", On(x))
      BY <1>4 DEF Decide, On
    <2>3. QED
      BY <1>1, <1>2, <2>1, <2>2, RightStarts
  <1>5. ASSUME NEW t \in Threads, Remember(w, p, t) PROVE RightInv'
    <2>1. For(t, None) \in Jobs
      BY ForIs DEF Optional
    <2>2. Starts(w, p, "memories", "recall", For(t, None))
      BY <1>5 DEF Remember
    <2>3. QED
      BY <1>1, <1>2, <2>1, <2>2, RightStarts
  <1>6. ASSUME NEW t \in Threads, NEW f \in Profiles,
               Message(w, p, t, f) \/ OpenThread(w, p, t, f)
        PROVE  RightInv'
    <2>1. For(t, f) \in Jobs
      BY ForIs DEF Optional
    <2>2. \/ Starts(w, p, "messages", "lookup", For(t, f))
          \/ Starts(w, p, "threads", "open", For(t, f))
      BY <1>6 DEF Message, OpenThread
    <2>3. QED
      BY <1>1, <1>2, <2>1, <2>2, RightStarts
  <1>7. QED
    BY <1>3, <1>4, <1>5, <1>6

\* Steps outside a transfer.
LEMMA RightOfThreads ==
  ASSUME WorkInv, RightInv, NEW w \in Workers, UNCHANGED member,
         \/ CreateSession(w) \/ RevokeSession(w) \/ Lookup(w) \/ Upsert(w)
         \/ Open(w) \/ Ask(w) \/ Recall(w) \/ AddMemory(w) \/ NoVerdict(w)
  PROVE  RightInv'
  <1>1. {"upsert", "ask", "run", "remember"}
          \subseteq Steps \ {"idle", "membership", "thread", "resume"}
    BY DEF Steps
  <1>2. UNCHANGED approval
    BY DEF CreateSession, RevokeSession, Lookup, Upsert, Open, Ask, Recall,
           AddMemory, NoVerdict, store, transfers
  <1>3. CASE \/ CreateSession(w) \/ RevokeSession(w) \/ Open(w) \/ AddMemory(w)
             \/ NoVerdict(w)
    BY <1>2, <1>3, RightEnds DEF CreateSession, RevokeSession, Open, AddMemory,
                                 NoVerdict
  <1>4. CASE Ask(w)
    BY <1>1, <1>2, <1>4, RightStays DEF Ask
  <1>5. CASE Recall(w)
    <2>1. Ends(w) \/ (Goto(w, "remember") /\ UNCHANGED job /\ pc[w] # "idle")
      BY <1>5 DEF Recall
    <2>2. QED
      BY <1>1, <1>2, <2>1, RightEnds, RightStays
  <1>6. ASSUME NEW s \in {"upsert", "ask"}, Goto(w, s), pc[w] # "idle",
               NEW b \in BOOLEAN, job' = [job EXCEPT ![w].fresh = b]
        PROVE  RightInv'
    <2> DEFINE j == [job[w] EXCEPT !.fresh = b]
    <2>1. job[w] \in Jobs
      BY DEF WorkInv, WorkType
    <2>2. j \in Jobs /\ j.who = job[w].who /\ j.grants = job[w].grants
      BY <2>1 DEF Jobs
    <2>3. job' = [job EXCEPT ![w] = j]
      BY <1>6
    <2> HIDE DEF j
    <2>4. QED
      BY <1>1, <1>2, <1>6, <2>2, <2>3, RightGoesOn
  <1>7. CASE Upsert(w)
    BY <1>6, <1>7 DEF Upsert
  <1>8. CASE Lookup(w)
    <2>1. pc[w] # "idle" /\ pc[w] = "lookup"
      BY <1>8 DEF Lookup
    <2>2. job[w] \in Jobs /\ job[w].thread \in Threads
      BY <2>1 DEF WorkInv, WorkType, Locals, Local
    <2>3. CASE /\ thread[job[w].thread] # NoThread
               /\ job' = [job EXCEPT ![w].profile = thread[job[w].thread].profile]
               /\ Goto(w, "upsert")
      <3> DEFINE j == [job[w] EXCEPT !.profile = thread[job[w].thread].profile]
      <3>1. thread[job[w].thread].profile \in Profiles
        BY <2>2, <2>3 DEF WorkInv, WorkType, Rows
      <3>2. j \in Jobs /\ j.who = job[w].who /\ j.grants = job[w].grants
        BY <2>2, <3>1 DEF Jobs, Optional
      <3>3. job' = [job EXCEPT ![w] = j]
        BY <2>3
      <3> HIDE DEF j
      <3>4. QED
        BY <1>1, <1>2, <2>1, <2>3, <3>2, <3>3, RightGoesOn
    <2>4. CASE Goto(w, "upsert") /\ job' = [job EXCEPT ![w].fresh = TRUE]
      BY <1>6, <2>1, <2>4
    <2>5. CASE Ends(w)
      BY <1>2, <2>5, RightEnds
    <2>6. QED
      BY <1>8, <2>3, <2>4, <2>5 DEF Lookup
  <1>9. QED
    BY <1>3, <1>4, <1>5, <1>7, <1>8

LEMMA RightRun ==
  ASSUME WorkInv, RightInv, NEW w \in Workers, UNCHANGED member, Run(w)
  PROVE  RightInv'
  <1>1. CASE UNCHANGED approval
    BY <1>1, RightEnds DEF Run
  <1>2. ASSUME NEW x \in Transfers, Free(x),
               approval' = [approval EXCEPT ![x] =
                  [actor |-> job[w].who, thread |-> job[w].thread,
                   status |-> "pending"]]
        PROVE  RightInv'
    <2>1. pc'[w] = "idle" /\ Only(w)
      BY IsOver DEF WorkInv, Run
    <2>2. Right(w)'
      BY <2>1 DEF Right, Resuming
    <2>3. /\ approval'[x].actor = job[w].who
          /\ \A y \in Transfers \ {x}: approval'[y] = approval[y]
      BY <1>2 DEF WorkInv, WorkType
    <2>4. RequestersKnown'
      BY <2>3 DEF RightInv, RequestersKnown, Right, Run
    <2>5. \A q \in Workers: Resuming(q) => job[q].transfer \in Transfers \ {x}
      BY <1>2 DEF WorkInv, Locals, Local, Resuming, Free
    <2>6. \A q \in Workers: Resuming(q) =>
            approval[job[q].transfer].status \in {"approved", "resumed"}
      BY DEF RightInv, Right
    <2>7. QED
      BY <2>1, <2>2, <2>3, <2>4, <2>5, <2>6, RightStep
  <1>3. QED
    BY <1>1, <1>2 DEF Run

\* A verdict on transfer x, or its resumption, takes no approval back.
LEMMA RightStatus ==
  ASSUME WorkInv, RightInv, NEW w \in Workers, UNCHANGED member,
         NEW x \in Transfers, NEW s \in Statuses,
         approval' = [approval EXCEPT ![x].status = s],
         approval[x].status # "none",
         approval[x].status = "approved" => s = "resumed",
         approval[x].status # "resumed", Only(w), Right(w)'
  PROVE  RightInv'
  <1>1. /\ approval'[x].actor = approval[x].actor /\ approval'[x].status = s
        /\ \A y \in Transfers \ {x}: approval'[y] = approval[y]
    BY NewStatus DEF WorkInv
  <1>2. RequestersKnown'
    BY <1>1 DEF RightInv, RequestersKnown
  <1>3. ASSUME NEW q \in Workers \ {w}, Resuming(q)
        PROVE  /\ approval'[job[q].transfer].actor
                    = approval[job[q].transfer].actor
               /\ approval'[job[q].transfer].status \in {"approved", "resumed"}
    <2>1. /\ job[q].transfer \in Transfers
          /\ approval[job[q].transfer].status \in {"approved", "resumed"}
      BY <1>3 DEF RightInv, Right, WorkInv, Locals, Local, Resuming
    <2>2. QED
      BY <1>1, <2>1
  <1>4. QED
    BY <1>2, <1>3, RightStep

LEMMA RightVerdict ==
  ASSUME WorkInv, RightInv, NEW w \in Workers, UNCHANGED member,
         NEW status \in {"approved", "rejected"}, Verdict(w, status)
  PROVE  RightInv'
  <1> PICK x \in Transfers: x = job[w].transfer
    BY DEF Verdict, WorkInv, Locals, Local
  <1>1. /\ WorkType /\ pc[w] = "decide" /\ approval[x].status = "pending"
        /\ job[w] \in Jobs /\ "membership" \in Steps /\ status \in Statuses
        /\ approval' = [approval EXCEPT ![x].status = status]
    BY DEF Verdict, WorkInv, WorkType, Steps, Statuses
  <1>2. approval'[x].status = status
    BY <1>1, NewStatus
  <1>3. /\ Only(w)
        /\ \/ pc'[w] = "idle"
           \/ pc'[w] = "membership" /\ job'[w] = job[w] /\ status = "approved"
    <2>1. CASE status = "approved"
      <3>1. Goto(w, "membership") /\ job' = job
        BY <1>1, <2>1 DEF Verdict, AfterVerdict, WorkType
      <3>2. QED
        BY <1>1, <2>1, <3>1, GoesOn
    <2>2. CASE status = "rejected"
      <3>1. Ends(w)
        BY <2>2 DEF Verdict, AfterVerdict, Ends
      <3>2. QED
        BY <1>1, <3>1, IsOver
    <2>3. QED
      BY <2>1, <2>2
  <1>4. Right(w)'
    BY <1>1, <1>2, <1>3 DEF RightInv, Right, Resuming
  <1>5. QED
    BY <1>1, <1>3, <1>4, RightStatus

\* The resumption: from the reviewer's right to the requester's.
LEMMA RightResumption ==
  ASSUME SeedType, WorkInv, RightInv, NEW w \in Workers, UNCHANGED member,
         BecomeRequester(w) \/ AuthorizeThread(w) \/ Resume(w)
  PROVE  RightInv'
  <1> PICK x \in Transfers: x = job[w].transfer
    BY DEF BecomeRequester, AuthorizeThread, Resume, WorkInv, Locals, Local
  <1>1. /\ WorkType /\ Local(w) /\ Resuming(w) /\ job[w] \in Jobs
        /\ Right(w) /\ {"thread", "resume"} \subseteq Steps
    BY DEF BecomeRequester, AuthorizeThread, Resume, WorkInv, WorkType, Locals,
           Resuming, RightInv, Steps
  <1>2. CASE BecomeRequester(w)
    <2> DEFINE a == approval[x].actor
               j == [job[w] EXCEPT !.who = a, !.grants = member[a]]
    <2>1. /\ approval[x].status \in {"approved", "resumed"}
          /\ a \in Principals
      BY <1>1 DEF Right, WorkInv, Asked
    <2>2. member[a] # None /\ member[a] \in Memberships[a] /\ member[a] \in Grants
      BY <2>1, OwnIsNotNone DEF RightInv, RequestersKnown, OwnMemberships, Optional
    <2>3. j \in Jobs /\ j.transfer = x /\ j.who = a /\ j.grants = member[a]
      BY <1>1, <2>1, <2>2 DEF Jobs, Optional
    <2>4. /\ job' = [job EXCEPT ![w] = j] /\ Goto(w, "thread")
          /\ UNCHANGED approval
      BY <1>1, <1>2 DEF BecomeRequester, RequesterGrants, WorkType, store,
                        transfers
    <2> HIDE DEF j
    <2>5. pc'[w] = "thread" /\ job'[w] = j /\ Only(w)
      BY <1>1, <2>3, <2>4, Moves
    <2>6. Right(w)'
      BY <2>1, <2>2, <2>3, <2>4, <2>5 DEF Right
    <2>7. QED
      BY <2>4, <2>5, <2>6, RightQuiet
  <1>3. CASE AuthorizeThread(w)
    <2>1. UNCHANGED approval /\ pc[w] = "thread"
      BY <1>3 DEF AuthorizeThread, store, transfers
    <2>2. CASE Goto(w, "resume") /\ UNCHANGED job
      <3>1. pc'[w] = "resume" /\ job'[w] = job[w] /\ Only(w)
        BY <1>1, <2>2, GoesOn
      <3>2. Right(w)'
        BY <1>1, <2>1, <3>1 DEF Right, Resuming
      <3>3. QED
        BY <2>1, <3>1, <3>2, RightQuiet
    <2>3. CASE Ends(w)
      BY <2>1, <2>3, RightEnds
    <2>4. QED
      BY <1>3, <2>2, <2>3 DEF AuthorizeThread
  <1>4. CASE Resume(w)
    <2>1. CASE UNCHANGED approval
      BY <1>4, <2>1, RightEnds DEF Resume
    <2>2. ASSUME NEW y \in Transfers, approval[y].status = "approved",
                 approval' = [approval EXCEPT ![y].status = "resumed"]
          PROVE  RightInv'
      <3>1. pc'[w] = "idle" /\ Only(w)
        BY <1>1, <1>4, IsOver DEF Resume
      <3>2. Right(w)' /\ "resumed" \in Statuses
        BY <3>1 DEF Right, Resuming, Statuses
      <3>3. QED
        BY <2>2, <3>1, <3>2, RightStatus
    <2>3. QED
      BY <1>4, <2>1, <2>2 DEF Resume, CarriesOut, transfers
  <1>5. QED
    BY <1>2, <1>3, <1>4

\* What does not touch a request, an approval or a membership it has.
LEMMA RightApart ==
  ASSUME RightInv, UNCHANGED <<approval, pc, job>>, OwnMemberships',
         \A p \in Principals: member[p] # None => member'[p] # None,
         WorkInv
  PROVE  RightInv'
  <1>1. \A x \in Transfers:
          approval[x].status # "none" => approval[x].actor \in Principals
    BY DEF WorkInv, Asked
  <1>2. RequestersKnown'
    BY <1>1 DEF RightInv, RequestersKnown
  <1>3. \A w \in Workers: Right(w)'
    BY DEF RightInv, Right, Resuming, WorkInv, Locals, Local
  <1>4. QED
    BY <1>2, <1>3 DEF RightInv

LEMMA RightSeed ==
  ASSUME SeedType, WorkInv, RightInv, NEW u \in Setups, Seed(u) PROVE RightInv'
  <1>1. UNCHANGED <<approval, pc, job>>
    BY SetupLeaves DEF worked
  <1>2. CASE UNCHANGED member
    BY <1>1, <1>2, RightApart DEF RightInv, OwnMemberships
  <1>3. ASSUME NEW p \in Principals, NEW m \in Memberships[p], SeedMember(u, p, m)
        PROVE  RightInv'
    <2>1. member' = [member EXCEPT ![p] = m] /\ m # None
      BY <1>3, OwnIsNotNone DEF SeedMember
    <2>2. \A q \in Principals: member'[q] = IF q = p THEN m ELSE member[q]
      BY <2>1 DEF SeedType
    <2>3. OwnMemberships'
      BY <1>3, <2>2 DEF RightInv, OwnMemberships, Optional
    <2>4. QED
      BY <1>1, <2>1, <2>2, <2>3, RightApart
  <1>4. QED
    BY <1>2, <1>3 DEF Seed, SeedList, SeedRevoke, SeedCreate, SeedStop, store

LEMMA NextRight == Inv /\ RightInv /\ [Next]_vars => RightInv'
  <1> SUFFICES ASSUME Inv, RightInv, [Next]_vars PROVE RightInv'
    OBVIOUS
  <1>1. SeedType /\ WorkInv
    BY DEF Inv, SeedInv
  <1>2. CASE \E u \in Setups: Seed(u)
    BY <1>1, <1>2, RightSeed
  <1>3. CASE \E w \in Workers: Admission(w) \/ Step(w) \/ Lose(w)
    <2> PICK w \in Workers: Admission(w) \/ Step(w) \/ Lose(w)
      BY <1>3
    <2>1. UNCHANGED member
      BY RequestLeaves DEF seeded
    <2>2. CASE Admission(w)
      BY <1>1, <2>2, RightAdmission
    <2>3. CASE Step(w)
      BY <1>1, <2>1, <2>3, RightOfThreads, RightRun, RightVerdict, RightResumption
        DEF Step
    <2>4. CASE Lose(w)
      BY <1>1, <2>1, <2>4, RightEnds DEF Lose, store, transfers
    <2>5. QED
      BY <2>2, <2>3, <2>4
  <1>4. CASE UNCHANGED vars \/ \E s \in Sessions: Lapse(s)
    BY <1>1, <1>4, RightApart
      DEF Lapse, locals, others, vars, store, transfers, RightInv,
          OwnMemberships
  <1>5. QED
    BY <1>2, <1>3, <1>4 DEF Next

LEMMA InitRight == Init => RightInv
  BY DEF Init, RightInv, OwnMemberships, Optional, RequestersKnown, NoApproval,
         Resuming, Right

\* A request never works with rights that were not given to whoever it works
\* as, and resumes an approved transfer as its requester, with what that one has
\* (principal_from_row, approval_decide_and_resume).
THEOREM RightsAreOwn == Spec => []WorksInOwnRight
  <1>1. RightInv => WorksInOwnRight
    BY DEF RightInv, Right, Resuming, WorksInOwnRight
  <1>2. Spec => []RightInv
    BY InitRight, NextRight, InvHolds, PTL DEF Spec
  <1>3. QED
    BY <1>1, <1>2, PTL
=============================================================================
