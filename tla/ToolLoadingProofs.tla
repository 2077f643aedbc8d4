------------------------- MODULE ToolLoadingProofs --------------------------
(***************************************************************************)
(* Theorems about ToolLoading, for any servers, profiles and concurrent    *)
(* requests.                                                               *)
(*                                                                         *)
(* The shared list only grows, so what a load has put there stays: after   *)
(* the servers it has passed (Passed) a load copies a list with all their  *)
(* tools, and a published list has every tool of the configuration, once   *)
(* or more often.  Once only if loads neither overlap nor fail (NoneTwice): *)
(* a load then adds to what it has itself put there.                       *)
(***************************************************************************)
EXTENDS ToolLoading, SequenceTheorems, TLAPS

\* A load of w has left the tools of every server before its own, and those of
\* its own that are no longer to be adapted.
Passed(w) ==
  /\ pc[w] \in {"connect", "describe", "adapt"} =>
       \A i \in Enabled : i < job[w].server => AllowedOf(i) \subseteq Range(adapters)
  /\ pc[w] = "connect" => job[w].server >= 1
  /\ pc[w] \in {"describe", "adapt"} => job[w].server \in Enabled
  /\ pc[w] = "adapt" =>
       Range(job[w].offers) \subseteq Range(Servers[job[w].server].offers)
  /\ pc[w] = "adapt" =>
       \A a \in AllowedOf(job[w].server) :
         \/ a \in Range(adapters)
         \/ \E t \in Range(job[w].offers) \cap Servers[job[w].server].allowed :
              a = [server |-> job[w].server,
                   name |-> PublicName(job[w].server, t)]

\* What w knows of the lists it has copied.
Local(w) ==
  /\ pc[w] # "idle" => job[w].profile \in Profiles
  /\ pc[w] \in {"loaded", "connect", "describe", "adapt", "publish", "extra"} =>
       HasMCP(job[w].profile)
  /\ pc[w] = "publish" => Range(job[w].tools) = Tools
  /\ pc[w] = "extra" => mcp_tools \in Seq(Tools) /\ Range(mcp_tools) = Tools
  /\ pc[w] = "build" =>
       Range(job[w].tools) = IF HasMCP(job[w].profile) THEN Tools ELSE {}
  /\ pc[w] \in {"cached", "loaded"} => job[w].tools = <<>>
  /\ pc[w] # "adapt" => job[w].offers = <<>>

Published == mcp_tools # None => Range(mcp_tools) = Tools

Inv ==
  /\ TypeOK /\ GraphsAreComplete /\ Published
  /\ \A w \in Workers : Passed(w) /\ Local(w)

-----------------------------------------------------------------------------
(* Lists of tools.                                                         *)

LEMMA ServersAre ==
  /\ Len(Servers) \in Nat /\ DOMAIN Servers = 1 .. Len(Servers)
  /\ Enabled \subseteq 1 .. Len(Servers)
  /\ \A i \in Enabled : Servers[i].offers \in Seq(Offers)
  <1>1. Len(Servers) \in Nat /\ DOMAIN Servers = 1 .. Len(Servers)
    BY LoadingAssumption, LenProperties
  <1>2. ASSUME NEW i \in Enabled PROVE Servers[i].offers \in Seq(Offers)
    <2>1. i \in DOMAIN Servers
      BY DEF Enabled
    <2>2. Servers[i].offers \in Seq(Range(Servers[i].offers))
      BY <2>1, LoadingAssumption
    <2>3. Range(Servers[i].offers) \subseteq Offers
      BY <2>1 DEF Offers
    <2>4. QED
      BY <2>2, <2>3, SeqMonotonic
  <1>3. QED
    BY <1>1, <1>2 DEF Enabled

LEMMA NothingListed == <<>> \in Seq(Tools) /\ <<>> \in Seq(Offers) /\ Range(<<>>) = {}
  <1>1. <<>> \in Seq(Tools) /\ <<>> \in Seq(Offers) /\ DOMAIN <<>> = {}
    BY EmptySeq, LenProperties
  <1>2. QED
    BY <1>1 DEF Range

LEMMA NoJobIs == NoJob \in Jobs
  BY NothingListed, ServersAre DEF NoJob, Jobs

LEMMA HeadAndTail ==
  ASSUME NEW S, NEW s \in Seq(S), s # <<>>
  PROVE  /\ Head(s) \in Range(s) /\ Tail(s) \in Seq(S)
         /\ \A x \in Range(s) : x = Head(s) \/ x \in Range(Tail(s))
  <1>1. /\ Head(s) = s[1] /\ Tail(s) \in Seq(S)
        /\ Len(s) \in Nat \ {0} /\ DOMAIN s = 1 .. Len(s)
        /\ Len(Tail(s)) = Len(s) - 1
        /\ DOMAIN Tail(s) = 1 .. Len(Tail(s))
        /\ \A i \in 1 .. Len(Tail(s)) : Tail(s)[i] = s[i + 1]
    BY HeadTailProperties, LenProperties, EmptySeq
  <1>2. Head(s) \in Range(s)
    BY <1>1 DEF Range
  <1>3. ASSUME NEW x \in Range(s), x # Head(s) PROVE x \in Range(Tail(s))
    <2>1. PICK i \in 1 .. Len(s) : x = s[i]
      BY <1>1 DEF Range
    <2>2. i # 1
      BY <1>1, <1>3, <2>1
    <2>3. i - 1 \in 1 .. Len(Tail(s)) /\ (i - 1) + 1 = i
      BY <1>1, <2>2
    <2>4. Tail(s)[i - 1] = x
      BY <1>1, <2>1, <2>3
    <2>5. QED
      BY <1>1, <2>3, <2>4 DEF Range
  <1>4. QED
    BY <1>1, <1>2, <1>3

\* An adapter is one of the tools, or the configuration does not allow it.
LEMMA AdapterIs ==
  ASSUME NEW i \in Enabled, NEW t \in Range(Servers[i].offers)
  PROVE  /\ Adapter(i, t) \in Seq(Tools)
         /\ t \in Servers[i].allowed =>
              [server |-> i, name |-> PublicName(i, t)] \in Range(Adapter(i, t))
  <1> DEFINE a == [server |-> i, name |-> PublicName(i, t)]
  <1>1. CASE t \in Servers[i].allowed
    <2>1. a \in AllowedOf(i)
      BY <1>1 DEF AllowedOf
    <2>2. a \in Tools
      BY <2>1 DEF Tools
    <2>3. Adapter(i, t) = <<a>>
      BY <1>1 DEF Adapter
    <2> HIDE DEF a
    <2>4. <<a>> \in Seq(Tools) /\ a \in Range(<<a>>)
      BY <2>2 DEF Range
    <2>5. QED
      BY <2>3, <2>4 DEF a
  <1>2. CASE t \notin Servers[i].allowed
    BY <1>2, NothingListed DEF Adapter
  <1>3. QED
    BY <1>1, <1>2

-----------------------------------------------------------------------------
(* The steps of a request.                                                 *)

\* A step of w that leaves the other requests alone and takes no tool away.
Keeps(w) ==
  /\ \A v \in Workers \ {w} : pc'[v] = pc[v] /\ job'[v] = job[v]
  /\ Range(adapters) \subseteq Range(adapters')
  /\ \/ mcp_tools' = mcp_tools
     \/ mcp_tools' \in Seq(Tools) /\ Range(mcp_tools') = Tools

LEMMA KeepsInv ==
  ASSUME Inv, NEW w \in Workers, Keeps(w), TypeOK', GraphsAreComplete',
         Passed(w)', Local(w)'
  PROVE  Inv'
  <1>1. Published'
    BY DEF Inv, Published, Keeps
  <1>2. ASSUME NEW v \in Workers \ {w} PROVE Passed(v)' /\ Local(v)'
    <2>1. pc'[v] = pc[v] /\ job'[v] = job[v] /\ Passed(v) /\ Local(v)
      BY DEF Inv, Keeps
    <2>2. Range(adapters) \subseteq Range(adapters')
      BY DEF Keeps
    <2>3. Passed(v)'
      BY <2>1, <2>2 DEF Passed
    <2>4. Local(v)'
      BY <2>1 DEF Local, Keeps
    <2>5. QED
      BY <2>3, <2>4
  <1>3. QED
    BY <1>1, <1>2 DEF Inv

\* A step that only moves w and its local variables.
LEMMA MovesInv ==
  ASSUME Inv, NEW w \in Workers, NEW step \in Steps, NEW j \in Jobs,
         Goto(w, step), job' = [job EXCEPT ![w] = j], UNCHANGED shared,
         failures' \in 0 .. MaxFailures,
         j.offers # <<>> => j.server \in Enabled
  PROVE  /\ pc'[w] = step /\ job'[w] = j
         /\ Passed(w)' /\ Local(w)' => Inv'
  <1>1. /\ pc' \in [Workers -> Steps] /\ job' \in [Workers -> Jobs]
        /\ pc'[w] = step /\ job'[w] = j
        /\ \A v \in Workers \ {w} : pc'[v] = pc[v] /\ job'[v] = job[v]
    BY DEF Inv, TypeOK, Goto
  <1>2. TypeOK'
    BY <1>1 DEF Inv, TypeOK, shared
  <1>3. Keeps(w) /\ GraphsAreComplete'
    BY <1>1 DEF Inv, Keeps, GraphsAreComplete, shared
  <1>4. QED
    BY <1>1, <1>2, <1>3, KeepsInv

\* A request that is answered, or fails.
LEMMA LeaveInv ==
  ASSUME Inv, NEW w \in Workers, Leave(w), UNCHANGED shared,
         failures' \in 0 .. MaxFailures
  PROVE  Inv'
  <1>1. /\ NoJob \in Jobs /\ NoJob.offers = <<>>
        /\ Goto(w, "idle") /\ job' = [job EXCEPT ![w] = NoJob]
    BY NoJobIs DEF NoJob, Leave
  <1>2. "idle" \in Steps
    BY DEF Steps
  <1>3. /\ pc'[w] = "idle" /\ job'[w] = NoJob
        /\ Passed(w)' /\ Local(w)' => Inv'
    BY <1>1, <1>2, MovesInv
  <1>4. Passed(w)' /\ Local(w)'
    BY <1>1, <1>3 DEF Passed, Local
  <1>5. QED
    BY <1>3, <1>4

LEMMA FailInv ==
  ASSUME Inv, NEW w \in Workers, Fail(w), UNCHANGED shared
  PROVE  Inv'
  <1>1. failures' \in 0 .. MaxFailures
    BY LoadingAssumption DEF Inv, TypeOK, Fail
  <1>2. QED
    BY <1>1, LeaveInv DEF Fail

LEMMA RequestInv ==
  ASSUME Inv, NEW w \in Workers, NEW p \in Profiles, Request(w, p)
  PROVE  Inv'
  <1> DEFINE j == [NoJob EXCEPT !.profile = p]
  <1>1. /\ j \in Jobs /\ j.offers = <<>> /\ j.tools = <<>> /\ j.profile = p
        /\ Goto(w, "cached") /\ job' = [job EXCEPT ![w] = j]
        /\ UNCHANGED shared /\ failures' \in 0 .. MaxFailures
    BY NoJobIs, NothingListed DEF NoJob, Jobs, Request, Inv, TypeOK
  <1> HIDE DEF j
  <1>2. "cached" \in Steps
    BY DEF Steps
  <1>3. /\ pc'[w] = "cached" /\ job'[w] = j
        /\ Passed(w)' /\ Local(w)' => Inv'
    BY <1>1, <1>2, MovesInv
  <1>4. Passed(w)' /\ Local(w)'
    BY <1>1, <1>3 DEF Passed, Local
  <1>5. QED
    BY <1>3, <1>4

\* A step of a load or a lookup that changes at most its place.
LEMMA JobIs ==
  ASSUME Inv, NEW w \in Workers
  PROVE  /\ job[w] \in Jobs /\ Passed(w) /\ Local(w)
         /\ job[w].offers # <<>> => job[w].server \in Enabled
         /\ failures \in 0 .. MaxFailures
         /\ job = [job EXCEPT ![w] = job[w]]
  BY DEF Inv, TypeOK

LEMMA LookForGraphInv ==
  ASSUME Inv, NEW w \in Workers, LookForGraph(w)
  PROVE  Inv'
  <1>1. /\ job[w] \in Jobs /\ Passed(w) /\ Local(w)
        /\ job[w].offers # <<>> => job[w].server \in Enabled
        /\ failures' \in 0 .. MaxFailures
        /\ job = [job EXCEPT ![w] = job[w]]
        /\ pc[w] = "cached" /\ UNCHANGED shared
    BY JobIs DEF LookForGraph, At
  <1>2. CASE Leave(w)
    BY <1>1, <1>2, LeaveInv
  <1>3. ASSUME NEW step \in {"loaded", "build"}, Goto(w, step), UNCHANGED job,
               (step = "loaded") <=> HasMCP(job[w].profile)
        PROVE  Inv'
    <2>1. step \in Steps /\ job' = [job EXCEPT ![w] = job[w]]
      BY <1>1, <1>3 DEF Steps
    <2>2. /\ pc'[w] = step /\ job'[w] = job[w]
          /\ Passed(w)' /\ Local(w)' => Inv'
      BY <1>1, <1>3, <2>1, MovesInv
    <2>3. Passed(w)'
      BY <2>2 DEF Passed
    <2>4. Local(w)'
      BY <1>1, <1>3, <2>2, NothingListed DEF Local
    <2>5. QED
      BY <2>2, <2>3, <2>4
  <1>4. QED
    BY <1>2, <1>3 DEF LookForGraph

LEMMA LookForToolsInv ==
  ASSUME Inv, NEW w \in Workers, LookForTools(w)
  PROVE  Inv'
  <1>1. /\ job[w] \in Jobs /\ Passed(w) /\ Local(w)
        /\ job[w].offers # <<>> => job[w].server \in Enabled
        /\ failures' \in 0 .. MaxFailures
        /\ job = [job EXCEPT ![w] = job[w]]
        /\ pc[w] = "loaded" /\ UNCHANGED shared
    BY JobIs DEF LookForTools, At
  <1>2. CASE mcp_tools # None /\ Goto(w, "extra") /\ UNCHANGED job
    <2>1. "extra" \in Steps /\ job' = [job EXCEPT ![w] = job[w]]
      BY <1>1, <1>2 DEF Steps
    <2>2. /\ pc'[w] = "extra" /\ job'[w] = job[w]
          /\ Passed(w)' /\ Local(w)' => Inv'
      BY <1>1, <1>2, <2>1, MovesInv
    <2>3. mcp_tools' \in Seq(Tools) /\ Range(mcp_tools') = Tools
      BY <1>1, <1>2 DEF Inv, TypeOK, Published, shared
    <2>4. Passed(w)' /\ Local(w)'
      BY <1>1, <2>2, <2>3 DEF Passed, Local
    <2>5. QED
      BY <2>2, <2>4
  <1>3. CASE /\ job' = [job EXCEPT ![w].server = 1]
             /\ Goto(w, "connect")
    <2> DEFINE j == [job[w] EXCEPT !.server = 1]
    <2>1. /\ j \in Jobs /\ j.server = 1 /\ j.profile = job[w].profile
          /\ j.offers = job[w].offers /\ j.tools = job[w].tools
      <3>1. 1 \in 0 .. Len(Servers) + 1
        BY ServersAre
      <3>2. QED
        BY <1>1, <3>1 DEF Jobs
    <2>2. job' = [job EXCEPT ![w] = j] /\ "connect" \in Steps
      BY <1>3 DEF Steps
    <2>3. j.offers # <<>> => j.server \in Enabled
      BY <1>1, <2>1 DEF Local
    <2> HIDE DEF j
    <2>4. /\ pc'[w] = "connect" /\ job'[w] = j
          /\ Passed(w)' /\ Local(w)' => Inv'
      BY <1>1, <1>3, <2>1, <2>2, <2>3, MovesInv
    <2>5. Passed(w)'
      BY <2>1, <2>4, ServersAre DEF Passed
    <2>6. Local(w)'
      BY <1>1, <2>1, <2>4 DEF Local
    <2>7. QED
      BY <2>4, <2>5, <2>6
  <1>4. QED
    BY <1>2, <1>3 DEF LookForTools

\* The load passes to the next server.
LEMMA AdvanceInv ==
  ASSUME Inv, NEW w \in Workers, pc[w] \in {"connect", "adapt"},
         job[w].server \in 1 .. Len(Servers), job[w].offers = <<>>,
         job' = [job EXCEPT ![w].server = @ + 1],
         Goto(w, "connect"), UNCHANGED <<shared, failures>>,
         pc[w] = "connect" => job[w].server \notin Enabled
  PROVE  Inv'
  <1> DEFINE i == job[w].server
             j == [job[w] EXCEPT !.server = @ + 1]
  <1>1. job[w] \in Jobs /\ Passed(w) /\ Local(w) /\ failures' \in 0 .. MaxFailures
    BY JobIs DEF Inv
  <1>2. i \in 1 .. Len(Servers) /\ Len(Servers) \in Nat
    BY ServersAre
  <1>3. /\ j \in Jobs /\ j.server = i + 1 /\ j.profile = job[w].profile
        /\ j.offers = <<>> /\ j.tools = job[w].tools
    <2>1. i + 1 \in 0 .. Len(Servers) + 1
      BY <1>2
    <2>2. QED
      BY <1>1, <2>1 DEF Jobs
  <1>4. job' = [job EXCEPT ![w] = j] /\ "connect" \in Steps
    BY DEF Steps
  <1>5. AllowedOf(i) \subseteq Range(adapters) \/ i \notin Enabled
    <2>1. CASE pc[w] = "connect"
      BY <2>1
    <2>2. CASE pc[w] = "adapt"
      <3>1. Range(job[w].offers) = {}
        BY NothingListed
      <3>2. QED
        BY <1>1, <2>2, <3>1 DEF Passed
    <2>3. QED
      BY <2>1, <2>2
  <1> HIDE DEF j
  <1>6. /\ pc'[w] = "connect" /\ job'[w] = j
        /\ Passed(w)' /\ Local(w)' => Inv'
    BY <1>1, <1>3, <1>4, MovesInv
  <1>7. Passed(w)'
    <2>1. \A k \in Enabled : k < i + 1 => k < i \/ k = i
      BY <1>2, ServersAre
    <2>2. adapters' = adapters
      BY DEF shared
    <2>3. \A k \in Enabled : k < i + 1 => AllowedOf(k) \subseteq Range(adapters)
      BY <1>1, <1>5, <2>1 DEF Passed
    <2>4. i + 1 >= 1
      BY <1>2
    <2>5. QED
      BY <1>3, <1>6, <2>2, <2>3, <2>4 DEF Passed
  <1>8. Local(w)'
    BY <1>1, <1>3, <1>6 DEF Local
  <1>9. QED
    BY <1>6, <1>7, <1>8

LEMMA SkipInv ==
  ASSUME Inv, NEW w \in Workers, Skip(w)
  PROVE  Inv'
  <1>1. pc[w] = "connect" /\ Local(w)
    BY JobIs DEF Skip, At
  <1>2. job[w].server \in 1 .. Len(Servers) /\ job[w].server \notin Enabled
    BY ServersAre DEF Skip
  <1>3. pc' = [pc EXCEPT ![w] = "connect"]
    BY <1>1 DEF Skip, Inv, TypeOK
  <1>4. job[w].offers = <<>>
    BY <1>1 DEF Local
  <1>5. QED
    BY <1>1, <1>2, <1>3, <1>4, AdvanceInv DEF Skip, Goto

LEMMA NextServerInv ==
  ASSUME Inv, NEW w \in Workers, NextServer(w)
  PROVE  Inv'
  <1>1. pc[w] = "adapt" /\ Passed(w)
    BY JobIs DEF NextServer, At
  <1>2. job[w].server \in 1 .. Len(Servers)
    BY <1>1, ServersAre DEF Passed
  <1>3. QED
    BY <1>1, <1>2, AdvanceInv DEF NextServer

LEMMA ConnectInv ==
  ASSUME Inv, NEW w \in Workers, Connect(w)
  PROVE  Inv'
  <1>1. /\ job[w] \in Jobs /\ Passed(w) /\ Local(w)
        /\ job[w].offers # <<>> => job[w].server \in Enabled
        /\ failures \in 0 .. MaxFailures
        /\ job = [job EXCEPT ![w] = job[w]]
        /\ pc[w] = "connect" /\ UNCHANGED shared
    BY JobIs DEF Connect, At
  <1>2. CASE Fail(w)
    BY <1>1, <1>2, FailInv
  <1>3. CASE Goto(w, "describe") /\ UNCHANGED <<failures, job>>
    <2>1. /\ "describe" \in Steps /\ job' = [job EXCEPT ![w] = job[w]]
          /\ failures' \in 0 .. MaxFailures
      BY <1>1, <1>3 DEF Steps
    <2>2. /\ pc'[w] = "describe" /\ job'[w] = job[w]
          /\ Passed(w)' /\ Local(w)' => Inv'
      BY <1>1, <1>3, <2>1, MovesInv
    <2>3. Passed(w)'
      BY <1>1, <2>2 DEF Passed, Connect, shared
    <2>4. Local(w)'
      BY <1>1, <2>2 DEF Local
    <2>5. QED
      BY <2>2, <2>3, <2>4
  <1>4. QED
    BY <1>2, <1>3 DEF Connect

LEMMA DescribeInv ==
  ASSUME Inv, NEW w \in Workers, Describe(w)
  PROVE  Inv'
  <1>1. /\ job[w] \in Jobs /\ Passed(w) /\ Local(w)
        /\ failures \in 0 .. MaxFailures
        /\ pc[w] = "describe" /\ UNCHANGED shared
    BY JobIs DEF Describe, At
  <1>2. CASE Fail(w)
    BY <1>1, <1>2, FailInv
  <1>3. CASE /\ job' = [job EXCEPT ![w].offers = Servers[job[w].server].offers]
             /\ Goto(w, "adapt") /\ UNCHANGED failures
    <2> DEFINE i == job[w].server
               j == [job[w] EXCEPT !.offers = Servers[i].offers]
    <2>1. i \in Enabled
      BY <1>1 DEF Passed
    <2>2. /\ j \in Jobs /\ j.server = i /\ j.profile = job[w].profile
          /\ j.offers = Servers[i].offers
      BY <1>1, <2>1, ServersAre DEF Jobs
    <2>3. job' = [job EXCEPT ![w] = j] /\ "adapt" \in Steps
      BY <1>3 DEF Steps
    <2>4. failures' \in 0 .. MaxFailures /\ adapters' = adapters
      BY <1>1, <1>3 DEF shared
    <2> HIDE DEF j
    <2>5. /\ pc'[w] = "adapt" /\ job'[w] = j
          /\ Passed(w)' /\ Local(w)' => Inv'
      BY <1>1, <1>3, <2>1, <2>2, <2>3, <2>4, MovesInv
    <2>6. Passed(w)'
      <3>1. \A a \in AllowedOf(i) :
              \E t \in Range(Servers[i].offers) \cap Servers[i].allowed :
                a = [server |-> i, name |-> PublicName(i, t)]
        BY DEF AllowedOf
      <3>2. \A k \in Enabled : k < i => AllowedOf(k) \subseteq Range(adapters)
        BY <1>1 DEF Passed
      <3> HIDE DEF i
      <3>3. QED
        BY <2>1, <2>2, <2>4, <2>5, <3>1, <3>2 DEF Passed
    <2>7. Local(w)'
      BY <1>1, <2>2, <2>5 DEF Local
    <2>8. QED
      BY <2>5, <2>6, <2>7
  <1>4. QED
    BY <1>2, <1>3 DEF Describe

LEMMA AdaptInv ==
  ASSUME Inv, NEW w \in Workers, Adapt(w)
  PROVE  Inv'
  <1> DEFINE i == job[w].server
             s == job[w].offers
             j == [job[w] EXCEPT !.offers = Tail(@)]
             new == Adapter(i, Head(s))
  <1>1. /\ job[w] \in Jobs /\ Passed(w) /\ Local(w)
        /\ pc[w] = "adapt" /\ s # <<>>
        /\ adapters' = adapters \o new
        /\ job' = [job EXCEPT ![w] = j]
        /\ UNCHANGED <<graphs, mcp_tools, failures, pc>>
    BY JobIs DEF Adapt, At
  <1>2. s \in Seq(Offers) /\ adapters \in Seq(Tools) /\ i \in Enabled
    BY <1>1 DEF Jobs, Inv, TypeOK, Passed
  <1>3. Range(s) \subseteq Range(Servers[i].offers)
    BY <1>1 DEF Passed
  <1>4. /\ Head(s) \in Range(s) /\ Tail(s) \in Seq(Offers)
        /\ \A x \in Range(s) : x = Head(s) \/ x \in Range(Tail(s))
    BY <1>1, <1>2, HeadAndTail
  <1>5. Range(Tail(s)) \subseteq Range(s)
    <2>1. /\ Len(Tail(s)) = Len(s) - 1 /\ DOMAIN Tail(s) = 1 .. Len(Tail(s))
          /\ Len(s) \in Nat \ {0} /\ DOMAIN s = 1 .. Len(s)
          /\ \A k \in 1 .. Len(Tail(s)) : Tail(s)[k] = s[k + 1]
      BY <1>1, <1>2, <1>4, HeadTailProperties, LenProperties, EmptySeq
    <2> HIDE DEF s
    <2>2. QED
      BY <2>1 DEF Range
  <1>6. /\ new \in Seq(Tools)
        /\ Head(s) \in Servers[i].allowed =>
             [server |-> i, name |-> PublicName(i, Head(s))] \in Range(new)
    BY <1>2, <1>3, <1>4, AdapterIs
  <1>7. j \in Jobs /\ j.server = i /\ j.offers = Tail(s) /\ j.profile = job[w].profile
    BY <1>1, <1>4 DEF Jobs
  <1> HIDE DEF new, j
  <1>8. /\ adapters' \in Seq(Tools)
        /\ Range(adapters') = Range(adapters) \cup Range(new)
    BY <1>1, <1>2, <1>6, ConcatProperties, RangeConcatenation
  <1>9. job'[w] = j /\ pc'[w] = "adapt"
        /\ \A v \in Workers \ {w} : pc'[v] = pc[v] /\ job'[v] = job[v]
    BY <1>1 DEF Inv, TypeOK
  <1>10. TypeOK'
    BY <1>1, <1>2, <1>7, <1>8 DEF Inv, TypeOK
  <1>11. Keeps(w) /\ GraphsAreComplete'
    BY <1>1, <1>8, <1>9 DEF Inv, Keeps, GraphsAreComplete
  <1>12. Passed(w)'
    <2>1. \A k \in Enabled : k < i => AllowedOf(k) \subseteq Range(adapters')
      BY <1>1, <1>8 DEF Passed
    <2>2. Range(Tail(s)) \subseteq Range(Servers[i].offers)
      BY <1>3, <1>5
    <2>3. ASSUME NEW a \in AllowedOf(i), a \notin Range(adapters')
          PROVE  \E t \in Range(Tail(s)) \cap Servers[i].allowed :
                   a = [server |-> i, name |-> PublicName(i, t)]
      <3>1. a \notin Range(adapters) /\ a \notin Range(new)
        BY <1>8, <2>3
      <3>2. PICK t \in Range(s) \cap Servers[i].allowed :
              a = [server |-> i, name |-> PublicName(i, t)]
        BY <1>1, <3>1 DEF Passed
      <3>3. t # Head(s)
        BY <1>6, <3>1, <3>2
      <3>4. QED
        BY <1>4, <3>2, <3>3
    <2>4. /\ job'[w].server = i /\ job'[w].offers = Tail(s)
          /\ pc'[w] = "adapt" /\ i \in Enabled
      BY <1>2, <1>7, <1>9
    <2> HIDE DEF i, s
    <2>5. \A a \in AllowedOf(job'[w].server) :
            \/ a \in Range(adapters')
            \/ \E t \in Range(job'[w].offers)
                       \cap Servers[job'[w].server].allowed :
                 a = [server |-> job'[w].server,
                      name |-> PublicName(job'[w].server, t)]
      BY <2>3, <2>4
    <2>6. QED
      BY <2>1, <2>2, <2>4, <2>5 DEF Passed
  <1>13. Local(w)'
    BY <1>1, <1>7, <1>9 DEF Local
  <1>14. QED
    BY <1>10, <1>11, <1>12, <1>13, KeepsInv

LEMMA CopyInv ==
  ASSUME Inv, NEW w \in Workers, Copy(w)
  PROVE  Inv'
  <1> DEFINE j == [job[w] EXCEPT !.tools = adapters]
  <1>1. /\ job[w] \in Jobs /\ Passed(w) /\ Local(w)
        /\ failures' \in 0 .. MaxFailures
        /\ pc[w] = "connect" /\ UNCHANGED shared
    BY JobIs DEF Copy, At
  <1>2. adapters \in Seq(Tools)
    BY DEF Inv, TypeOK
  <1>3. /\ j \in Jobs /\ j.tools = adapters /\ j.profile = job[w].profile
        /\ j.offers = job[w].offers
    BY <1>1, <1>2 DEF Jobs
  <1>4. /\ job' = [job EXCEPT ![w] = j] /\ Goto(w, "publish")
        /\ "publish" \in Steps
    BY DEF Copy, Steps
  <1>5. Range(adapters) = Tools
    <2>1. Range(adapters) \subseteq Tools
      BY <1>2, RangeOfSeq
    <2>2. \A i \in Enabled : i < job[w].server
      BY ServersAre, <1>1 DEF Copy, Jobs
    <2>3. \A i \in Enabled : AllowedOf(i) \subseteq Range(adapters)
      BY <1>1, <2>2 DEF Passed
    <2>4. QED
      BY <2>1, <2>3 DEF Tools
  <1> HIDE DEF j
  <1>6. j.offers = <<>>
    BY <1>1, <1>3 DEF Local
  <1>7. /\ pc'[w] = "publish" /\ job'[w] = j
        /\ Passed(w)' /\ Local(w)' => Inv'
    BY <1>1, <1>3, <1>4, <1>6, MovesInv
  <1>8. Passed(w)'
    BY <1>7 DEF Passed
  <1>9. Local(w)'
    BY <1>1, <1>3, <1>5, <1>6, <1>7 DEF Local
  <1>10. QED
    BY <1>7, <1>8, <1>9

LEMMA PublishInv ==
  ASSUME Inv, NEW w \in Workers, Publish(w)
  PROVE  Inv'
  <1>1. job[w] \in Jobs /\ Local(w) /\ pc[w] = "publish"
    BY JobIs DEF Publish, At
  <1>2. /\ mcp_tools' \in Seq(Tools) /\ Range(mcp_tools') = Tools
        /\ UNCHANGED <<graphs, adapters, failures, job>>
    BY <1>1 DEF Publish, Local, Jobs
  <1>3. /\ pc' \in [Workers -> Steps] /\ pc'[w] = "extra"
        /\ \A v \in Workers \ {w} : pc'[v] = pc[v]
    BY DEF Inv, TypeOK, Publish, Goto, Steps
  <1>4. TypeOK'
    BY <1>2, <1>3 DEF Inv, TypeOK
  <1>5. Keeps(w) /\ GraphsAreComplete'
    BY <1>2, <1>3 DEF Inv, Keeps, GraphsAreComplete
  <1>6. Passed(w)'
    BY <1>3 DEF Passed
  <1>7. Local(w)'
    BY <1>1, <1>2, <1>3 DEF Local
  <1>8. QED
    BY <1>4, <1>5, <1>6, <1>7, KeepsInv

LEMMA ReadToolsInv ==
  ASSUME Inv, NEW w \in Workers, ReadTools(w)
  PROVE  Inv'
  <1> DEFINE j == [job[w] EXCEPT !.tools = mcp_tools]
  <1>1. /\ job[w] \in Jobs /\ Local(w) /\ failures' \in 0 .. MaxFailures
        /\ pc[w] = "extra" /\ UNCHANGED shared
    BY JobIs DEF ReadTools, At
  <1>2. mcp_tools \in Seq(Tools) /\ Range(mcp_tools) = Tools
    BY <1>1 DEF Local
  <1>3. /\ j \in Jobs /\ j.tools = mcp_tools /\ j.profile = job[w].profile
        /\ j.offers = job[w].offers
    BY <1>1, <1>2 DEF Jobs
  <1>4. /\ job' = [job EXCEPT ![w] = j] /\ Goto(w, "build") /\ "build" \in Steps
    BY DEF ReadTools, Steps
  <1> HIDE DEF j
  <1>5. j.offers = <<>>
    BY <1>1, <1>3 DEF Local
  <1>6. /\ pc'[w] = "build" /\ job'[w] = j
        /\ Passed(w)' /\ Local(w)' => Inv'
    BY <1>1, <1>3, <1>4, <1>5, MovesInv
  <1>7. Passed(w)'
    BY <1>6 DEF Passed
  <1>8. Local(w)'
    BY <1>1, <1>2, <1>3, <1>5, <1>6 DEF Local
  <1>9. QED
    BY <1>6, <1>7, <1>8

\* A graph that is cached has the profile's part of all the tools.
LEMMA BuildInv ==
  ASSUME Inv, NEW w \in Workers, Build(w)
  PROVE  Inv'
  <1> DEFINE p == job[w].profile
             tools == job[w].tools
  <1>1. job[w] \in Jobs /\ Local(w) /\ pc[w] = "build"
    BY JobIs DEF Build, At
  <1>2. p \in Profiles /\ Range(tools) = IF HasMCP(p) THEN Tools ELSE {}
    BY <1>1 DEF Local
  <1>3. /\ ToolsOf(p, tools) \in SUBSET Tools
        /\ ToolsOf(p, tools)
             = IF HasMCP(p) THEN {t \in Tools : p \in Servers[t.server].profiles}
               ELSE {}
    BY <1>2 DEF ToolsOf
  <1>4. /\ Leave(w) /\ UNCHANGED <<mcp_tools, adapters, failures>>
        /\ graphs' = IF CatalogBuilds(tools)
                      THEN [graphs EXCEPT ![p] = ToolsOf(p, tools)] ELSE graphs
    BY DEF Build
  <1>5. /\ pc' \in [Workers -> Steps] /\ job' \in [Workers -> Jobs]
        /\ pc'[w] = "idle" /\ job'[w] = NoJob
        /\ \A v \in Workers \ {w} : pc'[v] = pc[v] /\ job'[v] = job[v]
    BY <1>4, NoJobIs DEF Inv, TypeOK, Leave, Goto, Steps
  <1> HIDE DEF p, tools
  <1>6. graphs' \in [Profiles -> (SUBSET Tools) \cup {None}]
    BY <1>3, <1>4 DEF Inv, TypeOK
  <1>7. GraphsAreComplete'
    BY <1>2, <1>3, <1>4 DEF Inv, TypeOK, GraphsAreComplete
  <1>8. NoJob.offers = <<>>
    BY DEF NoJob
  <1>9. TypeOK'
    BY <1>4, <1>5, <1>6, <1>8 DEF Inv, TypeOK
  <1>10. Keeps(w) /\ Passed(w)' /\ Local(w)'
    BY <1>4, <1>5, <1>8 DEF Keeps, Passed, Local
  <1>11. QED
    BY <1>7, <1>9, <1>10, KeepsInv

-----------------------------------------------------------------------------

LEMMA InitInv == Init => Inv
  <1> SUFFICES ASSUME Init PROVE Inv
    OBVIOUS
  <1>1. NoJob \in Jobs /\ NoJob.offers = <<>> /\ <<>> \in Seq(Tools)
    BY NoJobIs, NothingListed DEF NoJob
  <1>2. failures \in 0 .. MaxFailures
    BY LoadingAssumption DEF Init
  <1>3. TypeOK
    BY <1>1, <1>2 DEF Init, TypeOK, Steps
  <1>4. GraphsAreComplete /\ Published
    BY DEF Init, GraphsAreComplete, Published
  <1>5. ASSUME NEW w \in Workers PROVE Passed(w) /\ Local(w)
    BY <1>1 DEF Init, Passed, Local
  <1>6. QED
    BY <1>3, <1>4, <1>5 DEF Inv

LEMMA NextInv == Inv /\ [Next]_vars => Inv'
  <1> SUFFICES ASSUME Inv, [Next]_vars PROVE Inv'
    OBVIOUS
  <1>1. ASSUME NEW w \in Workers, Step(w) PROVE Inv'
    <2>1. CASE \/ LookForGraph(w) \/ LookForTools(w) \/ Publish(w)
               \/ ReadTools(w) \/ Build(w)
      BY <2>1, LookForGraphInv, LookForToolsInv, PublishInv, ReadToolsInv,
         BuildInv
    <2>2. CASE \/ Skip(w) \/ Connect(w) \/ Describe(w) \/ Adapt(w)
               \/ NextServer(w) \/ Copy(w)
      BY <2>2, SkipInv, ConnectInv, DescribeInv, AdaptInv, NextServerInv, CopyInv
    <2>3. QED
      BY <1>1, <2>1, <2>2 DEF Step
  <1>2. ASSUME NEW w \in Workers, NEW p \in Profiles, Request(w, p) PROVE Inv'
    BY <1>2, RequestInv
  <1>3. CASE UNCHANGED vars
    <2>1. TypeOK' /\ GraphsAreComplete' /\ Published'
      BY <1>3 DEF Inv, TypeOK, GraphsAreComplete, Published, vars
    <2>2. ASSUME NEW w \in Workers PROVE Passed(w)' /\ Local(w)'
      <3>1. Passed(w) /\ Local(w)
        BY DEF Inv
      <3>2. Passed(w)'
        BY <1>3, <3>1 DEF Passed, vars
      <3>3. Local(w)'
        BY <1>3, <3>1 DEF Local, vars
      <3>4. QED
        BY <3>2, <3>3
    <2>3. QED
      BY <2>1, <2>2 DEF Inv
  <1>4. QED
    BY <1>1, <1>2, <1>3 DEF Next

(* The inductive invariant holds of every reachable state.                 *)
THEOREM InvHolds == Spec => []Inv
  <1>1. QED
    BY InitInv, NextInv, PTL DEF Spec

(* Types: nothing but allowed tools of enabled servers is ever adapted.    *)
THEOREM TypeCorrect == Spec => []TypeOK
  <1>1. Inv => TypeOK
    BY DEF Inv
  <1>2. QED
    BY <1>1, InvHolds, PTL

(* No graph is ever cached with a tool missing or too many, whatever loads *)
(* overlap or fail half-way: what graph_get builds is complete.            *)
THEOREM CachedGraphsAreComplete == Spec => []GraphsAreComplete
  <1>1. Inv => GraphsAreComplete
    BY DEF Inv
  <1>2. QED
    BY <1>1, InvHolds, PTL

-----------------------------------------------------------------------------
(* What a cached graph does afterwards.                                    *)

\* A graph that is cached is never replaced by another.
GraphsStay ==
  [][\A p \in Profiles : graphs[p] # None => graphs'[p] = graphs[p]]_vars

\* Only Build writes graphs, and what it writes is complete before and after.
LEMMA GraphsKept ==
  ASSUME Inv, Inv', [Next]_vars, NEW p \in Profiles, graphs[p] # None
  PROVE  graphs'[p] = graphs[p]
  <1>1. CASE graphs' = graphs
    BY <1>1
  <1>2. ASSUME NEW w \in Workers, Build(w) PROVE graphs'[p] # None
    <2>1. /\ job[w].profile \in Profiles
          /\ Range(job[w].tools) = IF HasMCP(job[w].profile) THEN Tools ELSE {}
      BY <1>2, JobIs DEF Build, At, Local
    <2>2. graphs \in [Profiles -> (SUBSET Tools) \cup {None}]
      BY DEF Inv, TypeOK
    <2>3. CASE graphs' = graphs
      BY <2>3
    <2>4. CASE graphs' = [graphs EXCEPT ![job[w].profile]
                            = ToolsOf(job[w].profile, job[w].tools)]
      <3>1. CASE p # job[w].profile
        BY <2>2, <2>4, <3>1
      <3>2. CASE p = job[w].profile
        <4>1. graphs[p] = IF HasMCP(p)
                          THEN {t \in Tools : p \in Servers[t.server].profiles} ELSE {}
          BY DEF Inv, GraphsAreComplete
        <4>2. graphs'[p] = {t \in Range(job[w].tools) : p \in Servers[t.server].profiles}
          BY <2>2, <2>4, <3>2 DEF ToolsOf
        <4>3. graphs'[p] = graphs[p]
          BY <2>1, <3>2, <4>1, <4>2
        <4>4. QED
          BY <4>3
      <3>3. QED
        BY <3>1, <3>2
    <2>5. QED
      BY <1>2, <2>3, <2>4 DEF Build
  <1>3. CASE graphs'[p] # None
    BY <1>3 DEF Inv, GraphsAreComplete
  <1>4. QED
    <2>1. CASE \E w \in Workers : Build(w)
      BY <1>2, <1>3, <2>1
    <2>2. CASE UNCHANGED vars
      BY <1>1, <2>2 DEF vars
    <2>3. CASE \E w \in Workers : \E q \in Profiles : Request(w, q)
      BY <1>1, <2>3 DEF Request, shared
    <2>4. ASSUME NEW w \in Workers, Step(w), ~Build(w) PROVE graphs' = graphs
      <3>1. CASE \/ LookForGraph(w) \/ LookForTools(w) \/ Skip(w) \/ Connect(w)
                 \/ Describe(w)
        BY <3>1 DEF LookForGraph, LookForTools, Skip, Connect, Describe, shared
      <3>2. CASE Adapt(w) \/ NextServer(w) \/ Copy(w) \/ Publish(w) \/ ReadTools(w)
        BY <3>2 DEF Adapt, NextServer, Copy, Publish, ReadTools, shared
      <3>3. QED
        BY <2>4, <3>1, <3>2 DEF Step
    <2>5. QED
      BY <1>1, <2>1, <2>2, <2>3, <2>4 DEF Next

(* Two requests that both miss the cache build the profile's graph twice,  *)
(* and the second assignment changes nothing: who was given the first      *)
(* graph and who is given the second work with the same tools.             *)
THEOREM CachedGraphsStay == Spec => GraphsStay
  <1>1. Inv /\ Inv' /\ [Next]_vars =>
          \A p \in Profiles : graphs[p] # None => graphs'[p] = graphs[p]
    BY GraphsKept
  <1>2. QED
    BY <1>1, InvHolds, PTL DEF Spec, GraphsStay

-----------------------------------------------------------------------------
(* When a graph builds.                                                    *)

LEMMA EmptyHasNone == ~HasDuplicate(<<>>)
  BY EmptySeq, LenProperties DEF HasDuplicate

\* A request that is about to build has a list the catalog accepts.
Buildable(w) ==
  /\ pc[w] = "extra" => mcp_tools # None
  /\ pc[w] = "build" => CatalogBuilds(job[w].tools)

BuildsSucceed == \A w \in Workers : At(w, "build") => CatalogBuilds(job[w].tools)

LEMMA NextBuildable ==
  ASSUME Inv, [Next]_vars, NamesDoNotCollide, \A w \in Workers : Buildable(w),
         NEW w \in Workers
  PROVE  Buildable(w)'
  <1> DEFINE Same == pc'[w] = pc[w] /\ job'[w] = job[w]
             Listed == mcp_tools # None => mcp_tools' # None
  <1>1. /\ pc \in [Workers -> Steps] /\ job \in [Workers -> Jobs]
        /\ \A v \in Workers : job[v] \in Jobs /\ Passed(v) /\ Local(v)
        /\ Buildable(w)
    BY DEF Inv, TypeOK
  <1>2. CASE Same /\ Listed
    BY <1>1, <1>2 DEF Buildable
  <1>3. ASSUME NEW v \in Workers, Leave(v) PROVE v = w => pc'[w] = "idle"
    BY <1>1, <1>3 DEF Leave, Goto
  <1>4. ASSUME NEW v \in Workers, v # w, Step(v) \/ \E p \in Profiles : Request(v, p)
        PROVE  Buildable(w)'
    <2>1. Same
      <3>1. CASE \/ LookForGraph(v) \/ LookForTools(v) \/ Skip(v) \/ Connect(v)
                 \/ Describe(v)
        BY <1>1, <1>4, <3>1
        DEF LookForGraph, LookForTools, Skip, Connect, Describe, Leave, Fail, Goto
      <3>2. CASE Adapt(v) \/ NextServer(v) \/ Copy(v) \/ Publish(v) \/ ReadTools(v)
        BY <1>1, <1>4, <3>2 DEF Adapt, NextServer, Copy, Publish, ReadTools, Goto
      <3>3. CASE Build(v) \/ \E p \in Profiles : Request(v, p)
        BY <1>1, <1>4, <3>3 DEF Build, Request, Leave, Goto
      <3>4. QED
        BY <1>4, <3>1, <3>2, <3>3 DEF Step
    <2>2. Listed
      <3>1. CASE Publish(v)
        BY <1>1, <3>1, NoneAssumption DEF Publish, Jobs
      <3>2. CASE \/ LookForGraph(v) \/ LookForTools(v) \/ Skip(v) \/ Connect(v)
                 \/ Describe(v)
        BY <3>2 DEF LookForGraph, LookForTools, Skip, Connect, Describe, shared
      <3>3. CASE Adapt(v) \/ NextServer(v) \/ Copy(v) \/ ReadTools(v)
        BY <3>3 DEF Adapt, NextServer, Copy, ReadTools, shared
      <3>4. CASE Build(v) \/ \E p \in Profiles : Request(v, p)
        BY <3>4 DEF Build, Request, shared
      <3>5. QED
        BY <1>4, <3>1, <3>2, <3>3, <3>4 DEF Step
    <2>3. QED
      BY <1>2, <2>1, <2>2
  <1>5. ASSUME Step(w) PROVE Buildable(w)'
    <2>1. CASE LookForGraph(w)
      <3>1. CASE Leave(w)
        BY <1>3, <3>1 DEF Buildable
      <3>2. CASE ~HasMCP(job[w].profile) /\ Goto(w, "build") /\ UNCHANGED job
        BY <1>1, <2>1, <3>2, EmptyHasNone
        DEF LookForGraph, At, Local, Goto, Buildable, CatalogBuilds
      <3>3. CASE Goto(w, "loaded")
        BY <1>1, <3>3 DEF Goto, Buildable
      <3>4. QED
        BY <2>1, <3>1, <3>2, <3>3 DEF LookForGraph
    <2>2. CASE LookForTools(w)
      BY <1>1, <2>2 DEF LookForTools, Goto, Buildable, shared
    <2>3. CASE Connect(w) \/ Describe(w)
      <3>1. CASE Fail(w)
        BY <1>3, <3>1 DEF Fail, Buildable
      <3>2. CASE Goto(w, "describe") \/ Goto(w, "adapt")
        BY <1>1, <3>2 DEF Goto, Buildable
      <3>3. QED
        BY <2>3, <3>1, <3>2 DEF Connect, Describe
    <2>4. CASE Skip(w) \/ Adapt(w)
      BY <1>1, <2>4 DEF Skip, Adapt, At, Buildable
    <2>5. CASE NextServer(w) \/ Copy(w)
      BY <1>1, <2>5 DEF NextServer, Copy, Goto, Buildable
    <2>6. CASE Publish(w)
      BY <1>1, <2>6, NoneAssumption DEF Publish, Goto, Buildable, Jobs
    <2>7. CASE ReadTools(w)
      <3>1. mcp_tools # None /\ ~HasDuplicate(mcp_tools)
        BY <1>1, <2>7 DEF ReadTools, At, Buildable, NamesDoNotCollide
      <3>2. pc'[w] = "build" /\ job'[w].tools = mcp_tools
        BY <1>1, <2>7 DEF ReadTools, Goto, Jobs
      <3>3. QED
        BY <3>1, <3>2 DEF Buildable, CatalogBuilds
    <2>8. CASE Build(w)
      BY <1>3, <2>8 DEF Build, Buildable
    <2>9. QED
      BY <1>5, <2>1, <2>2, <2>3, <2>4, <2>5, <2>6, <2>7, <2>8 DEF Step
  <1>6. ASSUME NEW p \in Profiles, Request(w, p) PROVE Buildable(w)'
    BY <1>1, <1>6 DEF Request, Goto, Buildable
  <1>7. CASE UNCHANGED vars
    BY <1>2, <1>7 DEF vars
  <1>8. QED
    BY <1>4, <1>5, <1>6, <1>7 DEF Next

\* As long as the shared list holds no name twice, neither does a copy of it.
LEMMA BuildsFollow == Spec /\ []NamesDoNotCollide => []BuildsSucceed
  <1> DEFINE B == \A w \in Workers : Buildable(w)
  <1>1. Init => B
    BY DEF Init, Buildable
  <1>2. Inv /\ NamesDoNotCollide /\ B /\ [Next]_vars => B'
    BY NextBuildable
  <1>3. B => BuildsSucceed
    BY DEF Buildable, BuildsSucceed, At
  <1> HIDE DEF B
  <1>4. QED
    BY <1>1, <1>2, <1>3, InvHolds, PTL DEF Spec

-----------------------------------------------------------------------------
(* When names do not collide.                                              *)

\* The names of the configuration differ: the catalog refuses no single load.
NamesDiffer ==
  /\ \A i, j \in Enabled : i # j =>
       \A a \in AllowedOf(i), b \in AllowedOf(j) : a.name # b.name
  /\ \A i \in Enabled : \A m, n \in DOMAIN Servers[i].offers :
       /\ m # n
       /\ {Servers[i].offers[m], Servers[i].offers[n]} \subseteq Servers[i].allowed
       => PublicName(i, Servers[i].offers[m]) # PublicName(i, Servers[i].offers[n])

Loading == {"connect", "describe", "adapt", "publish"}

\* Loads do not overlap.
OneLoad == \A v, w \in Workers : pc[v] \in Loading /\ pc[w] \in Loading => v = w

\* What w has yet to adapt is not in the shared list, and has no name twice.
ToAdapt(w) ==
  /\ \A a \in Range(adapters) :
       \/ a.server < job[w].server
       \/ /\ a.server = job[w].server
          /\ \A t \in Range(job[w].offers) \cap Servers[job[w].server].allowed :
               a.name # PublicName(job[w].server, t)
  /\ \A m, n \in DOMAIN job[w].offers :
       /\ m # n
       /\ {job[w].offers[m], job[w].offers[n]} \subseteq Servers[job[w].server].allowed
       => PublicName(job[w].server, job[w].offers[m])
            # PublicName(job[w].server, job[w].offers[n])

Alone(w) ==
  /\ pc[w] \in Loading => mcp_tools = None
  /\ pc[w] \in {"connect", "describe"} =>
       \A a \in Range(adapters) : a.server < job[w].server
  /\ pc[w] = "adapt" => ToAdapt(w)
  /\ pc[w] = "publish" => ~HasDuplicate(job[w].tools)

NoneTwice ==
  /\ ~HasDuplicate(adapters) /\ NamesDoNotCollide
  /\ mcp_tools = None /\ (\A w \in Workers : pc[w] \notin Loading) => adapters = <<>>
  /\ \A w \in Workers : Alone(w)

LEMMA OneMore ==
  ASSUME NEW s \in Seq(Tools), NEW x \in Tools
  PROVE  /\ Len(s) \in Nat /\ DOMAIN s = 1 .. Len(s)
         /\ DOMAIN (s \o <<x>>) = 1 .. Len(s) + 1
         /\ \A k \in 1 .. Len(s) : (s \o <<x>>)[k] = s[k]
         /\ (s \o <<x>>)[Len(s) + 1] = x
  <1>1. <<x>> \in Seq(Tools) /\ Len(<<x>>) = 1 /\ <<x>>[1] = x
    OBVIOUS
  <1>2. QED
    BY <1>1, ConcatProperties, LenProperties

LEMMA RangeOfMore ==
  ASSUME NEW s \in Seq(Tools), NEW x \in Tools
  PROVE  \A a \in Range(s \o <<x>>) : a \in Range(s) \/ a = x
  <1> DEFINE r == s \o <<x>>
  <1>1. /\ Len(s) \in Nat /\ DOMAIN s = 1 .. Len(s)
        /\ DOMAIN r = 1 .. Len(s) + 1
        /\ \A k \in 1 .. Len(s) : r[k] = s[k]
        /\ r[Len(s) + 1] = x
    BY OneMore
  <1> HIDE DEF r
  <1>2. \A a \in Range(r) : a \in Range(s) \/ a = x
    BY <1>1 DEF Range
  <1>3. QED
    BY <1>2 DEF r

LEMMA MoreHasNone ==
  ASSUME NEW s \in Seq(Tools), NEW x \in Tools, ~HasDuplicate(s),
         \A a \in Range(s) : a.name # x.name
  PROVE  ~HasDuplicate(s \o <<x>>)
  <1> DEFINE r == s \o <<x>>
  <1>1. /\ Len(s) \in Nat /\ DOMAIN s = 1 .. Len(s)
        /\ DOMAIN r = 1 .. Len(s) + 1
        /\ \A k \in 1 .. Len(s) : r[k] = s[k]
        /\ r[Len(s) + 1] = x
    BY OneMore
  <1> HIDE DEF r
  <1>2. \A k \in 1 .. Len(s) : s[k].name # x.name
    BY <1>1 DEF Range
  <1>3. ASSUME NEW k \in DOMAIN r, NEW l \in DOMAIN r, k < l PROVE r[k].name # r[l].name
    <2>1. k \in 1 .. Len(s)
      BY <1>1, <1>3
    <2>2. CASE l = Len(s) + 1
      BY <1>1, <1>2, <2>1, <2>2
    <2>3. CASE l # Len(s) + 1
      <3>1. l \in 1 .. Len(s)
        BY <1>1, <2>3
      <3>2. QED
        BY <1>1, <1>3, <2>1, <3>1 DEF HasDuplicate
    <2>4. QED
      BY <2>2, <2>3
  <1>4. QED
    BY <1>3 DEF HasDuplicate, r

\* A step outside the load.
LEMMA OutsideNone ==
  ASSUME NoneTwice, NEW w \in Workers, UNCHANGED <<adapters, mcp_tools>>,
         pc[w] \notin Loading, pc'[w] \notin Loading,
         \A v \in Workers \ {w} : pc'[v] = pc[v] /\ job'[v] = job[v]
  PROVE  NoneTwice'
  <1>1. ASSUME NEW v \in Workers PROVE Alone(v)'
    <2>1. CASE v = w
      BY <2>1 DEF Alone, Loading
    <2>2. CASE v # w
      <3>1. pc'[v] = pc[v] /\ job'[v] = job[v] /\ Alone(v)
        BY <2>2 DEF NoneTwice
      <3>2. QED
        BY <3>1 DEF Alone, ToAdapt
    <2>3. QED
      BY <2>1, <2>2
  <1>2. (\A v \in Workers : pc'[v] \notin Loading) => \A v \in Workers : pc[v] \notin Loading
    OBVIOUS
  <1>3. QED
    BY <1>1, <1>2 DEF NoneTwice, NamesDoNotCollide, HasDuplicate

\* A step of the one load there is.
LEMMA InsideNone ==
  ASSUME NoneTwice, OneLoad', NEW w \in Workers, mcp_tools' = mcp_tools,
         pc'[w] \in Loading, ~HasDuplicate(adapters'), Alone(w)'
  PROVE  NoneTwice'
  <1>1. ASSUME NEW v \in Workers PROVE Alone(v)'
    <2>1. CASE v = w
      BY <2>1
    <2>2. CASE v # w
      <3>1. pc'[v] \notin Loading
        BY <2>2 DEF OneLoad
      <3>2. QED
        BY <3>1 DEF Alone, Loading
    <2>3. QED
      BY <2>1, <2>2
  <1>2. QED
    BY <1>1 DEF NoneTwice, NamesDoNotCollide

LEMMA LookNone ==
  ASSUME Inv, NoneTwice, OneLoad', NEW w \in Workers, LookForTools(w)
  PROVE  NoneTwice'
  <1>1. /\ pc \in [Workers -> Steps] /\ job \in [Workers -> Jobs]
        /\ pc[w] = "loaded" /\ adapters' = adapters /\ mcp_tools' = mcp_tools
    BY DEF Inv, TypeOK, LookForTools, At, shared
  <1>2. CASE mcp_tools # None /\ Goto(w, "extra") /\ UNCHANGED job
    <2>1. pc'[w] = "extra" /\ \A v \in Workers \ {w} : pc'[v] = pc[v] /\ job'[v] = job[v]
      BY <1>1, <1>2 DEF Goto
    <2>2. QED
      BY <1>1, <2>1, OutsideNone DEF Loading
  <1>3. CASE /\ mcp_tools = None
             /\ job' = [job EXCEPT ![w].server = 1]
             /\ Goto(w, "connect")
    <2>1. pc'[w] = "connect" /\ \A v \in Workers \ {w} : pc'[v] = pc[v]
      BY <1>1, <1>3 DEF Goto
    <2>2. \A v \in Workers : pc[v] \notin Loading
      BY <1>1, <2>1 DEF OneLoad, Loading
    <2>3. adapters' = <<>> /\ Range(adapters') = {}
      BY <1>1, <1>3, <2>2, NothingListed DEF NoneTwice
    <2>4. Alone(w)'
      BY <1>1, <1>3, <2>1, <2>3 DEF Alone
    <2>5. QED
      BY <1>1, <2>1, <2>3, <2>4, EmptyHasNone, InsideNone DEF Loading
  <1>4. QED
    BY <1>2, <1>3 DEF LookForTools

\* The server is done, or is passed over: its tools come before the next one's.
LEMMA AdvanceNone ==
  ASSUME Inv, NoneTwice, OneLoad', NEW w \in Workers, Skip(w) \/ NextServer(w)
  PROVE  NoneTwice'
  <1>1. /\ pc \in [Workers -> Steps] /\ job \in [Workers -> Jobs]
        /\ adapters \in Seq(Tools) /\ adapters' = adapters /\ mcp_tools' = mcp_tools
        /\ Alone(w)
    BY DEF Inv, TypeOK, Skip, NextServer, shared, NoneTwice
  <1>2. pc[w] \in {"connect", "adapt"} /\ pc'[w] = "connect"
    BY <1>1 DEF Skip, NextServer, At, Goto
  <1>3. job[w].server \in Nat /\ job'[w].server = job[w].server + 1
    <2>1. job[w] \in Jobs
      BY <1>1
    <2>2. job' = [job EXCEPT ![w].server = @ + 1]
      BY DEF Skip, NextServer
    <2>3. QED
      BY <1>1, <2>1, <2>2, ServersAre DEF Jobs
  <1>4. \A a \in Range(adapters) : a \in Tools /\ a.server \in Nat
    <2>1. Range(adapters) \subseteq Tools
      BY <1>1, RangeOfSeq
    <2>2. QED
      BY <2>1, ServersAre DEF Tools, AllowedOf
  <1>5. \A a \in Range(adapters) : a.server < job[w].server + 1
    <2>1. \A a \in Range(adapters) : a.server < job[w].server \/ a.server = job[w].server
      BY <1>1, <1>2 DEF Alone, ToAdapt
    <2>2. QED
      BY <1>3, <1>4, <2>1
  <1>6. Alone(w)'
    BY <1>1, <1>2, <1>3, <1>5 DEF Alone, Loading
  <1>7. QED
    BY <1>1, <1>2, <1>6, InsideNone DEF Loading, NoneTwice

LEMMA ConnectNone ==
  ASSUME Inv, NoneTwice, OneLoad', NEW w \in Workers, failures' = 0, Connect(w)
  PROVE  NoneTwice'
  <1>1. /\ pc \in [Workers -> Steps] /\ pc[w] = "connect" /\ Alone(w)
        /\ adapters' = adapters /\ mcp_tools' = mcp_tools /\ failures \in Nat
    BY DEF Inv, TypeOK, Connect, At, shared, NoneTwice
  <1>2. ~Fail(w)
    BY <1>1 DEF Fail
  <1>3. pc'[w] = "describe" /\ job' = job
    BY <1>1, <1>2 DEF Connect, Goto
  <1>4. Alone(w)'
    BY <1>1, <1>3 DEF Alone, Loading
  <1>5. QED
    BY <1>1, <1>3, <1>4, InsideNone DEF Loading, NoneTwice

\* The tools of a server are offered while those of earlier ones are there.
LEMMA DescribeNone ==
  ASSUME NamesDiffer, Inv, NoneTwice, OneLoad', NEW w \in Workers, failures' = 0,
         Describe(w)
  PROVE  NoneTwice'
  <1>1. /\ pc \in [Workers -> Steps] /\ job \in [Workers -> Jobs]
        /\ pc[w] = "describe" /\ Alone(w) /\ job[w].server \in Enabled
        /\ adapters' = adapters /\ mcp_tools' = mcp_tools /\ failures \in Nat
    BY DEF Inv, TypeOK, Describe, At, shared, NoneTwice, Passed
  <1>2. ~Fail(w)
    BY <1>1 DEF Fail
  <1>3. /\ pc'[w] = "adapt" /\ job'[w].server = job[w].server
        /\ job'[w].offers = Servers[job[w].server].offers
    <2>1. /\ job' = [job EXCEPT ![w].offers = Servers[job[w].server].offers]
          /\ pc' = [pc EXCEPT ![w] = "adapt"]
      BY <1>2 DEF Describe, Goto
    <2>2. job[w] \in Jobs
      BY <1>1
    <2>3. QED
      BY <1>1, <2>1, <2>2 DEF Jobs
  <1>4. ToAdapt(w)'
    <2>1. \A a \in Range(adapters) : a.server < job[w].server
      BY <1>1 DEF Alone
    <2>2. \A m, n \in DOMAIN Servers[job[w].server].offers :
            /\ m # n
            /\ {Servers[job[w].server].offers[m], Servers[job[w].server].offers[n]}
                 \subseteq Servers[job[w].server].allowed
            => PublicName(job[w].server, Servers[job[w].server].offers[m])
                 # PublicName(job[w].server, Servers[job[w].server].offers[n])
      BY <1>1 DEF NamesDiffer
    <2>3. QED
      BY <1>1, <1>3, <2>1, <2>2 DEF ToAdapt
  <1>5. Alone(w)'
    BY <1>1, <1>3, <1>4 DEF Alone, Loading
  <1>6. QED
    BY <1>1, <1>3, <1>5, InsideNone DEF Loading, NoneTwice

LEMMA CopyNone ==
  ASSUME Inv, NoneTwice, OneLoad', NEW w \in Workers, Copy(w)
  PROVE  NoneTwice'
  <1>1. /\ pc \in [Workers -> Steps] /\ job \in [Workers -> Jobs]
        /\ pc[w] = "connect" /\ Alone(w) /\ ~HasDuplicate(adapters)
        /\ adapters' = adapters /\ mcp_tools' = mcp_tools
    BY DEF Inv, TypeOK, Copy, At, shared, NoneTwice
  <1>2. pc'[w] = "publish" /\ job'[w].tools = adapters
    <2>1. job[w] \in Jobs
      BY <1>1
    <2>2. QED
      BY <1>1, <2>1 DEF Copy, Goto, Jobs
  <1>3. Alone(w)'
    BY <1>1, <1>2 DEF Alone, Loading
  <1>4. QED
    BY <1>1, <1>2, <1>3, InsideNone DEF Loading

LEMMA PublishNone ==
  ASSUME Inv, NoneTwice, OneLoad, NEW w \in Workers, Publish(w)
  PROVE  NoneTwice'
  <1>1. /\ pc \in [Workers -> Steps] /\ job \in [Workers -> Jobs]
        /\ pc[w] = "publish" /\ Alone(w)
        /\ adapters' = adapters /\ job' = job /\ mcp_tools' = job[w].tools
    BY DEF Inv, TypeOK, Publish, At, NoneTwice
  <1>2. mcp_tools' # None /\ ~HasDuplicate(mcp_tools')
    BY <1>1, NoneAssumption DEF Alone, Jobs
  <1>3. \A v \in Workers : pc'[v] \notin Loading
    BY <1>1 DEF Publish, Goto, OneLoad, Loading
  <1>4. \A v \in Workers : Alone(v)'
    BY <1>3 DEF Alone, Loading
  <1>5. QED
    BY <1>1, <1>2, <1>4 DEF NoneTwice, NamesDoNotCollide, HasDuplicate

\* The next tool of the server has a name of its own.
LEMMA AdaptNone ==
  ASSUME NamesDiffer, Inv, NoneTwice, OneLoad', NEW w \in Workers, Adapt(w)
  PROVE  NoneTwice'
  <1> DEFINE i == job[w].server
             s == job[w].offers
             x == [server |-> i, name |-> PublicName(i, Head(s))]
  <1>1. /\ pc \in [Workers -> Steps] /\ job \in [Workers -> Jobs]
        /\ adapters \in Seq(Tools) /\ ~HasDuplicate(adapters)
        /\ pc[w] = "adapt" /\ pc' = pc /\ mcp_tools' = mcp_tools
        /\ adapters' = adapters \o Adapter(i, Head(s))
        /\ Alone(w) /\ ToAdapt(w) /\ i \in Enabled
        /\ Range(s) \subseteq Range(Servers[i].offers)
        /\ s \in Seq(Offers) /\ s # <<>>
    <2>1. pc[w] = "adapt" /\ Alone(w) /\ Passed(w) /\ job[w] \in Jobs
      BY DEF Adapt, At, NoneTwice, Inv, TypeOK
    <2>2. ToAdapt(w) /\ i \in Enabled /\ Range(s) \subseteq Range(Servers[i].offers)
      BY <2>1 DEF Alone, Passed
    <2>3. QED
      BY <2>1, <2>2 DEF Inv, TypeOK, Adapt, NoneTwice, Jobs
  <1>2. job'[w].server = i /\ job'[w].offers = Tail(s)
    <2>1. job[w] \in Jobs
      BY <1>1
    <2>2. QED
      BY <1>1, <2>1 DEF Adapt, Jobs
  <1>3. /\ Head(s) = s[1] /\ Tail(s) \in Seq(Offers)
        /\ Len(s) \in Nat \ {0} /\ DOMAIN s = 1 .. Len(s)
        /\ DOMAIN Tail(s) = 1 .. Len(s) - 1
        /\ \A k \in 1 .. Len(s) - 1 : Tail(s)[k] = s[k + 1]
        /\ Head(s) \in Range(s)
    BY <1>1, HeadTailProperties, LenProperties, EmptySeq, HeadAndTail
  <1>4. \A k \in 1 .. Len(s) - 1 : k + 1 \in DOMAIN s /\ k + 1 # 1
    BY <1>3
  <1>5. \A m, n \in DOMAIN s :
          m # n /\ {s[m], s[n]} \subseteq Servers[i].allowed
            => PublicName(i, s[m]) # PublicName(i, s[n])
    BY <1>1 DEF ToAdapt
  <1>6. \A m, n \in DOMAIN Tail(s) :
          m # n /\ {Tail(s)[m], Tail(s)[n]} \subseteq Servers[i].allowed
            => PublicName(i, Tail(s)[m]) # PublicName(i, Tail(s)[n])
    <2>1. \A m, n \in DOMAIN Tail(s) : m # n => m + 1 # n + 1
      BY <1>3
    <2> HIDE DEF s, i
    <2>2. QED
      BY <1>3, <1>4, <1>5, <2>1
  <1>7. \A t \in Range(Tail(s)) : t \in Range(s)
    <2> HIDE DEF s
    <2>1. QED
      BY <1>3, <1>4 DEF Range
  <1>8. \A t \in Range(Tail(s)) :
          Head(s) \in Servers[i].allowed /\ t \in Servers[i].allowed
            => PublicName(i, Head(s)) # PublicName(i, t)
    <2>1. ASSUME NEW t \in Range(Tail(s)), Head(s) \in Servers[i].allowed,
                 t \in Servers[i].allowed
          PROVE  PublicName(i, Head(s)) # PublicName(i, t)
      <3>1. PICK k \in 1 .. Len(s) - 1 : t = Tail(s)[k]
        BY <1>3 DEF Range
      <3>2. t = s[k + 1] /\ k + 1 \in DOMAIN s /\ k + 1 # 1 /\ 1 \in DOMAIN s
        BY <1>3, <1>4, <3>1
      <3> HIDE DEF s, i
      <3>3. QED
        BY <1>3, <1>5, <2>1, <3>2
    <2>2. QED
      BY <2>1
  <1>9. \A a \in Range(adapters) :
          \/ a.server < i
          \/ a.server = i /\ \A t \in Range(s) \cap Servers[i].allowed :
                               a.name # PublicName(i, t)
    BY <1>1 DEF ToAdapt
  <1>10. CASE Head(s) \notin Servers[i].allowed
    <2>1. adapters' = adapters
      BY <1>1, <1>10, ConcatEmptySeq DEF Adapter
    <2>2. ToAdapt(w)'
      <3> HIDE DEF s, i
      <3>1. QED
        BY <1>2, <1>6, <1>7, <1>9, <2>1 DEF ToAdapt
    <2>3. Alone(w)'
      BY <1>1, <2>2 DEF Alone, Loading
    <2>4. QED
      BY <1>1, <2>1, <2>3, InsideNone DEF Loading
  <1>11. CASE Head(s) \in Servers[i].allowed
    <2>1. x \in AllowedOf(i) /\ x \in Tools
      <3>1. Head(s) \in Range(Servers[i].offers) \cap Servers[i].allowed
        BY <1>1, <1>3, <1>11
      <3>2. x \in AllowedOf(i)
        BY <3>1 DEF AllowedOf
      <3>3. QED
        BY <1>1, <3>2 DEF Tools
    <2>2. \A a \in Range(adapters) : a \in Tools
      BY <1>1, RangeOfSeq
    <2>3. ASSUME NEW a \in Range(adapters) PROVE a.name # x.name
      <3>1. CASE a.server = i
        <4>1. a.name # PublicName(i, Head(s)) \/ a.server < i
          BY <1>3, <1>9, <1>11
        <4>2. i \in 1 .. Len(Servers) /\ Len(Servers) \in Nat
          BY <1>1, ServersAre
        <4> HIDE DEF i
        <4>3. i \in Nat /\ ~(a.server < i)
          BY <3>1, <4>2
        <4>4. QED
          BY <4>1, <4>3
      <3>2. CASE a.server # i
        <4>1. PICK k \in Enabled : a \in AllowedOf(k)
          BY <2>2 DEF Tools
        <4>2. a.server = k
          BY <4>1 DEF AllowedOf
        <4>3. QED
          BY <1>1, <2>1, <3>2, <4>1, <4>2 DEF NamesDiffer
      <3>3. QED
        BY <3>1, <3>2
    <2>4. adapters' = adapters \o <<x>>
      BY <1>1, <1>11 DEF Adapter
    <2>5. x.server = i /\ x.name = PublicName(i, Head(s))
      OBVIOUS
    <2> HIDE DEF x
    <2>6. ~HasDuplicate(adapters')
      BY <1>1, <2>1, <2>3, <2>4, MoreHasNone
    <2>7. \A a \in Range(adapters') : a \in Range(adapters) \/ a = x
      <3>1. \A a \in Range(adapters \o <<x>>) : a \in Range(adapters) \/ a = x
        BY <1>1, <2>1, RangeOfMore
      <3>2. QED
        BY <2>4, <3>1
    <2>8. ToAdapt(w)'
      <3> HIDE DEF s, i
      <3>1. \A a \in Range(adapters') :
              \/ a.server < i
              \/ a.server = i /\ \A t \in Range(Tail(s)) \cap Servers[i].allowed :
                                   a.name # PublicName(i, t)
        BY <1>7, <1>8, <1>9, <1>11, <2>5, <2>7
      <3>2. QED
        BY <1>2, <1>6, <3>1 DEF ToAdapt
    <2>9. Alone(w)'
      BY <1>1, <2>8 DEF Alone, Loading
    <2>10. QED
      BY <1>1, <2>6, <2>9, InsideNone DEF Loading
  <1>12. QED
    BY <1>10, <1>11

LEMMA NextNone ==
  ASSUME NamesDiffer, Inv, NoneTwice, OneLoad, OneLoad', failures' = 0, [Next]_vars
  PROVE  NoneTwice'
  <1>1. pc \in [Workers -> Steps] /\ job \in [Workers -> Jobs]
    BY DEF Inv, TypeOK
  <1>2. ASSUME NEW w \in Workers,
               LookForGraph(w) \/ ReadTools(w) \/ Build(w)
                 \/ \E p \in Profiles : Request(w, p)
        PROVE  NoneTwice'
    <2>1. pc[w] \in {"idle", "cached", "extra", "build"} /\ UNCHANGED <<adapters, mcp_tools>>
      BY <1>2 DEF LookForGraph, ReadTools, Build, Request, At, shared
    <2>2. /\ pc'[w] \in {"idle", "cached", "loaded", "build"}
          /\ \A v \in Workers \ {w} : pc'[v] = pc[v] /\ job'[v] = job[v]
      <3>1. CASE LookForGraph(w)
        BY <1>1, <3>1 DEF LookForGraph, Leave, Goto
      <3>2. CASE ReadTools(w) \/ Build(w) \/ \E p \in Profiles : Request(w, p)
        BY <1>1, <3>2 DEF ReadTools, Build, Request, Leave, Goto
      <3>3. QED
        BY <1>2, <3>1, <3>2
    <2>3. pc[w] \notin Loading /\ pc'[w] \notin Loading
      BY <2>1, <2>2 DEF Loading
    <2>4. QED
      BY <2>1, <2>2, <2>3, OutsideNone
  <1>3. ASSUME NEW w \in Workers, Step(w) PROVE NoneTwice'
    <2>1. CASE LookForGraph(w) \/ ReadTools(w) \/ Build(w)
      BY <1>2, <2>1
    <2>2. CASE LookForTools(w) \/ Skip(w) \/ NextServer(w) \/ Connect(w)
      BY <2>2, LookNone, AdvanceNone, ConnectNone
    <2>3. CASE Describe(w) \/ Adapt(w) \/ Copy(w) \/ Publish(w)
      BY <2>3, DescribeNone, AdaptNone, CopyNone, PublishNone
    <2>4. QED
      BY <1>3, <2>1, <2>2, <2>3 DEF Step
  <1>4. CASE UNCHANGED vars
    <2>1. ASSUME NEW w \in Workers PROVE Alone(w)'
      <3>1. Alone(w)
        BY DEF NoneTwice
      <3>2. QED
        BY <1>4, <3>1 DEF Alone, ToAdapt, vars
    <2>2. QED
      BY <1>4, <2>1 DEF NoneTwice, NamesDoNotCollide, HasDuplicate, vars
  <1>5. QED
    BY <1>2, <1>3, <1>4 DEF Next

(* The premise of RetryLoads holds of loads that do not overlap and do not *)
(* fail: if the names of the configuration differ, overlapping or failed   *)
(* loads are the only way a name comes twice into the shared list.         *)
THEOREM LoadsDoNotCollide ==
  ASSUME NamesDiffer
  PROVE  Spec /\ []OneLoad /\ [](failures = 0) => []NamesDoNotCollide
  <1>1. Init => NoneTwice
    <2>1. SUFFICES ASSUME Init PROVE NoneTwice
      OBVIOUS
    <2>2. \A w \in Workers : Alone(w)
      BY <2>1 DEF Init, Alone, Loading
    <2>3. QED
      BY <2>1, <2>2, EmptyHasNone DEF Init, NoneTwice, NamesDoNotCollide
  <1>2. Inv /\ NoneTwice /\ OneLoad /\ OneLoad' /\ (failures = 0)' /\ [Next]_vars => NoneTwice'
    BY NextNone
  <1>3. NoneTwice => NamesDoNotCollide
    BY DEF NoneTwice
  <1>4. QED
    BY <1>1, <1>2, <1>3, InvHolds, PTL DEF Spec

(* No request that has come to build a graph is refused it (catalog_build   *)
(* raises for a name it already has) if the names of the configuration      *)
(* differ and loads neither overlap nor fail: what is adapted, copied,      *)
(* published and read back by other requests then has no name twice.        *)
THEOREM BuildsDoSucceed ==
  ASSUME NamesDiffer
  PROVE  Spec /\ []OneLoad /\ [](failures = 0) => []BuildsSucceed
  BY LoadsDoNotCollide, BuildsFollow, PTL
=============================================================================
