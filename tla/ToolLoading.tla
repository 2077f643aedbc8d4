----------------------------- MODULE ToolLoading -----------------------------
(***************************************************************************)
(* How a request gets the graph of its profile: graph_get builds each graph *)
(* once per process, and the first profile with MCP makes the gateway       *)
(* connect to every enabled server and adapt the tools it allows.          *)
(*                                                                         *)
(* graphs, mcp_tools and the gateway's adapters are plain attributes that   *)
(* all request threads share.  Nothing locks them, and load both fills the *)
(* shared list and returns a copy of it, so a load that fails or overlaps   *)
(* leaves its tools to the next one.  A step is a network call or an access *)
(* to one of these attributes.                                             *)
(*                                                                         *)
(* The servers and what they offer are outside the repository.  The tools   *)
(* of the project itself have other names and are in every graph; they are  *)
(* left out.                                                               *)
(***************************************************************************)
EXTENDS Naturals, Sequences, Functions

CONSTANTS
  Workers,     \* request threads of the HTTP server
  Profiles,    \* capability profiles that are asked for
  MCPProfiles, \* those with the MCP capability
  Servers,     \* mcp_servers.json, with the tools each server offers
  Faults,      \* how a connection may fail in this instance
  MaxFailures, \* bound on the failures
  None         \* not built, not loaded

ASSUME LoadingAssumption ==
  /\ MCPProfiles \subseteq Profiles
  /\ Servers \in Seq(Range(Servers))
  /\ \A i \in DOMAIN Servers :
       /\ {"name", "enabled", "offers", "allowed", "profiles"} = DOMAIN Servers[i]
       /\ Servers[i].enabled \in BOOLEAN
       /\ Servers[i].offers \in Seq(Range(Servers[i].offers))
       /\ Servers[i].profiles \subseteq Profiles
  /\ Faults \subseteq {"refused", "silent"}
  /\ MaxFailures \in Nat

VARIABLES
  graphs,    \* graphs[p]: tools of the cached graph of profile p
  mcp_tools, \* the application's list of adapted tools
  adapters,  \* the gateway's list, filled while loading
  failures,  \* failures so far
  pc,        \* pc[w]: the next step of request w
  job        \* job[w]: the local variables of request w

shared == <<graphs, mcp_tools, adapters>>
vars   == <<graphs, mcp_tools, adapters, failures, pc, job>>

Enabled == {i \in DOMAIN Servers : Servers[i].enabled}

\* mcp_<server>_<tool>, as the words between its separators; a hyphen in the
\* name of a server is one.
PublicName(s, t) == Servers[s].name \o t

\* The tools of the i-th server that the configuration allows.
AllowedOf(i) ==
  {[server |-> i, name |-> PublicName(i, t)] :
     t \in Range(Servers[i].offers) \cap Servers[i].allowed}

Tools == UNION {AllowedOf(i) : i \in Enabled}

\* A list that is not loaded is told apart from every list.
ASSUME NoneAssumption == None \notin Seq(Tools)

\* ToolCatalog.register refuses a name that is already there.
HasDuplicate(tools) ==
  \E i, j \in DOMAIN tools : i < j /\ tools[i].name = tools[j].name

\* Variant: the prefix of a name is compared and not the whole of it.
CatalogBuildsByServer(tools) ==
  ~\E i, j \in DOMAIN tools : i < j /\ tools[i].server = tools[j].server

\* catalog_build registers tool after tool and raises with the first refused.
CatalogBuilds(tools) == ~HasDuplicate(tools)

\* Variant: every tool that is registered goes to every profile.
EveryTool(p, tools) == Range(tools)

\* ToolCatalog.tools: what is registered for a profile.
ToolsOf(p, tools) == {t \in Range(tools) : p \in Servers[t.server].profiles}

\* profile_get: the MCP flag of a profile.
HasMCP(p) == p \in MCPProfiles

Steps == {"idle", "cached", "loaded", "connect", "describe", "adapt", "publish",
          "extra", "build"}
Offers == UNION {Range(Servers[i].offers) : i \in DOMAIN Servers}
Jobs == [profile : Profiles \cup {None}, server : 0 .. Len(Servers) + 1,
         offers : Seq(Offers), tools : Seq(Tools)]
NoJob == [profile |-> None, server |-> 0, offers |-> <<>>, tools |-> <<>>]

Init ==
  /\ graphs = [p \in Profiles |-> None]
  /\ mcp_tools = None
  /\ adapters = <<>>
  /\ failures = 0
  /\ pc = [w \in Workers |-> "idle"]
  /\ job = [w \in Workers |-> NoJob]

-----------------------------------------------------------------------------
At(w, step) == pc[w] = step
Goto(w, step) == pc' = [pc EXCEPT ![w] = step]
Leave(w) == Goto(w, "idle") /\ job' = [job EXCEPT ![w] = NoJob]

\* A message or an approved action needs the graph of its thread's profile.
Request(w, p) ==
  /\ At(w, "idle")
  /\ job' = [job EXCEPT ![w] = [NoJob EXCEPT !.profile = p]]
  /\ Goto(w, "cached")
  /\ UNCHANGED <<shared, failures>>

\* profile not in self.graphs
LookForGraph(w) ==
  LET p == job[w].profile IN
  /\ At(w, "cached")
  /\ \/ graphs[p] # None /\ Leave(w)
     \/ graphs[p] = None /\ HasMCP(p) /\ Goto(w, "loaded") /\ UNCHANGED job
     \/ graphs[p] = None /\ ~HasMCP(p) /\ Goto(w, "build") /\ UNCHANGED job
  /\ UNCHANGED <<shared, failures>>

\* self.mcp_tools is None
LookForTools(w) ==
  /\ At(w, "loaded")
  /\ \/ mcp_tools # None /\ Goto(w, "extra") /\ UNCHANGED job
     \/ /\ mcp_tools = None
        /\ job' = [job EXCEPT ![w].server = 1]
        /\ Goto(w, "connect")
  /\ UNCHANGED <<shared, failures>>

-----------------------------------------------------------------------------
(* MCPGateway.load.                                                        *)

\* An exception of the client ends the request.
Fail(w) ==
  /\ failures < MaxFailures
  /\ failures' = failures + 1
  /\ Leave(w)

\* A server that is not enabled is passed over.
Skip(w) ==
  /\ At(w, "connect") /\ job[w].server \in DOMAIN Servers \ Enabled
  /\ job' = [job EXCEPT ![w].server = @ + 1]
  /\ UNCHANGED <<shared, failures, pc>>

\* MCPToolClient.__init__ starts a session and waits for it.
Connect(w) ==
  /\ At(w, "connect") /\ job[w].server \in Enabled
  /\ \/ Goto(w, "describe") /\ UNCHANGED <<failures, job>>
     \/ "refused" \in Faults /\ Fail(w)
  /\ UNCHANGED shared

\* describe_tools lists what the server offers.
Describe(w) ==
  /\ At(w, "describe")
  /\ \/ /\ job' = [job EXCEPT ![w].offers = Servers[job[w].server].offers]
        /\ Goto(w, "adapt")
        /\ UNCHANGED failures
     \/ "silent" \in Faults /\ Fail(w)
  /\ UNCHANGED shared

\* The tool if the configuration allows it.
Adapter(i, t) ==
  IF t \in Servers[i].allowed THEN <<[server |-> i, name |-> PublicName(i, t)]>>
                              ELSE <<>>

\* tool_adapter for one tool of the server.
Adapt(w) ==
  /\ At(w, "adapt") /\ job[w].offers # <<>>
  /\ adapters' = adapters \o Adapter(job[w].server, Head(job[w].offers))
  /\ job' = [job EXCEPT ![w].offers = Tail(@)]
  /\ UNCHANGED <<graphs, mcp_tools, failures, pc>>

NextServer(w) ==
  /\ At(w, "adapt") /\ job[w].offers = <<>>
  /\ job' = [job EXCEPT ![w].server = @ + 1]
  /\ Goto(w, "connect")
  /\ UNCHANGED <<shared, failures>>

\* list(self.adapters): whatever any load has put there.
Copy(w) ==
  /\ At(w, "connect") /\ job[w].server > Len(Servers)
  /\ job' = [job EXCEPT ![w].tools = adapters]
  /\ Goto(w, "publish")
  /\ UNCHANGED <<shared, failures>>

-----------------------------------------------------------------------------
(* Back in graph_get.                                                      *)

Publish(w) ==
  /\ At(w, "publish")
  /\ mcp_tools' = job[w].tools
  /\ Goto(w, "extra")
  /\ UNCHANGED <<graphs, adapters, failures, job>>

\* extra_tools is the application's list, which another request may have set.
ReadTools(w) ==
  /\ At(w, "extra")
  /\ job' = [job EXCEPT ![w].tools = mcp_tools]
  /\ Goto(w, "build")
  /\ UNCHANGED <<shared, failures>>

\* build_agent: catalog_build raises for a name it already has.
Build(w) ==
  LET p == job[w].profile
      tools == job[w].tools IN
  /\ At(w, "build")
  /\ graphs' = IF CatalogBuilds(tools) THEN [graphs EXCEPT ![p] = ToolsOf(p, tools)]
                                       ELSE graphs
  /\ Leave(w)
  /\ UNCHANGED <<mcp_tools, adapters, failures>>

Step(w) ==
  \/ LookForGraph(w) \/ LookForTools(w)
  \/ Skip(w) \/ Connect(w) \/ Describe(w) \/ Adapt(w) \/ NextServer(w)
  \/ Copy(w) \/ Publish(w) \/ ReadTools(w) \/ Build(w)

Next == \E w \in Workers : Step(w) \/ \E p \in Profiles : Request(w, p)

Spec == Init /\ [][Next]_vars

-----------------------------------------------------------------------------
(* Safety.                                                                 *)

\* Attributes and local variables have their types.
TypeOK ==
  /\ graphs \in [Profiles -> (SUBSET Tools) \cup {None}]
  /\ mcp_tools \in Seq(Tools) \cup {None}
  /\ adapters \in Seq(Tools)
  /\ failures \in 0 .. MaxFailures
  /\ pc \in [Workers -> Steps]
  /\ job \in [Workers -> Jobs]
  /\ \A w \in Workers : job[w].offers # <<>> => job[w].server \in Enabled

\* A cached graph has exactly the allowed tools of the enabled servers that
\* list its profile: none is missing after a load failed half-way or while
\* another is filling the shared list, and none is there that the profile or
\* the configuration excludes.
GraphsAreComplete ==
  \A p \in Profiles : graphs[p] # None =>
    graphs[p] = IF HasMCP(p)
                THEN {t \in Tools : p \in Servers[t.server].profiles} ELSE {}

-----------------------------------------------------------------------------
(* Liveness.                                                               *)

\* A request thread that has been started is scheduled until it answers.
FairSpec == Spec /\ \A w \in Workers : WF_vars(Step(w))

Asked(p) == \E w \in Workers : At(w, "cached") /\ job[w].profile = p

\* The shared list holds no name twice.
NamesDoNotCollide == mcp_tools # None => ~HasDuplicate(mcp_tools)

\* Once servers stop failing, a profile that is asked for again and again has
\* its graph, unless loads that overlapped or failed half-way have left a name
\* twice in the shared list: nothing else spoils the next load.
RetryLoads ==
  []NamesDoNotCollide => \A p \in Profiles : []<>Asked(p) => <>(graphs[p] # None)
=============================================================================
