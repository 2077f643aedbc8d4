------------------------------ MODULE MCAccess ------------------------------
(* A small instance of Access for TLC.                                     *)
EXTENDS Access

CONSTANTS ann, rae, core, rag, u1, u2, w1, w2, x1, x2

\* Set-ups give ann all a transfer takes, or not the scope to ask for one, or
\* not the scope of the profile; rae reviews.
MCMemberships ==
  [p \in Principals |->
    IF p = ann
    THEN [roles: {{"requester"}},
          scopes: {{"agent:chat", "circle:transfer:request", "policy:read"},
                   {"agent:chat", "memory:write", "policy:read"},
                   {"agent:chat", "circle:transfer:request"}}]
    ELSE {[roles |-> {"reviewer"},
           scopes |-> {"agent:chat", "policy:read", "circle:approval:decide"}]}]

\* The server beside one set-up: at most two requests at a time.
Server(crew, calls, slots, faults) ==
  [crew |-> {u1} \cup crew, orderly |-> TRUE, calls |-> calls,
   slots |-> slots, faults |-> faults]

\* Set-ups among themselves; or beside one set-up a transfer, messages and
\* decisions; the same with two transfers, one request at a time and requests
\* that are lost; threads and their rows; and sessions and rights.
MCScenes ==
  [crew: {{u1, u2}}, orderly: BOOLEAN, calls: {{}}, slots: {{}},
   faults: {{"stop"}}]
  \cup {Server({w1, w2}, {"messages", "decisions"}, {x1}, {}),
        Server({w1}, {"messages", "decisions"}, {x1, x2}, {"loss"}),
        Server({w1, w2}, {"messages", "threads", "memories"}, {}, {}),
        Server({w1, w2}, {"sessions", "threads"}, {}, {"loss"})}

MCNeeds == [f \in Profiles |-> IF f = core THEN {} ELSE {"policy:read"}]
===========================================================================
