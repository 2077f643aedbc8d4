---------------------------- MODULE MCToolLoading ----------------------------
(* Small instances of ToolLoading for TLC, after the mcp_servers files.    *)
EXTENDS ToolLoading

CONSTANTS w1, w2, core, mcp, full

\* The bundled server; it also offers a tool that is not allowed.
Risk == [name |-> <<"circle", "risk">>, enabled |-> TRUE,
         offers |-> <<<<"validate">>, <<"internal">>, <<"screen">>>>,
         allowed |-> {<<"validate">>, <<"screen">>, <<"absent">>},
         profiles |-> {core, mcp, full}]

\* The external documentation server, listed for one profile.
Docs == [name |-> <<"circle", "docs">>, enabled |-> TRUE,
         offers |-> <<<<"search">>>>, allowed |-> {<<"search">>},
         profiles |-> {full}]

Off == [Docs EXCEPT !.enabled = FALSE]

MCExternal == <<Off, Risk, Docs>>
=============================================================================
