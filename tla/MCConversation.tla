--------------------------- MODULE MCConversation ---------------------------
(* Small instances of Conversation for TLC.                                *)
EXTENDS Conversation

CONSTANTS w1, w2, core, full
=============================================================================
