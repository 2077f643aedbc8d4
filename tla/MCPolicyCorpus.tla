--------------------------- MODULE MCPolicyCorpus ---------------------------
(* Small instances of PolicyCorpus for TLC.                                *)
EXTENDS PolicyCorpus

CONSTANTS o1, p, w1, w2, reworded, longer, a1, seed, k1

\* Rewording an old text need not change its score; a longer one adds a chunk,
\* and its second chunk is about something else.
MCScores == [c \in Contents |-> IF c = longer THEN <<3, 0, 1>> ELSE <<2>>]

\* Source p in version w1:w2 and source p:w1 in version w2 have one identifier,
\* version w2 of p has another; one document is for everybody.
MCSources == <<<<p>>, <<p, w1>>>>
MCVersions == {<<w1, w2>>, <<w2>>}
MCUploads == {<<o1, 1, <<w1, w2>>>>, <<o1, 2, <<w2>>>>, <<o1, 1, <<w2>>>>,
              <<Global, 1, <<w2>>>>}
MCOneAuthor == [n \in Organizations \cup {Global} |-> IF n = Global THEN {seed} ELSE {a1}]
MCOneAsker == [k \in Keys |-> o1]
=============================================================================
