------------------------- MODULE MCCircleTransfer -------------------------
(* Small instances of CircleTransfer for TLC.                              *)
EXTENDS CircleTransfer, TLC

CONSTANTS k1, k2, t1, t2, p1, p2, clear, denied

\* Two transfers of one conversation, or of two.
MCOneThread == {<<t1, k1>>, <<t1, k2>>}
MCTwoThreads == {<<t1, k1>>, <<t2, k2>>}
MCSharedKey == {<<t1, k1>>, <<t2, k1>>}

\* With one cost for all, requests and transfers are interchangeable.
AllSymmetry == Permutations(Procs) \cup Permutations(Keys)
MCUnitCost == [k \in Keys |-> 1]

\* The rules of screening become stricter while transfers are under way.
MCStricter == {<<clear, denied>>}

\* Either transfer can be paid; both only from a balance of 3.
MCCost == [k \in Keys |-> IF k = k1 THEN 1 ELSE 2]
===========================================================================
