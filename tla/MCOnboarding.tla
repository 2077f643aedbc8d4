---------------------------- MODULE MCOnboarding ----------------------------
(* Small instances of Onboarding for TLC.                                  *)
EXTENDS Onboarding

CONSTANTS k1, k2, t1, t2, p1, p2, found, other, nothing

\* One conversation, whose key changes with the evidence found.
MCDerivedKey == [tw \in Threads \X Worlds |-> IF tw[2] = found THEN k1 ELSE k2]

\* Every conversation gives the same client key.
MCClientKey == [tw \in Threads \X Worlds |-> k1]
=============================================================================
