\* Two threads that ask for one transfer, two concurrent requests, no crash.
SPECIFICATION FairSpec
CONSTANTS
  k1 = k1
  k2 = k2
  t1 = t1
  t2 = t2
  p1 = p1
  p2 = p2
  clear = clear
  denied = denied
  None = None
  Keys = {k1}
  Threads = {t1, t2}
  Procs = {p1, p2}
  Asks <- MCSharedKey
  Cost <- MCCost
  OpeningBalance = 2
  Worlds = {clear}
  ClearWorlds = {clear}
  GroundedWorlds = {clear}
  Changes = {}
  Faults = {"expiry", "provider"}
INVARIANT ClaimExclusive
INVARIANT EffectApproved
INVARIANT PaidUnderClaim
INVARIANT NeverPaidTwice
PROPERTY ProposalImmutable
PROPERTY DecidedOnce
PROPERTY KeepsBoundary
PROPERTY ClaimedIsReported
 
