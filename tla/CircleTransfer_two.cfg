\* Two transfers of one conversation and one wallet, two concurrent
\* requests, crashes, store errors and screening that comes to deny.
SPECIFICATION Spec
CONSTANTS
  k1 = k1
  k2 = k2
  t1 = t1
  t2 = t2
  p1 = p1
  p2 = p2
  clear = clear
  denied = denied
  None = None
  Keys = {k1, k2}
  Threads = {t1}
  Procs = {p1, p2}
  Asks <- MCOneThread
  Cost <- MCUnitCost
  OpeningBalance = 1
  Worlds = {clear, denied}
  ClearWorlds = {clear}
  GroundedWorlds = {clear, denied}
  Changes <- MCStricter
  Faults = {"crash", "store"}
SYMMETRY AllSymmetry
INVARIANT TypeOK
INVARIANT NeverOvercharged
INVARIANT ReviewedIsPermitted
