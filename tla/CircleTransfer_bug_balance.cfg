\* Two executions on one wallet at once: the balance.
SPECIFICATION Spec
CONSTANTS
  k1 = k1
  k2 = k2
  t1 = t1
  t2 = t2
  p1 = p1
  p2 = p2
  clear = clear
  denied = denied
  None = None
  Keys = {k1, k2}
  Threads = {t1, t2}
  Procs = {p1, p2}
  Asks <- MCTwoThreads
  Cost <- MCCost
  OpeningBalance = 3
  Worlds = {clear}
  ClearWorlds = {clear}
  GroundedWorlds = {clear}
  Changes = {}
  Faults = {}
INVARIANT BalanceAccurate
