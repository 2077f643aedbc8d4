\* Requests one at a time, evidence that changes before the resumption.
SPECIFICATION FairSpec
CONSTANTS
  k1 = k1
  k2 = k2
  t1 = t1
  t2 = t2
  p1 = p1
  p2 = p2
  found = found
  other = other
  nothing = nothing
  None = None
  Keys = {k1, k2}
  Threads = {t1}
  Procs = {p1}
  Worlds = {found, other}
  GroundedWorlds = {found, other}
  KeyOf <- MCDerivedKey
  Faults = {}
PROPERTY ApprovedIsProvisioned
