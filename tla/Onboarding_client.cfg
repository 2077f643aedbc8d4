\* One conversation that gives a client key, two requests, every fault.
SPECIFICATION Spec
CONSTANTS
  k1 = k1
  k2 = k2
  t1 = t1
  t2 = t2
  p1 = p1
  p2 = p2
  found = found
  other = other
  nothing = nothing
  None = None
  Keys = {k1}
  Threads = {t1}
  Procs = {p1, p2}
  Worlds = {found, nothing}
  GroundedWorlds = {found}
  KeyOf <- MCClientKey
  Faults = {"expiry", "refusal", "crash"}
INVARIANT TablesAgree
INVARIANT ProvisionExclusive
PROPERTY OutcomeStays
PROPERTY KeepsBoundary
