\* Two principals, one thread, two requests and set-ups that overlap.
SPECIFICATION FairSpec
CONSTANTS
  ann = ann
  rae = rae
  core = core
  rag = rag
  s1 = s1
  u1 = u1
  u2 = u2
  w1 = w1
  w2 = w2
  x1 = x1
  x2 = x2
  None = None
  Principals = {ann, rae}
  Memberships <- MCMemberships
  Profiles = {rag}
  Needs <- MCNeeds
  Threads = {t1}
  Transfers = {x1, x2}
  Sessions = {s1}
  Workers = {w1, w2}
  Setups = {u1, u2}
  Scenes <- MCScenes
INVARIANT WorksInOwnRight
INVARIANT OneCredential
INVARIANT SeededHasCredential
INVARIANT ThreadsAreOwned
PROPERTY RightsFade
PROPERTY RevocationEnds
PROPERTY ApprovedIsResumed
