\* One request at a time: a reply hides behind the final text of an earlier turn.
SPECIFICATION Spec
CONSTANTS
  w1 = w1
  w2 = w2
  core = core
  full = full
  None = None
  Workers = {w1}
  Profiles = {core, full}
  MaxRuns = 2
  Bound = TRUE
INVARIANT RepliesWithOwn
