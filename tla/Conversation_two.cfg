\* Two requests at a time or one, any of which may be lost.
SPECIFICATION Spec
CONSTANTS
  w1 = w1
  w2 = w2
  core = core
  full = full
  None = None
  Workers = {w1, w2}
  Profiles = {core, full}
  MaxRuns = 3
  Bound = FALSE
INVARIANT OneProfile
INVARIANT AnsweredIsAsked
INVARIANT TurnsAreWhole
INVARIANT RepliesWithOwn
PROPERTY ConversationKept
