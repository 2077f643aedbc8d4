\* Two requests at once, two servers that fail.
SPECIFICATION FairSpec
CONSTANTS
  w1 = w1
  w2 = w2
  core = core
  mcp = mcp
  full = full
  None = None
  Workers = {w1, w2}
  Profiles = {core, mcp, full}
  MCPProfiles = {mcp, full}
  Servers <- MCExternal
  Faults = {"refused", "silent"}
  MaxFailures = 2
INVARIANT GraphsAreComplete
PROPERTY RetryLoads
