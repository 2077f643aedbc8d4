\* Every document of up to six lines, some longer than a chunk.
SPECIFICATION Spec
CONSTANTS
  MaxLines = 6
  Lengths = {0, 1, 3, 5, 7}
  MaxChars = 6
  Overlap = 2
INVARIANT NothingLost
INVARIANT WindowsFollow
INVARIANT SizeBounded
CHECK_DEADLOCK FALSE
