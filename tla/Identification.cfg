SPECIFICATION Spec
CONSTANTS
  PrefixLen = 1
  MaxLine = 5
  Ids <- MCIds
CHECK_DEADLOCK FALSE
INVARIANTS BothHashTheSame RefusedForCause ParsersAgree VersionIsRead
