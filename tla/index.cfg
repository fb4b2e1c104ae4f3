SPECIFICATION Spec
CONSTANTS
  Versions = {1, 2}
  Ttl = 2
  Skews <- SkewsOne
  Policy = "Required"
  None = None
  MaxTime = 4
INVARIANTS YankReaches CachedIsFresh UnknownIsMissing
CHECK_DEADLOCK FALSE
