SPECIFICATION FairSpec
CONSTANTS
  SyncCall = {s1}
  AsyncCall = {a1, a2}
  NoCall = NoCall
  Limit = 3
  Interval = 2
  Work = 7
INVARIANTS TwoAllowances OwnAllowance
PROPERTIES CallsEnd
CHECK_DEADLOCK FALSE
