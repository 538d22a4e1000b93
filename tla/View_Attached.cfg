SPECIFICATION FairSpec
CONSTANTS
  StatusBar = TRUE
  MinBarHeight = 3
  Capacity = 2
  ScrollbackLimit = 2
  MaxRows = 3
  Plans <- MCPlans
INVARIANTS HostInStep KeysInOrder SizeAgreed
PROPERTY LatestShown
CHECK_DEADLOCK FALSE
