SPECIFICATION FairSpec
CONSTANTS
  alice = alice
  bob = bob
  p1 = p1
  p2 = p2
  p3 = p3
  None = None
  Users = {alice, bob}
  Links <- MCLinks
  Splits = {2}
  Penalties = {0, 2}
  Whole = 4
  Funds = 3
  Amounts = {3}
  Values = {0, 1, 2}
  Friction = 1
  Freezing = 1
  Interval = 1
  Inflow = 3
  Precision = 10000000
  MaxPending = 3
  MaxTime = 3
INVARIANTS
  WindowIsPending
  SourcesAreRoots
  CoinsConserved
PROPERTIES
  DeletedEarnsNothing
  RewardsSettle
CHECK_DEADLOCK FALSE
