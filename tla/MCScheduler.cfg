SPECIFICATION FairSpec
CONSTANTS
  decide = decide
  change = change
  Events <- MCEvents
  FollowUps <- MCFollowUps
  Delays = {0, 2}
  Times <- MCTimes
  Minute = 2
  Day = 2
  MaxTime = 9
  ListBound = 2
INVARIANTS
  StatOfToday
PROPERTIES
  DeliversOnce
  BlocksEnd
