SPECIFICATION Spec
CONSTANTS
  user = user
  developer = developer
  r1 = r1
  t1 = t1
  t2 = t2
  a1 = a1
  a2 = a2
  Users = {user, developer}
  Developers = {developer}
  ResetKeys = {r1}
  TransactionKeys = {t1, t2}
  AppKeys = {a1, a2, t2}
  FirstKeys <- MCFirstKeys
  Periods = {1}
  Amounts = {1, 2}
  CoinDays = {1}
  VirtualCoin = 1
  Costs = {1}
  Recovery = 1
  FirstCapacity = 1
  MaxMessages = 2
  MaxSequence <- MCSequences
  MaxTime = 2
INVARIANTS
  OnlyEntitled
  SpendsWithinGrant
PROPERTIES
  NoReplay
CHECK_DEADLOCK FALSE
