SPECIFICATION BankSpec
CONSTANTS
  alice = alice
  bob = bob
  Users = {alice, bob}
  Genesis <- MCGenesis
  GenesisElsewhere = 1
  Amounts = {1, 2}
  MinimumBalance = 0
  RegisterFee = 1
  FullLimit = 1
  Friction <- MCFriction
  Interval = 2
  Recover = 4
  MaxTime = 6
INVARIANTS
  QueueAgrees
  CoinDayBacked
  CoinsConserved
PROPERTY
  OnlyMergedIdle
CHECK_DEADLOCK FALSE
