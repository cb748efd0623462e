SPECIFICATION Spec
CONSTANTS
  alice = alice
  bob = bob
  Users = {alice, bob}
  Providers <- MCProviders
  Oncalls <- MCOncalls
  Allocations <- MCAllocations
  Genesis <- MCGenesis
  Whole = 1000
  Floor = 30
  Ceiling = 98
  Precision = 1000
  Hour = 1
  Month = 1
  Year = 2
  Funds = 200
  MinDeposit = 2
  Fee = 1
  Usages = {1, 2}
  Amounts = {1, 20, 21}
  MaxBetween = 4
  MaxMinutes = 4
INVARIANTS
  TypeOK
PROPERTIES
  CoinsConserved
  FairMonth
CHECK_DEADLOCK FALSE
