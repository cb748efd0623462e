SPECIFICATION VoteSpec
CONSTANTS
  u1 = u1
  u2 = u2
  Users <- MCUsers
  GenesisStake <- MCGenesisStake
  MinDeposit = 1
  Funds = 1
  Amounts = {1}
  MinStakeIn = 1
  Frictions = {3}
  MaxToSelf = 1
  MaxDonated = 3
  MaxDay = 2
INVARIANTS
  VoteTypeOK
  StakeToPay
  CoinsConserved
  FairShare
  DelegationsAgree
PROPERTY
  ValidatorsKeepStake
