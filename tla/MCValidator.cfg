SPECIFICATION Spec
CONSTANTS
  None = None
  Users = {u1, u2, u3}
  Keys = {u1, u2, u3}
  KeysOf <- OwnKeys
  GenesisValidators = {u1, u2, u3}
  Funds = 5
  Amounts = {1, 2}
  StakeAmounts = {3}
  MaxCoin = 1000
  GenesisParam <- MCTwo
  ParamSteps <- Lower
  MinVoting = 3
  MinWithdraw = 1
  MinStakeIn = 1
  AbsentLimit = 1
  PenaltyByzantine = 1
  PenaltyMissCommit = 1
  PenaltyMissVote = 2
  MaxEvidence = 1
SYMMETRY Symmetry
INVARIANTS
  NeverHalts
  BondedIffListed
  TopDeposits
  TendermintAgrees
  OffendersPunished
  CoinsConserved
