SPECIFICATION Spec
CONSTANTS
  alice = alice
  bob = bob
  p1 = p1
  p2 = p2
  p3 = p3
  Users = {alice, bob}
  Posts = {p1, p2, p3}
  Donations <- MCDonations
  Reports <- MCReports
  Locks <- MCLocks
  InitialScore = 4
  KeyPrice = 3
  MaxKeys = 3
  Guesses <- MCGuesses
  Window = 2
  Best = 2
  Duration = 1
  Interval = 1
  MaxStake = 0
  MaxLocked = 1400
  MaxFree = 2
  MaxTime = 2
INVARIANTS
  FreeScoreIsLocked
