\* Four unit-weight validators, two competing checkpoints, three cron epochs.
CONSTANTS
  a1 = a1  a2 = a2  a3 = a3  a4 = a4
  h1 = h1  h2 = h2
  Addrs = {a1, a2, a3, a4}
  Hashes = {h1, h2}
  NoHash = NoHash
  Memberships <- MembershipsUnitFour
  GenesisEpoch = 10
  CronPeriod = 5
  MaxRound = 3
  MaxMembershipChanges = 1
SPECIFICATION Spec
SYMMETRY Symm
INVARIANT TypeOK
INVARIANT ExecutedHasSupermajority
INVARIANT TallyMatchesBallots
PROPERTY OrderedSpec
