\* Four unit-weight validators, then a4 leaves: a decided epoch waiting in
\* the queue is voted on again under the smaller set and its round aborts.
CONSTANTS
  a1 = a1  a2 = a2  a3 = a3  a4 = a4
  h1 = h1  h2 = h2
  Addrs = {a1, a2, a3, a4}
  Hashes = {h1, h2}
  NoHash = NoHash
  Memberships <- MembershipsShrink
  GenesisEpoch = 10
  CronPeriod = 5
  MaxRound = 3
  MaxMembershipChanges = 2
SPECIFICATION Spec
SYMMETRY SymmShrink
PROPERTY OrderedSpec
