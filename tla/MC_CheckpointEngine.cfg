CONSTANTS
  s1 = s1
  SubnetActors = {s1}
  MinStake = 2
  Amounts = {1, 2}
  None = None
  MaxStake = 3
  CheckPeriod = 2
  Epochs = {2, 4}
  MaxEpoch = 3
  MaxChecks = 2
  MaxSupply = 2
  Releases = {1}
SPECIFICATION Spec
INVARIANTS TypeOK LatestCommitRecorded
