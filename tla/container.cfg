SPECIFICATION FairSpec
CONSTANTS
  i1 = i1
  i2 = i2
  pull = pull
  hop = hop
  a = a
  b = b
  Process = {i1, i2}
  Stage = {pull, hop}
  Deployments <- MCDeployments
  Topic = {a, b}
  None = None
  DefaultPartitions = 1
  MaxPartitions = 2
  MaxFaults = 2
INVARIANTS TypeOK EndpointServes CoHostedAgree ChangelogMatches LeavesNoClientOpen
PROPERTIES ComesUp
