SPECIFICATION FairSpec
CONSTANTS
  i1 = i1
  i2 = i2
  c1 = c1
  c2 = c2
  k1 = k1
  k2 = k2
  t1 = t1
  t2 = t2
  Instance = {i1, i2}
  Config = {c1, c2}
  StateKey = {k1, k2}
  Partition = {t1}
  KeyOf <- OneKeyEach
  TokenOf <- OneToken
  LogOf <- LogPerToken
  None = None
  NumItems = 1
  MaxPage = 1
  MaxFaults = 1
  MaxEvictions = 0
INVARIANTS ExactlyOnce OneOwner
PROPERTIES RebalancesEnd Progress FailureSurfaces
