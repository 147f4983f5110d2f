SPECIFICATION Spec
CONSTANTS
  i1 = i1
  i2 = i2
  c1 = c1
  c2 = c2
  k1 = k1
  k2 = k2
  t1 = t1
  t2 = t2
  Instance = {i1, i2}
  Partition = {t1}
  Config = {c1}
  StateKey = {k1}
  KeyOf <- OneKey
  TokenOf <- OneToken
  LogOf <- LogPerToken
  None = None
  NumItems = 2
  MaxPage = 2
  MaxFaults = 1
  MaxEvictions = 1
SYMMETRY Symmetry
INVARIANTS TypeOK ExactlyOnce RevokeIsBarrier ReadsCommitted
PROPERTY ExtractsExactlyOnce
