SPECIFICATION Spec
CONSTANTS
  i1 = i1
  i2 = i2
  p1 = p1
  Instance = {i1, i2}
  Partition = {p1}
  None = None
  NumRecords = 2
  MaxBatch = 2
  MaxFaults = 0
  MaxEvictions = 1
INVARIANT ExactlyOnce
