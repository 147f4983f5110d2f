SPECIFICATION FairSpec
CONSTANTS
  k1 = k1
  k2 = k2
  v1 = v1
  v2 = v2
  odd = odd
  junk = junk
  fatal = fatal
  p1 = p1
  p2 = p2
  Key = {k1, k2}
  Value = {v1, v2}
  Undecodable = {odd, junk, fatal}
  Policy <- MCPolicy
  Raise = Raise
  Skip = Skip
  Null = Null
  Empty = Empty
  Partition = {p1, p2}
  Home <- MCHome
  Writes <- MCWrites
  Hole = Hole
  MaxRecords = 3
  Enrich <- MCEnrich
  Weight <- MCWeight
  None = None
  MaxFaults = 1
INVARIANTS TypeOK NoDivergence StoreAndEntriesAgree
PROPERTY ComesUpToDate
