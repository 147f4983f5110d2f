SPECIFICATION FairSpec
CONSTANTS
  k1 = k1
  k2 = k2
  signer = signer
  s = s
  Kid = {k1, k2, signer}
  Scope = {s}
  Plain = {v1}
  NoKid = NoKid
  NoScope = NoScope
  Failed = Failed
  Reader = {r1, r2}
  Writer = {w1}
  Config = {c1}
  Codecs <- MCCodecs
  Old = k1
  New = k2
  Successors <- MCSuccessors
  InitialRing <- MCInitialRing
  MaxEdits = 1
INVARIANTS TypeOK ReadsWhatWasMeant
PROPERTIES ScopeNeverDropped RotationEnds
CHECK_DEADLOCK FALSE
