SPECIFICATION Spec
CONSTANTS
  did = did
  old = old
  new = new
  r1 = r1
  r2 = r2
  Dids = {did}
  Sids = {old, new}
  DidOf <- OneDid
  Requests = {r1, r2}
  NoData = nodata
  MaxGen = 3
  MaxTime = 1
  MaxFaults = 1
  MaxRestarts = 1
SYMMETRY RequestSymmetry
INVARIANT TypeOK
INVARIANT IndexExact
INVARIANT TokensKept
PROPERTY ImplementsStore
CHECK_DEADLOCK FALSE
