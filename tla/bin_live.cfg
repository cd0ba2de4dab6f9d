CONSTANTS
  k1 = k1
  k2 = k2
  nk = nk
  v1 = v1
  NoRow = NoRow
  NoBatch = NoBatch
  Pks = {p1, p2}
  Keys = {nk}
  NullKeys = {nk}
  Vals = {v1}
  Reread <- MCReread
  Batches = {b1, b2}
  Reqs = {r1, r2}
  BulkFilters <- WideFilter
SPECIFICATION FairSpec
PROPERTIES RequestsEnd
