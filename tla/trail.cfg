CONSTANTS
  u1 = u1
  u2 = u2
  n1 = n1
  t1 = t1
  r1 = r1
  r2 = r2
  r3 = r3
  Uploads = {u1, u2}
  FileNames = {n1}
  Tables = {t1}
  fileName <- MCFileName
  tableName <- MCTableName
  Reqs = {r1, r2, r3}
  MaxChanges = 3
SPECIFICATION Spec
SYMMETRY Symmetry
INVARIANT TypeOK
INVARIANT TrailCountsDatasets
PROPERTY KeepsLedger
CHECK_DEADLOCK FALSE
