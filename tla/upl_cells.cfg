CONSTANTS
  r1 = r1
  r2 = r2
  Columns <- AllShapes
  HasQuarter = FALSE
  FileRows <- CellLines
  MaxRows = 1
  Reqs = {r1, r2}
  Uploaders = {r1}
  MaxCopies = 1
  MaxBatches = 1
  CanFail = FALSE
  NoCodes = NoCodes
SPECIFICATION Spec
INVARIANT RefusalsAreExplained
PROPERTY BinnedPeriodIsWarned
