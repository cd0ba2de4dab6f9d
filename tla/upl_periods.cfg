CONSTANTS
  r1 = r1
  r2 = r2
  Columns <- OnlyYear
  HasQuarter = TRUE
  FileRows <- PeriodLines
  MaxRows = 2
  Reqs = {r1, r2}
  Uploaders = {r1}
  MaxCopies = 1
  MaxBatches = 1
  CanFail = TRUE
  NoCodes = NoCodes
SPECIFICATION Spec
INVARIANT TypeOK
INVARIANT CadenceShiftIsWarned
INVARIANT StandingPeriodIsWarned
PROPERTY CopiedRowsHaveOneCadence
 
