CONSTANTS
  p1 = p1
  p2 = p2
  w1 = w1
  w2 = w2
  NoRow = NoRow
  NoBatch = NoBatch
  Pks = {p1, p2}
  Batches = {b1}
  Workers = {w1, w2}
  Shapes <- MCShapes
  Sources <- MCSources
  Rows <- MCRows
  Filters <- MCFilters
  Edits <- MCEdits
SPECIFICATION Spec
SYMMETRY Symmetry
INVARIANT TypeOK
INVARIANT RefusedRestoresAreExplained
INVARIANT ArchiveMatchesSummary
INVARIANT TemplateReuploads
PROPERTY RowsComeBackWhole
