CONSTANTS
  w1 = w1
  w2 = w2
  r1 = r1
  r2 = r2
  r3 = r3
  Workers = {w1, w2}
  Reqs = {r1, r2, r3}
  WorkerOf <- TwoAndOne
  LA = LA
  FC = FC
  Lagos = Lagos
  Capital = Capital
  Codes = {LA, FC}
  Names = {Lagos, Capital}
  NoName = NoName
  NoMap = NoMap
SPECIFICATION UndisturbedSpec
SYMMETRY Symmetry
INVARIANT TypeOK
INVARIANT CacheFollowsEdits
