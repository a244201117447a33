SPECIFICATION Spec
CONSTANTS
  Fonts = {f1, f2, f3}
  Images = {{a}, {a, b}}
  FontIds = {1}
  NoId = 17
  None = None
  NFonts = 2
  NImages = 2
  PoolSize = 4
  FileSizes = {1, 2}
SYMMETRY SameFonts
INVARIANTS TypeOK CounterIsSum BlocksApart DataIntact IdsKnown ImageIsFound
