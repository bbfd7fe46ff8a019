SPECIFICATION FairSpec
CONSTANTS
  Dash = 1
  Lf = 2
  Cr = 4
  Mark = 5
  Field = 6
  Bytes = {1, 2, 3, 4, 5, 6, 7}
  Boundary <- OneByteBoundary
  Contents <- SplitContents
  MaxItems = 2
  MayCut = TRUE
  IgnoreLimit = 4
  HeaderLimit = 32
  MemoryLimit = 8
  BufferSize = 6
  MaxUnread = 32
INVARIANTS TypeOK Placed Conserved Recognised
PROPERTIES Delivers Concludes
