SPECIFICATION FairSpec
CONSTANTS
  None = None
  Words <- AllWords
  Requests <- AllRequests
  MayCut = TRUE
  Methods = {"GET", "POST"}
  Numbers <- Numerals
  HeadLimit = 24
  FormLimit = 12
  MemoryLimit = 4
  BufferSize = 3
  MaxUnread = 4
  Junk = "Junk"
INVARIANTS TypeOK PairsKept HeadersKept PathKept ContentKept
PROPERTY Concludes
