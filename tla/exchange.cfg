SPECIFICATION FairSpec
CONSTANTS
  None = None
  Lf = 1
  Plain = {2, 3}
  Junk = 9
  Inline <- InlineBytes
  Ranges <- RangeBytes
  Exchanges <- AllExchanges
  MayBreak = TRUE
  Capacity = 3
  BufferSize = 3
  MetaLimit = 5
  MaxUnread = 5
  UintMod = 16
INVARIANTS TypeOK Garbles Honoured Conserved
PROPERTIES Delivers Concludes NoOrphan
CHECK_DEADLOCK FALSE
