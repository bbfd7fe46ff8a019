SPECIFICATION Spec
CONSTANTS
  Bytes = {2, 3}
  Streams <- TwoByteStreams
  Matches <- CrLfKeys
  Limits = {3, 9}
  BufferSize = 6
  MaxUnread = 8
INVARIANTS TypeOK NoMiss FirstMatch Conserved Overruns
CHECK_DEADLOCK FALSE
