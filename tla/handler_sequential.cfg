SPECIFICATION Spec
CONSTANTS
  Conns = {c1, c2}
  None = None
  MaxFd = 11
  Requests = {"ok"}
  Outputs = {"inline"}
  ReadsInput = TRUE
  Arrival = "afterEof"
  MayAbort = FALSE
  MayFailFork = FALSE
INVARIANT Answered
