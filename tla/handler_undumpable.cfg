SPECIFICATION Spec
CONSTANTS
  Conns = {c1, c2}
  None = None
  MaxFd = 7
  Requests = {"ok", "undumpable"}
  Outputs = {"inline"}
  ReadsInput = TRUE
  Arrival = "afterIdle"
  MayAbort = FALSE
  MayFailFork = FALSE
INVARIANT StdinOpen
