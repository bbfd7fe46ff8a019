SPECIFICATION Spec
CONSTANTS
  Conns = {c1, c2}
  None = None
  MaxFd = 6
  Requests = {"ok", "rejected", "cut"}
  Outputs = {"inline", "raw", "file"}
  ReadsInput = FALSE
  Arrival = "afterIdle"
  MayAbort = TRUE
  MayFailFork = TRUE
SYMMETRY ConnSymmetry
INVARIANTS Answered ServerEnds
