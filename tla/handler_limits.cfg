SPECIFICATION FairSpec
CONSTANTS
  Conns = {c1, c2}
  None = None
  MaxFd = 9
  Requests = {"ok", "undumpable"}
  Outputs = {"raw"}
  ReadsInput = FALSE
  Arrival = "any"
  MayAbort = FALSE
  MayFailFork = TRUE
INVARIANTS TypeOK Covered NoLeak StdinStaysOpen
 
