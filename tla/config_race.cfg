SPECIFICATION Spec
CONSTANTS
  Handlers = {h1, h2}
  None = None
  Requests = {"/", "/get", "/other"}
  Paths = {"a.json", "b.json"}
  Contents <- GoodFiles
  Bad = Bad
  Unreadable = Unreadable
  Invalid = Invalid
  Names = {"base-path", "depth", "--depth"}
  Numbers = {"1"}
  Tokens <- RemapToken
  Given = {"--depth"}
  MaxLoads = 3
  Overlap = TRUE
INVARIANT Served
SYMMETRY Alike
