SPECIFICATION Spec
CONSTANTS
  Handlers = {h1, h2}
  None = None
  Requests = {"/get", "/put"}
  Paths = {"a.json", "b.json"}
  Contents <- Files
  Bad = Bad
  Unreadable = Unreadable
  Invalid = Invalid
  Names = {"base-path", "depth", "--depth"}
  Numbers = {"1"}
  Tokens <- AllTokens
  Given = {"--depth"}
  MaxLoads = 2
  Overlap = FALSE
INVARIANTS TypeOK Served MapAndPath NoTrace Offered
SYMMETRY Alike
