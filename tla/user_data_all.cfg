SPECIFICATION HFairSpec
CONSTANTS
  None = None
  Names = {a, b}
  Registered = {a}
  Keys = {k, l}
  Settings = {s}
  Viewers = {v}
  Unmarkers = {u}
  Collectors = {}
INVARIANTS TypeOK RenameMovesMarks SaveInv UnmarkReachesAll
PROPERTIES SaveCompletes ViewCompletes
