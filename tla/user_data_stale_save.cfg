SPECIFICATION HSpec
CONSTANTS
  None = None
  Names = {a, b}
  Registered = {a}
  Keys = {k}
  Settings = {s, t}
  Viewers = {}
  Unmarkers = {}
  Collectors = {}
INVARIANTS AccountsKept
