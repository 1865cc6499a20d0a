SPECIFICATION HSpec
CONSTANTS
  None = None
  Names = {a, b, c}
  Registered = {a, b}
  Keys = {k}
  Settings = {s, t}
  Viewers = {}
  Unmarkers = {}
  Collectors = {g}
INVARIANTS UsersIndexed FreshSavesKeepAccounts
PROPERTIES SavesAreAtomic
SYMMETRY Symmetry
