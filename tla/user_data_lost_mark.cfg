SPECIFICATION HSpec
CONSTANTS
  None = None
  Names = {a}
  Registered = {a}
  Keys = {k, l}
  Settings = {}
  Viewers = {v, w}
  Unmarkers = {}
  Collectors = {}
PROPERTIES MarkTouchesOnlyItsItem
