SPECIFICATION Spec
CONSTANTS
  a = a
  b = b
  all = all
  some = some
  broken = broken
  f = f
  o = o
  g = g
  p = p
  v1 = v1
  v2 = v2
  k = k
  h = h
  bytes = bytes
  Names = {a, b}
  Profiles = {all, some, broken}
  FeedsOf <- MCFeedsOf
  PagesOf <- MCPagesOf
  Broken = {broken}
  Feeds = {f, o}
  Guids = {g, h}
  Pages = {p}
  Versions = {v1, v2, bytes, Empty}
  Empty = Empty
  Encoded <- MCEncoded
  Vars = {k}
  None = None
  Sources <- MCSources
  Targets <- MCTargets
  MaxStops = 2
INVARIANTS TypeOK RestoreComplete RoundTrip
