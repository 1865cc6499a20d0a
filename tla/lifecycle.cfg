SPECIFICATION FairSpec
CONSTANTS
  u = u
  v = v
  w = w
  p = p
  f = f
  g = g
  Worker = Worker
  Handlers = {h}
  Users = {u, v, w}
  BrokenPages = {w}
  BrokenFeeds = {v}
  Sites = {p, f, g}
  PagesOf <- MCPagesOf
  FeedsOf <- MCFeedsOf
INVARIANTS TypeOK RoundsJoin RoundCovers
PROPERTIES TickServed
