SPECIFICATION Spec
CONSTANTS
  f = f
  x = x
  y = y
  d = d
  c1 = c1
  c2 = c2
  Empty = Empty
  None = None
  Overwritten = Overwritten
  Feeds = {f}
  Texts = {Empty, f, x, y, d}
  Contents = {Empty, c1, c2}
  Split <- MCSplit
  Pages <- MCPages
  Answers <- MCAnswers
  MaxTime = 2
INVARIANTS TypeOK OpensWhatIsAsked ReadShown FetchedIsListed
PROPERTIES RefetchWritesNothing
