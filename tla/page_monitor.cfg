\* A panic ends the process.
CHECK_DEADLOCK FALSE
SPECIFICATION FairSpec
CONSTANTS
  A = A
  B = B
  Blank = Blank
  Down = Down
  NoPage = NoPage
  Texts = {Blank, A, B}
  Filter <- MergingFilter
  Fetchers = {f, g}
  Tickers = {f}
  Users = {u}
  Requests = {r}
  MaxChanges = 2
INVARIANTS TypeOK ChangeIsUnread
PROPERTIES DeltaChains PageCatchesUp
