\* The clock and the fetches end at their bounds.
CHECK_DEADLOCK FALSE
SPECIFICATION FairSpec
CONSTANTS
  NoKey = NoKey
  a = a
  b = b
  Feeds = {f}
  Pages = {p}
  Guids = {a, b}
  Answers <- MCAnswers
  WorkerFetchers = {w}
  HandlerFetchers = {h}
  TTL = 4
  Skip = 2
  Clock = {1, 2, 4, 6, 9}
  LastFetch = 4
  MaxFetches = 2
  MaxRestarts = 1
INVARIANTS TypeOK ItemsListed StoredIsCollectable
PROPERTIES FreshItemsKept AbandonedIsDeleted
