# A TLA+ model of nanoRSS

nanoRSS is an RSS reader and page monitor written in Go: one process with an
embedded key-value store (pogreb), a web server, and a worker that fetches
every quarter of an hour and then collects garbage. This directory holds TLA+
modules translated from its source, configurations that check them with TLC,
and proofs checked with TLAPS.

Contents: [Inventory](#inventory) · [Plan](#plan) · [Users and read
marks](#users-and-read-marks) · [Page monitor](#page-monitor) · [Feeds and
expiry](#feeds-and-expiry) · [Restarts and logins](#restarts-and-logins) ·
[Refresh and lifecycle](#refresh-and-lifecycle) · [Backup and
restore](#backup-and-restore) · [Reading](#reading) · [Runs](#runs) ·
[Proofs](#proofs) · [What the code does not keep](#what-the-code-does-not-keep) ·
[Not modelled](#not-modelled)

## Inventory

| Part | Source | State | Operations |
| --- | --- | --- | --- |
| Users and read marks | `data/user.go`, `data/readstatus.go`, `data/data.go` | `user/<name>` records, the `user` index, a `readstatus/<name>` index per user, `userLock` | GetUsers, GetUser, SaveUser (rename), SetReadStatus, SetReadStatusForAll, deleteStaleReadStatuses |
| Indexes | `data/index.go` | a list of keys at an index key | getReferencedKeys, addReferencedKey, deleteReferencedKey |
| Page monitor | `fetcher/pagemonitor.go`, `data/pagemonitor.go` | a page (contents, delta) per configuration | FetchPage, GetPage, SavePage, FetchAllPages |
| Feeds | `fetcher/feed.go`, `data/feed.go` | items and contents, an index per feed | FetchFeed, SaveFeeditems, GetFeeditems, FetchAllFeeds |
| Expiry | `data/ttl.go` | last seen times, the index of fetch statuses | SetLastSeen, deleteStaleFetchStatuses, deleteExpiredItems |
| Fetch status | `data/fetchstatus.go` | last success and failure per feed or page | SetFetchStatus, GetFetchStatus |
| Keys | `data/keys.go` | none | the key of everything; decoding keys |
| Server configuration | `data/serverconfig.go` | the cookie signing key | GetOrCreateConfigVariable |
| Backup | `data/backup.go` | none | Backup, Restore |
| Web server | `server/*.go` | none (requests carry a copy of the user) | login, logout, items, settings, refresh, status |
| Cookies | `server/auth/auth.go` | the signing key | SetCookieUsername, AuthHandlerFunc |
| Parser | `fetcher/feedparser.go` | none | RSS, Atom and RDF to items |
| Worker and lifecycle | `fetcher/fetcher.go`, `worker/worker.go`, `main.go` | ticker, goroutines of a round | Start, Refresh, createDefaultUser, serve, shutdown |
| Feed list | `server/feedlist.go`, `server/apihandlers.go` | none | GetAllItems, FeedHandler, FeedItemHandler |

How they meet:

- Everything that lasts is in the store. A call to it (Get, Put, Delete, Has)
  is atomic, since pogreb has a lock of its own; nothing larger is, except
  what runs under the write lock.
- `userLock` is a RWMutex around the calls on users and read marks only.
  `update` (SaveUser) takes it exclusively. `view` takes the read lock, also
  for calls that write: SetReadStatus, SetReadStatusForAll and
  deleteStaleReadStatuses read a whole index and write it back.
- Items, pages, fetch statuses and last seen times have no lock. FetchAllFeeds
  and FetchAllPages start a goroutine per feed or page and wait for all. The
  worker then runs the GC; `GET /api/refresh` does the same fetches, at any
  time, in the goroutine of the request, without the GC.
- FetchPage calls SetReadStatusForAll before it saves a changed page. A request
  for an item or page serves what is stored and then marks it read.
- A request carries a copy of the user as it was when the cookie was checked;
  the settings handler saves that copy.
- When `serve` returns, main runs a last GC and closes the store beside the
  worker and the requests, which nobody stops. The same GC follows the
  directives `backup` and `restore`.
- The process may be killed at any time; nothing is undone at the start.

| Part | Hard because of | What makes it correct |
| --- | --- | --- |
| Users | several writes per save; stale copies; writers and readers that wait for each other | the index lists exactly the stored users; a rename is one step and keeps all marks; no account is lost or doubled; every call returns |
| Read marks | read-modify-write under a shared lock; renames in between | a rename loses none; unmarking for all reaches all whose marks nobody writes back beside it |
| Page monitor | the site and the store change during a fetch; unmark and save are two steps | a changed page is unread; each delta starts where the last one ended; the store catches up with the site |
| Feeds, expiry | unlocked indexes; times read long before they are used; kills between writes | a stored item is listed and can be collected; fresh items are kept, abandoned ones go |
| Cookies | the key that signs them, names that change | a cookie that was given out stays valid across restarts |
| Keys, feed list | encoding, separators, lists that are old | a URL leads to the item it was made for; the list shows what was read |
| Parser | three forms, missing elements | what is fetched is listed as it is in the feed; what is the same is not written again |
| Backup | partial data, what is already there, failing writes | what is reported as restored is there; a round trip changes nothing |
| Worker | no timeout, end of the process beside running goroutines | every feed and page is fetched; a round waits for all its goroutines; the worker goes on |

## Plan

| Module | Models | Proofs |
| --- | --- | --- |
| `UserData` | users, marks and the lock, with handlers and loops | `UserDataProofs` |
| `UserHistory` | `UserData` with two history variables: whose marks and accounts another call has come between | `UserDataProofs` |
| `UserStore` | what SaveUser promises; `UserData` implements it | `UserDataRefinement` |
| `PageMonitor` | fetches of a page, its readers and its site | `PageMonitorProofs` |
| `FeedStore` | items, last seen times, fetch statuses, the GCs of the worker and of main, restarts | `FeedStoreProofs` |
| `Restarts` | SaveUser, the default user and the signing key, killed and failing half-way; logins | `RestartsProofs` |
| `Lifecycle` | main, the ticker, rounds of fetches, panics, the end of the process | `LifecycleProofs` |
| `BackupRestore` | Backup and Restore write by write, killed and failing, and the GC after them | `BackupRestoreProofs` |
| `Reading` | from an entry of a feed to the item a user reads: parser, storing, keys, URLs, list | `ReadingProofs` |

`UserData`, `PageMonitor` and `FeedStore` have the calls to the store as steps of
concurrent goroutines.
`Restarts` and `BackupRestore` have one request or directive at a time, and
kills and failing writes between its steps. `Lifecycle` composes the worker,
the handlers and main, whose fetches and GCs only begin and end in it; what
they do in between is in `PageMonitor`, `FeedStore` and `UserData`. `Reading`
has whole calls as steps and follows the data instead.

Left to do: an index as the list it is, shown to implement the sets used here;
failing store calls in `FeedStore`; the order of the list. Every safety property
of a passing run is proved. Left to prove: what the liveness properties rest
on, as far as it can be said without fairness (LockHoldersWork and
StatusIsForgottenLast do so for SaveCompletes and AbandonedIsDeleted).

## Users and read marks

`UserData` has four kinds of goroutine, each serving one call after another:
Settings (POST /api/configuration), Viewers (an item is opened, or marked
unread), Unmarkers (SetReadStatusForAll) and Collectors
(deleteStaleReadStatuses). The loops over users of FetchAllPages and
FetchAllFeeds are in `Lifecycle`.

| State | Code |
| --- | --- |
| `users`, `userIndex`, `readIndex` | the records `user/<name>`, the index `user`, the indexes `readstatus/<name>` |
| `stored` | the items and pages that exist; they come and go without the lock |
| `readers`, `writer` | `userLock`: who is inside for reading; who has called Lock |
| `name`, `account`, `newName` | the `User` at hand: its name in the store, what else is in it, the name to save it under |
| `snap`, `key`, `names`, `keys` | an index as it was read; loop variables |

- An account is named after the username it was registered with, which stands
  for password and XML documents: what must survive a rename.
- Taking the read lock is folded into the first store call under it, and
  releasing a lock into the last. Calling Lock is a step of its own, since it
  keeps new readers out while it waits for those inside.
- Under the read lock the Get and the Put of an index update are two steps.
  Under the write lock they are one, as nobody else can look: everything that
  reads or writes a user or mark takes the lock.
- An index is a set. Its order is not used by this component.
- After a save the handler loads the user again. If another request has renamed
  it meanwhile, GetUser returns nil, the handler panics and chi recovers it
  (ReloadGone, RecoverPanic).

`UserHistory` adds two history variables, which record where one call came
between the steps of another in a way that the code does not keep out.
`excused` has, of each SetReadStatusForAll under way, the users who marked the
item after it had passed them, or whose index another call had read with the
mark in it and will write back. `endangered` has the accounts that the save of a
stale copy may have hit: the one saved, if it is no longer stored under the name
it was loaded from, and the one that is. The properties are about everybody
else: what is promised does not depend on how many goroutines of a kind there
are, but on what they do.

`UserStore` is what everyone who takes the lock may rely on: Save and Rename
are one step each, a rename moves all marks, and what is saved is a copy that
was loaded some time before. The refinement mapping commits a save when it gets
the lock and the new name is found free: from then on until the lock is
released, the abstract store is what the save will leave behind.

## Page monitor

`PageMonitor` has one page, any number of fetches of it at the same time (a
user may list a page twice, and a refresh may meet the worker), the requests
that change the read indexes of its users, for this page or for other items,
and the site, which changes or fails at any time.

| State | Code |
| --- | --- |
| `site`, `changes` | what the URL answers (`Down` for an error); a counter for the bound |
| `page` | the stored `PagemonitorPage`: contents, delta, updated |
| `read` | the users whose read index has the key of the page |
| `copy`, `new`, `unvisited` | of a fetch: the result of getPreviousResult, the page passed to SavePage, the users SetReadStatusForAll has not visited |
| `rpc`, `user`, `snap` | of a request: whose index it changes, and whether the page was in it when it was read |
| `alive` | no goroutine of a fetch has panicked |
| `found` | a clock for Updated |
| `since`, `overlapped` | history: who marked the page since the fetch began; whose index somebody was half-way through writing, with the mark in it, when the fetch removed the mark |

- A text is an abstract value; `Filter` stands for convertHTMLtoText, Match and
  Replace, and may map two texts to one. A delta is the pair of texts it was
  computed from.
- A changed page has a new Updated time, so SavePage's comparison with the
  stored page always finds a difference, and its Get is left out. For an
  unchanged page it is kept: it finds a difference if another fetch has saved.
- A mark is an entry of an index that is read and written back as a whole, so
  that a call about another item brings back the entry of this page as it was
  when the index was read (ReadForOther, PutOther). Requests stands for all
  calls that do, collections and other fetches' SetReadStatusForAll among them.
  A call that adds the entry or leaves it alone is a read and a write; one that
  removes it is its write alone, since whatever it has read, the entry is not in
  what it writes. `UserData` has the same calls on whole indexes.

## Feeds and expiry

`FeedStore` has the store calls of SaveFeeditems, SetLastSeen, SetFetchStatus and
GC one by one, with a clock, and Restart, which drops all goroutines at any
point and keeps the store.

| State | Code |
| --- | --- |
| `items`, `pages` | the records of items (with their contents) and pages |
| `itemIndex`, `statusIndex` | the indexes `feed/<URL>/` and `fetchstatus` |
| `lastSeen`, `status` | `lastseen/<item>`, `fetchstatus/<key>`; 0 is no value |
| `pc`, `key`, `todo`, `guid`, `stored`, `snap`, `time`, `newStatus` | of a fetch: feed or page, items still to save in the order of the answer, item at hand, GetFeeditem's result, an index as read, times as taken |
| `gc`, `gcNow`, ... | deleteStaleFetchStatuses and deleteExpiredItems, of each collector |
| `seen`, `cut` | history: when a fetch last saw the item; what was being fetched when the process ended, until it is fetched again |
| `met`, `mislisted` | history: feeds and pages at which two goroutines have worked at the same time; those whose entry in the index of fetch statuses somebody was about to undo by writing back an index out of date |

- WorkerFetchers are the goroutines of the worker's refresh, HandlerFetchers
  those of GET /api/refresh. Any number of both run side by side, also for the
  same key, which a user may list twice and two users may share.
- There are two collectors: the worker's GC, which waits for the worker's
  fetches, and that of main, which starts when the program shuts down and waits
  for nothing; the worker and its fetches go on beside it until the process ends
  (Shutdown, Exit).
- Where two goroutines have met at a feed, or an old index of statuses was
  written back, the code loses entries and may delete what is fresh
  ([below](#what-the-code-does-not-keep)). The properties say that this is all
  that does, and for whom: a key that is in neither `met` nor `mislisted` has had
  any number of fetches and GCs, other keys beside it, and kills.
- Time is counted in weeks or less; steps may take any number of them. In the
  code TTL is two weeks and Skip, the age below which SetLastSeen leaves the time
  alone, one.
- An item and its contents, two records, are one step and one member of `items`:
  what is listed, expires and is collected is the item. `BackupRestore` has the
  two writes apart, where a comparison depends on them.
- purgeItem asks deleteReferencedKey for the key of an item in an index of
  GUIDs, so the index is written back unchanged: that is what PutPurgedIndex does.
- The index of last seen times is never read and left out.

## Restarts and logins

`Restarts` has the life of the database across any number of starts: the writes
of SaveUser one by one, a Stop between any two of them, and WriteFails, after
which the program goes on with what has been written.

| State | Code |
| --- | --- |
| `users`, `userIndex`, `readIndex` | as in `UserData` |
| `keyListed`, `signKey` | the index `serverconfig` and `serverconfig/cookie-sign-key` |
| `runKey` | the key of the CookieHandler that runs; 0 before there is one |
| `cookie` | of a browser: the username in the token and the key that signed it |
| `account`, `name`, `newName`, `keys`, `key`, `padded` | the `User` that is saved; what renameReadStatus has still to move; whether the name in the form had spaces |
| `known`, `torn`, `marked` | history: accounts that were stored; those whose rename or creation was cut short; what each has read |

- A start is createDefaultUser (FindUsers, CreateDefaultUser) and then
  NewCookieHandler (GetSignKey, ListSignKey, PutSignKey); requests follow, one
  at a time, since `UserData` has them side by side.
- The writes are those of SaveUser in its order: the old name off the index,
  the old record deleted, each mark removed and added (MoveMarkFrom,
  MoveMarkTo), the new name listed, the new record written.
- What the code cannot keep is excepted by name: `torn` accounts. Everybody
  else's account, marks and cookies must survive whatever happens to them.

## Refresh and lifecycle

`Lifecycle` has the goroutine of main, the ticker, the worker's round and any
number of rounds of GET /api/refresh, each with a goroutine per feed or page of
the user it visits.

| State | Code |
| --- | --- |
| `main` | where main is, from Open to the end of the process |
| `closed` | Close was called, and the database is nil |
| `ticking`, `tick` | worker.Start was called; the one place of `ticker.C` |
| `pc`, `phase`, `left` | a round: FetchAllPages, then FetchAllFeeds, and the users still to visit |
| `fetching`, `answered`, `awaited` | goroutines that fetch, those that send on `completed`, values still to be received |
| `covered`, `aborted` | history: what the round fetched; whether the store failed it |

- A user whose pages are no XML is skipped by FetchAllPages, one whose feeds are
  not by FetchAllFeeds (BrokenPages, BrokenFeeds); an error of the store ends the
  phase, and an error in one phase does not keep the next from running.
- Deferred calls run when main returns or panics, not after log.Fatal, nor when
  another goroutine panics (Crash). The router recovers a handler.
- Only the worker's round has a GC after it.

## Backup and restore

`BackupRestore` backs up one database and restores the file into the same one,
a new one, or one that was used since. A database is a record with the fields
of all components; every write of Restore is a step.

| State | Code |
| --- | --- |
| `db`, `file` | the database; `nanorss.json` |
| `pc`, `todoUsers`, ..., `name`, `item`, `var` | the loops of Restore |
| `failed` | Restore has collected an error |
| `db.stale`, `db.unseen` | which fetch statuses and last seen times are older than itemTTL: all the GC after it looks at |
| `fresh`, `lapsed` | history: restored into a new database; pages that the GC found stale |

- Restore calls the same functions as the rest: SaveUser without a new name,
  SetReadStatus, SaveFeeditems, SavePage and SetConfigVariable, write by write.
  An item is listed, its last seen time renewed (SeeItem), and, unless the stored
  one is the same (SkipItem), its record and then its contents written (PutItem,
  PutContents). A restore that is run again after a kill between the last two has
  to notice by the comparison that the contents are old.
- A write that fails ends its item's loop or only itself, as in the code; a kill
  leaves the database as it is, and the directive may be given again.
- JSON is what it does to a text: replaces what is not UTF-8 (`Encoded`).

## Reading

`Reading` follows an entry of a feed to the item that a user reads: ParseFeed,
SaveFeeditems, GetAllItems with the URLs it makes, and FeedItemHandler, which
makes a key of a URL again.

| State | Code |
| --- | --- |
| `items`, `index`, `pages` | feed items with their contents; the GUIDs listed per feed, or that an item lies over the index; keys of pages |
| `feeds`, `watched` | what the user's OPML and pages say |
| `marks` | the user's read index |
| `list` | what FeedHandler last sent, however old |
| `opened` | the item asked for last and the one that was found |
| `got`, `reader` | history: the items of a feed's last answer; what the user has read |

- An answer is a list of entries with the elements that ParseFeed looks at, of
  the types the decoder gives them (`AtomEntries`, `RSSEntries`). Each fallback
  of it is in ParseAtom, ParseRSS and ParseRDF.
- SaveFeeditems is a function of how many items have been saved: the store after
  n + 1 of them is SaveItem of the store after n.
- A key is the sequence of its parts. Its URL is the sequence of the pieces
  between the separators: base64 has - as a digit, and a part with one is cut in
  two (`Split`).
- FetchPage and CollectFeed are what `PageMonitor` and `FeedStore` have in
  detail, as one step each.

## Runs

Passing runs:

| Run | Instance | Shows |
| --- | --- | --- |
| `user_data_all` | a settings request, a viewer and an unmarker, one account, two names, two items | types; a rename carries all marks over and leaves none behind, whatever marks or unmarks meanwhile; unmarking reaches everybody not excused; every save and every view is answered |
| `user_data_saves` | two settings requests and a collector, two accounts, three names, one item | index and records agree for everyone who takes the lock; no account is lost or doubled but by a stale copy; `UserData` implements `UserStore` |
| `page_monitor` | two fetches, one request for this page or another item, three texts of which two are the same when filtered, two changes of the site | a changed page is unread when saved but for who marked it meanwhile or was overlapped; deltas chain; the store catches up with the site |
| `feed_store` | a feed with two items and a page, a fetch of the worker and one of a request side by side, both GCs, one kill or shutdown anywhere | stored items are listed and can be collected; fresh items are kept; what is abandoned is deleted; each but where two have met |
| `restarts` | an empty database or two accounts, three names, two items, one browser, two stops or failing writes | no account and no mark is lost but of who was being renamed, and of those one mark; cookies stay valid; someone can log in; a start ends in serving |
| `lifecycle` | the worker and one refresh, three users, one with broken pages, one with broken feeds, who share a page and a feed with the third; three sites | a round waits for all it started and fetches everything; every tick is served where sites answer |
| `backup_restore` | 864 databases, four targets, two kills or failing writes | what is reported as restored is there; a round trip changes nothing |
| `reading` | one feed, answers of the three forms, two pages of which one has a - in its key | a URL never opens another item; the list shows what was read; what was fetched is listed as fetched; the same answer writes nothing |

Violations, each of one statement of the code or its tests that does not hold:

| Run | Shows |
| --- | --- |
| `user_data_lost_mark` | two items opened at the same time: one mark is lost |
| `user_data_stale_save` | two settings requests with copies from before either saved: one account under two names |
| `backup_replaces` | a restore into a database that was used since: accounts and marks that the file does not have stay |
| `feed_clobbered` | an entry without GUID and link goes over the index of its feed, and none of its items is listed any more |

**Bounds.** Two goroutines of a kind are enough for the races here: each is
between one that has read and one that writes. Three names are needed for a
stale copy to be saved under a name that is neither its old one nor the one the
user has now; two items for one mark to be lost to another, and for a call about
one of them to write the other's mark back. Symmetry is used in safety runs
only. In `page_monitor`, MaxChanges bounds only the site, and two changes
suffice for one during and one after a fetch, and for a site that returns to an
earlier text. In `feed_store`, Clock = {1, 2, 4, 6, 9} is the times at which
anything happens, with TTL = 4 and Skip = 2: a last seen time may be kept (at 2)
and be renewed (at 4), which it is at an age short of Skip and at Skip itself;
an item is judged at exactly TTL and after it; and what was fetched at LastFetch
= 4 expires at 9. Two fetches and one restart suffice for a fetch beside another
or beside a GC, and one after it or after a kill; every answer has both items,
since the order in which they are saved decides what a kill leaves. Two stops in
`restarts` allow for a rename that is torn, a start that goes on with what is
left, and a second fault in what it does then; two in `backup_restore` for a
restore that fails, is run again and is killed. In `reading`, the clock has two
times, enough for an item without a date to change, and texts are five, one of
which is cut in two; its pieces are texts themselves, so that a URL could be
taken for another's.

**Deadlock.** Checked except in `page_monitor`, where a panic ends the process,
`feed_store`, where the clock and the fetches end at their bounds, and
`restarts`, where stops are bounded and without users nobody can ask for
anything.

**Exceptions, not narrow instances.** UnmarkReachesAll, FreshSavesKeepAccounts,
ChangeIsUnread, ItemsListed, FreshItemsKept, StoredIsCollectable and
AbandonedIsDeleted would not hold as they stand of a program whose calls come
between each other's reads and writes. They are checked and proved with all of
it running, and except by history variables exactly those users, accounts, feeds
and pages at which such a thing has happened (excused, endangered, overlapped,
met, mislisted). MarkTouchesOnlyItsItem and AccountsKept are the statements
without the exception, in runs that violate them;
[below](#what-the-code-does-not-keep) is what happens otherwise.

**Fairness.** A goroutine that can run is scheduled. `UserData`: strong fairness
for calls that wait for the lock, since it may be taken and freed again and
again meanwhile, but a Go RWMutex blocks new readers once a writer waits and
lets waiting readers in when it leaves; weak fairness for loops that hold it.
Requests need not come. `PageMonitor`: the worker's ticker fires for ever
(Tickers), and a fetch that has begun ends, which takes it that the site
answers, be it with an error: the HTTP client has no timeout. `FeedStore`: time
passes, fetches and GCs that have begun go on, and the worker's GC starts again
and again, since it follows each refresh (strong fairness, as a refresh comes in
between). `Restarts`: a program that is down is started, and a start and a save
go on. `Lifecycle`: the worker goes on between its fetches; of main, the fetches
and the ticker nothing is assumed. That the sites of the worker's round answer
is a premise of TickServed, not fairness, since nothing in the code brings it
about.

## Proofs

All theorems hold for any number of names, items, goroutines, texts, feeds,
entries and times; the assumptions are the ASSUMEs of the modules, which say that
kinds of constants are disjoint, that Filter is a function on texts, that
0 < Skip <= TTL, that the clock has the time 1 and answers are not empty, that
there are finitely many sites, that an answer consists of
entries, and that a text without - is not cut.

| Theorem | Module | Says |
| --- | --- | --- |
| `TypeCorrect` | `UserDataProofs` | TypeOK |
| `SaveInvariant`, `IndexCorrect`, `RenameCorrect` | `UserDataProofs` | SaveInv, UsersIndexed, RenameMovesMarks |
| `LockHoldersWork` | `UserDataProofs` | whoever waits for the lock waits for somebody in the middle of a call under it |
| `AccountsCorrect` | `UserDataProofs` | FreshSavesKeepAccounts |
| `UnmarkReaches` | `UserDataProofs` | UnmarkReachesAll |
| `AtomicSaves` | `UserDataRefinement` | `UserData` implements `UserStore` |
| `PageTypes`, `ChangesAreUnread` | `PageMonitorProofs` | TypeOK, ChangeIsUnread |
| `UnmarkingProceeds`, `CopiesChain` | `PageMonitorProofs` | UnmarkInv, CopyInv |
| `DeltasChain` | `PageMonitorProofs` | DeltaChains |
| `FeedTypes` | `FeedStoreProofs` | TypeOK |
| `ItemsAreListed`, `FreshKept` | `FeedStoreProofs` | ItemsListed, FreshItemsKept |
| `StoredIsFound`, `StatusIsForgottenLast` | `FeedStoreProofs` | StoredIsCollectable, and that a GC deletes a status last (ForgottenLast) |
| `RestartTypes`, `CookiesKept` | `RestartsProofs` | TypeOK, CookiesStayValid |
| `NoAccountIsLost`, `NoMarkIsLost` | `RestartsProofs` | AccountsSurvive, MarksSurvive |
| `TornRenameLosesOne`, `LoginPossible` | `RestartsProofs` | MarksTornOneByOne, SomeoneCanLogIn |
| `LifecycleTypes` | `LifecycleProofs` | TypeOK |
| `RoundsAlwaysJoin`, `RoundsCover` | `LifecycleProofs` | RoundsJoin, RoundCovers |
| `BackupTypes` | `BackupRestoreProofs` | TypeOK |
| `RestoredIsThere` | `BackupRestoreProofs` | RestoreComplete |
| `RoundTripCorrect` | `BackupRestoreProofs` | RoundTrip |
| `ReadingTypes` | `ReadingProofs` | TypeOK |
| `URLsAreUnambiguous`, `TheListTellsWhatWasRead` | `ReadingProofs` | OpensWhatIsAsked, ReadShown |
| `FetchedItemsAreListed`, `RefetchingIsIdle` | `ReadingProofs` | FetchedIsListed, RefetchWritesNothing |

**Hypotheses.** None of the theorems has a hypothesis on the constants beyond
those assumptions: no number of goroutines of a kind is fixed, and none is left
out. What the code does not keep is excepted in the statements, by the history
variables.

- **SaveInv.** UsersIndexed speaks of moments without a writer and is not
  inductive. SaveInv adds who is in the lock (LockInv: a save between its first
  and last write is alone, and whoever has the lock is in a call under it), what
  each goroutine has in hand (LocalInv), by which name index and records differ
  at each step of a save (IndexInv), and which marks a rename has moved
  (MarksInv). IndexInv needs the lock: a second save inside it would change the
  index under the first. LockHoldersWork is LockInv read the other way: readers
  wait for nothing, and a writer only for readers.
- **AccountsCorrect.** A rename has no record of its account between the delete
  and the put. CarriedInv says that a save carries it then and that its new name
  is still free, and, while the save has not written yet, that its copy is what
  is stored under its name; or else that what it carries, overwrites and deletes
  is endangered. HomeInv: no account that is not endangered is stored twice, and
  one that is stored nowhere is carried. A stale copy is noticed when the save
  gets the lock (SavesStale), and from then on nobody else can change what it
  meets.
- **UnmarkReaches.** PassedInv: a user whom the loop has passed and who is not
  excused has the item unmarked, and nobody has an index of theirs in hand that
  has it (Clean). When the loop writes, whoever has read such an index is found
  by Overlapped; after that an index can only be read without the item, until
  somebody marks it (MarkedNow). SetReadStatusForAll begins with all stored
  users, by UsersIndexed, and no user is renamed until it ends, since it keeps
  the read lock.
- **AtomicSaves.** From SaveInv, each step is matched: BeginSave and BeginRename
  map to Save and Rename, the writes after them to stutters, since SavedUsers and
  SavedMarks already are what the writes lead to; loads to Load, returns to
  Forget, changes of marks to ChangeMarks.
- **ChangesAreUnread, UnmarkingProceeds.** ChangeIsUnread speaks of the moment of
  the write. UnmarkInv speaks of who has the page marked or will have it once a
  half-way call writes its index (Marked): they are still to be visited, have
  marked it since, or were overlapped. UnmarkUser keeps it since it looks for the
  half-way calls itself, and reading an index adds nobody to Marked. UnmarkInv
  also says that a fetch that found nothing new saves exactly its copy.
- **DeltasChain.** CopyInv: what a fetch is about to save chains to the page it
  has copied. If the copy is what is stored, the property follows.
- **ItemsAreListed, FreshKept.** The invariants are about one feed or page at a
  time. Apart: where nobody has met, one fetch or one collector at most works on
  it, and who has an index of statuses in hand agrees with it where it was not
  mislisted. So whoever writes the index of a feed back has read all that is in
  it, and the GUID of an item is listed before the item is stored (ListedAt).
  FreshAt: the last seen time of a stored item is never Skip or more behind the
  moment it was seen, and an item about to be purged has one that is TTL old.
  ClockInv keeps every noted time behind the clock. All are kept by Restart,
  since they speak of the store in every state between two writes.
- **StoredIsFound, StatusIsForgottenLast.** StatusAt: what is stored and not
  being fetched has its status listed, and no item of it was seen after its last
  fetch. NewStatusAt says the same of a status about to be written. So when a
  status is TTL old, all items of its feed are, and the GC that lists them
  deletes them all before the status (GoneAt). A fetch that was killed may have
  seen an item later, hence `cut`.
- **NoAccountIsLost, NoMarkIsLost.** The properties speak of moments without a
  save and hold of accounts that are not torn. AccInv adds, for each step of a
  save, what its account still has: its old record until that is deleted, then
  nothing, which is why a Stop there makes it torn. MarksInv adds where its
  marks are: under the old name, still to be moved; in hand; or under the new
  one. TornRenameLosesOne is a step away: only the one in hand is in neither
  index.
- **CookiesKept.** KeyInv: a cookie that is out was signed with the key that is
  stored, and a start that lists the key has found none stored.
- **RoundsAlwaysJoin, RoundsCover.** Joins counts: what a round still receives
  is what fetches or waits to send, by the cardinalities of two disjoint sets.
  Covers: in a visit, whoever is not left has been covered.
- **RestoredIsThere.** RestInv: what a run of Restore without a failure has done
  so far is in the database, and in each loop all that is not left to do has
  been done. The GC at the end is shown to spare it: a restored item was just
  seen, and a mark goes only with what it marks (AfterGCFields).
- **RoundTripCorrect.** The converse: RoundInv says that a database that was new
  holds nothing that is not in the file, and that the file has the shape that
  Backup gives it (FileShape), so with RestoreComplete both are the same. Its GC
  finds nothing stale, and deletes only marks of what the file does not hold
  (FreshGC).
- **URLsAreUnambiguous, TheListTellsWhatWasRead.** KeyURL: cutting only adds
  parts, so a URL with as many parts as a key has is the key itself, and any
  other decodes to nothing. So a mark is always of an item whose URL is its key,
  and removing a mark by its URL, which is not decoded, removes the right one.
- **ReadingTypes, FetchedItemsAreListed, RefetchingIsIdle.** These are about
  answers of any length. SavedByItems shows that SaveFeeditems, a recursive
  function, is what its definition says; the lemmas after it go by induction
  over the number of items saved: each keeps the types and other feeds' items,
  and the last one of every GUID so far is listed and stored as the answer has
  it (Kept); where all are stored as they are, nothing is written (SavedAgain).
  HeldInv keeps this of the last answer of every feed, since no other feed's
  fetch or collection touches its keys. The induction itself is the lemma
  Induction, on a set of numbers, from the library's fact that < is well-founded
  on them: its own induction theorems take an operator, which the provers cannot
  instantiate.

Only model-checked: liveness (SaveCompletes, ViewCompletes, PageCatchesUp,
AbandonedIsDeleted, StartsServing, TickServed), which needs fairness and so ENABLED, beyond the prover.

## What the code does not keep

Besides the four runs above, the models show the following, for which no run is
kept:

- A viewer that loaded the user before a rename leaves a mark under the old
  name, where the next user of that name inherits it (MarkRead after PutUser).
- A rename between GetUsers and GetUser makes a refresh call a method of nil; in
  the worker this ends the process (MayPanic of `Lifecycle`). In the settings
  handler the same is recovered (ReloadGone).
- SetReadStatusForAll beside another goroutine that marks, unmarks or collects
  may be undone for a user: an index is written back that was read before
  (`excused` in `UserHistory`; `overlapped` in `PageMonitor`, where it makes a
  changed page read for a user who did not open it).
- A fetch that found nothing changed puts its copy back over a newer page that
  another fetch has saved meanwhile (CompareDiffers). PageCatchesUp shows that
  this does not last.
- Two fetches of a feed at the same time, and a fetch beside a GC that has come
  to the feed, lose entries of its index: an item is stored that is never shown
  and never collected (`met`). So does the GC of main beside the worker's.
- Two new feeds fetched side by side, as every refresh does, may lose one fetch
  status from the index, until that feed is fetched again; if it is not, its
  items stay for ever (`mislisted`). So does a kill before SetFetchStatus (`cut`).
- The GC may delete items that a fetch beside it has just found again (`met`).
- Items that have vanished from a feed are kept for as long as the feed itself is
  fetched: deleteExpiredItems runs only for a feed whose status has expired.
- Deleted items stay in the index of their feed, since purgeItem asks for the key
  of an item among GUIDs (PutPurgedIndex).
- Who opens the old page while the new one is being saved has the new one marked
  read: the page is unmarked before it is saved (ChangeIsUnread excepts `since`).
- A page without text that was never stored makes SavePage dereference nil, and
  the process ends ("panic" in `PageMonitor`).
- An account whose rename is killed or fails after its old record is deleted is
  lost; its old marks go to whoever takes the name (`torn` in `Restarts`). A name
  that was listed before the record was written keeps createDefaultUser from
  adding anybody, so that nobody may be able to log in; the same name makes
  Backup dereference nil.
- After a rename the cookie keeps the old name, and leads to whoever takes it.
- One user whose OPML or pages are no XML makes a backup impossible for all
  (BackupFails).
- A restore adds to the database and overwrites, but deletes nothing
  (`backup_replaces`). A page whose fetch status is old is deleted by the GC
  as soon as it is restored (`lapsed`), and one that is not UTF-8 comes back
  changed (`Encoded`).
- An item or page whose key has a - in its base64 cannot be opened (OpensWhatIsAsked
  asks only that nothing else is opened in its place).
- An item without a date, or one of two with the same GUID, is written at every
  fetch (RefetchWritesNothing excepts them).
- A site that never answers stops the worker for ever, and a refresh interval
  that is not positive makes main panic (TickServed, BadInterval). The worker and
  the requests go on beside a store that is closed (MayPanic).

## Not modelled

- The order of the list (its sort is not stable), its titles, and a feed that an
  OPML names twice.
- Failing store calls in `UserData`, `PageMonitor` and `FeedStore`; `Restarts`
  and `BackupRestore` have them.
- The index of last seen times, which no code reads.
- worker.Stop, which nothing calls.
- Formats of dates, sanitising HTML and resolving URLs in the parser; HTML to
  text, regular expressions and the diff of a page; templates. They work on
  characters and are taken as functions, or left out.
- StatusHandler and static files, which only read.
- The encoding of an index, JSON, gob and XML; signing, the time of expiry of
  cookies, and password hashing: library code.
