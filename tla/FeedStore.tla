------------------------------ MODULE FeedStore -----------------------------
(***************************************************************************)
(* What fetches leave in the store and the garbage collection takes out:   *)
(* feed items, the index of the items of a feed, last seen times, fetch    *)
(* statuses with their index, and pages.                                   *)
(*                                                                         *)
(*   WorkerFetchers   the goroutines of the worker's Refresh               *)
(*   HandlerFetchers  those of GET /api/refresh                            *)
(*   Collectors       DBService.GC: the worker's after each Refresh, and   *)
(*                    that of main when the program shuts down, beside     *)
(*                    whatever the others are doing                        *)
(*                                                                         *)
(* None of this takes userLock; every call to the store is a step.  An     *)
(* index is a set.  An item and its contents are stored and deleted        *)
(* together; what a fetch finds in them is either what is stored or not.   *)
(* The index of last seen times is written and never read: it is left out. *)
(*                                                                         *)
(* Time is counted in weeks or less, of which any number may pass between  *)
(* two steps.  now is 1 at first; 0 is time.Time{} and a missing value.    *)
(***************************************************************************)
EXTENDS Naturals, Sequences

CONSTANTS
  Feeds, Pages,   \* keys feed/<URL> and pagemonitor/<URL>/<Match>/<Replace>
  Guids,          \* of the items of a feed
  Answers,        \* the GUIDs a feed may have when it is fetched, in its order
  WorkerFetchers, HandlerFetchers,
  NoKey,          \* a goroutine has no feed or page, no item
  TTL, Skip,      \* itemTTL and skipUpdateTTL
  Clock,          \* bound: the times at which anything happens
  LastFetch,      \* bound: no fetch starts or ends later
  MaxFetches,     \* bound: how many fetches there are
  MaxRestarts     \* bound: how often the process is killed or shut down

Keys == Feeds \union Pages
Items == Feeds \X Guids
Fetchers == WorkerFetchers \union HandlerFetchers
Collectors == {"worker", "main"}

ASSUME KeysAssumption ==
  /\ Feeds \intersect Pages = {}
  /\ NoKey \notin Keys \union Guids
  /\ Answers \subseteq Seq(Guids) \ {<<>>}
  /\ WorkerFetchers \intersect HandlerFetchers = {}

ASSUME TimeAssumption ==
  /\ TTL \in Nat \ {0}
  /\ Skip \in 1..TTL
  /\ Clock \in SUBSET (Nat \ {0}) /\ 1 \in Clock
  /\ LastFetch \in Nat
  /\ MaxFetches \in Nat
  /\ MaxRestarts \in Nat

VARIABLES
  now,
  fetches,      \* how many have begun
  restarts,
  (* the database *)
  items,        \* the items stored
  pages,        \* the pages stored
  itemIndex,    \* feed/<URL>/: the GUIDs listed
  lastSeen,     \* lastseen/<item>
  status,       \* fetchstatus/<key>
  statusIndex,  \* fetchstatus: the keys listed
  (* the fetches *)
  pc,
  key,          \* the feed or page
  todo,         \* the items of the answer still to save
  guid,         \* the item at hand
  stored,       \* it was there before
  snap,         \* an index as it was last read
  time,         \* currentTime of SetLastSeen
  newStatus,    \* the status to save
  (* deleteStaleFetchStatuses of each collector *)
  gc,           \* its pc
  gcNow,        \* its now
  gcItemsNow,   \* now of deleteExpiredItems
  gcKeys,       \* keys still to look at
  gcKey,
  gcGuids,      \* GUIDs still to look at
  gcGuid,
  gcSnap,       \* an index as it was last read
  (* history *)
  seen,         \* when an item was last seen by a fetch that could tell
  cut,          \* what was being fetched when the process ended, and not since
  met,          \* the feeds and pages at which two goroutines have met
  mislisted     \* those of which somebody had an index of statuses that was out of date

db == <<items, pages, itemIndex, lastSeen, status, statusIndex>>
fetchVars == <<pc, key, todo, guid, stored, snap, time, newStatus>>
gcVars == <<gc, gcNow, gcItemsNow, gcKeys, gcKey, gcGuids, gcGuid, gcSnap>>
history == <<seen, cut>>
vars == <<now, fetches, restarts, items, pages, itemIndex, lastSeen, status, statusIndex,
          pc, key, todo, guid, stored, snap, time, newStatus,
          gc, gcNow, gcItemsNow, gcKeys, gcKey, gcGuids, gcGuid, gcSnap, seen, cut, met, mislisted>>

NoStatus == [success |-> 0, failure |-> 0]

Latest(s) == IF s.success > s.failure THEN s.success ELSE s.failure

Init ==
  /\ now = 1
  /\ fetches = 0
  /\ restarts = 0
  /\ items = {}
  /\ pages = {}
  /\ itemIndex = [f \in Feeds |-> {}]
  /\ lastSeen = [i \in Items |-> 0]
  /\ status = [k \in Keys |-> NoStatus]
  /\ statusIndex = {}
  /\ pc = [j \in Fetchers |-> "idle"]
  /\ key = [j \in Fetchers |-> NoKey]
  /\ todo = [j \in Fetchers |-> <<>>]
  /\ guid = [j \in Fetchers |-> NoKey]
  /\ stored = [j \in Fetchers |-> FALSE]
  /\ snap = [j \in Fetchers |-> {}]
  /\ time = [j \in Fetchers |-> 0]
  /\ newStatus = [j \in Fetchers |-> NoStatus]
  /\ gc = [c \in Collectors |-> "idle"]
  /\ gcNow = [c \in Collectors |-> 0]
  /\ gcItemsNow = [c \in Collectors |-> 0]
  /\ gcKeys = [c \in Collectors |-> {}]
  /\ gcKey = [c \in Collectors |-> NoKey]
  /\ gcGuids = [c \in Collectors |-> {}]
  /\ gcGuid = [c \in Collectors |-> NoKey]
  /\ gcSnap = [c \in Collectors |-> {}]
  /\ seen = [i \in Items |-> 0]
  /\ cut = {}
  /\ met = {}
  /\ mislisted = {}

-----------------------------------------------------------------------------
Tick ==
  /\ \E t \in Clock : /\ t > now
                      /\ t > LastFetch => \A j \in Fetchers : pc[j] = "idle"
                      /\ now' = t
  /\ UNCHANGED <<fetches, restarts, db, fetchVars, gcVars, history>>

(* The process ends, and starts again with the database it has.            *)
ProcessEnds ==
  /\ pc' = [j \in Fetchers |-> "idle"]
  /\ key' = [j \in Fetchers |-> NoKey]
  /\ todo' = [j \in Fetchers |-> <<>>]
  /\ guid' = [j \in Fetchers |-> NoKey]
  /\ stored' = [j \in Fetchers |-> FALSE]
  /\ snap' = [j \in Fetchers |-> {}]
  /\ time' = [j \in Fetchers |-> 0]
  /\ newStatus' = [j \in Fetchers |-> NoStatus]
  /\ gc' = [c \in Collectors |-> "idle"]
  /\ gcNow' = [c \in Collectors |-> 0]
  /\ gcItemsNow' = [c \in Collectors |-> 0]
  /\ gcKeys' = [c \in Collectors |-> {}]
  /\ gcKey' = [c \in Collectors |-> NoKey]
  /\ gcGuids' = [c \in Collectors |-> {}]
  /\ gcGuid' = [c \in Collectors |-> NoKey]
  /\ gcSnap' = [c \in Collectors |-> {}]
  /\ cut' = cut \union {key[j] : j \in {i \in Fetchers : pc[i] # "idle"}}
  /\ UNCHANGED <<now, fetches, db, seen>>

(* It is killed.                                                           *)
Restart ==
  /\ restarts < MaxRestarts
  /\ restarts' = restarts + 1
  /\ ProcessEnds

-----------------------------------------------------------------------------
(* FetchFeed and FetchPage.  The worker fetches the pages of a user side   *)
(* by side, then the feeds, and collects garbage when all is done.  What   *)
(* is listed twice is fetched twice at the same time.                      *)

Goto(j, from, to) ==
  /\ pc[j] = from
  /\ pc' = [pc EXCEPT ![j] = to]

MayFetch(j, k) ==
  j \in WorkerFetchers =>
    /\ gc["worker"] = "idle"
    /\ \A w \in WorkerFetchers : pc[w] # "idle" => (key[w] \in Feeds <=> k \in Feeds)

StartFetch(j, k) ==
  /\ now <= LastFetch
  /\ fetches < MaxFetches
  /\ fetches' = fetches + 1
  /\ MayFetch(j, k)
  /\ Goto(j, "idle", "get")
  /\ key' = [key EXCEPT ![j] = k]
  /\ UNCHANGED <<now, restarts, db, todo, guid, stored, snap, time, newStatus, gcVars, history>>

(* No answer, nothing that parses, or a feed without items.                *)
GetFails(j) ==
  /\ Goto(j, "get", "failed")
  /\ UNCHANGED <<now, fetches, restarts, db, key, todo, guid, stored, snap, time, newStatus, gcVars, history>>

GetFeed(j, A) ==
  /\ key[j] \in Feeds
  /\ Goto(j, "get", "item")
  /\ todo' = [todo EXCEPT ![j] = A]
  /\ UNCHANGED <<now, fetches, restarts, db, key, guid, stored, snap, time, newStatus, gcVars, history>>

(* SavePage writes unless it finds the page as it is (PageMonitor).        *)
GetPage(j) ==
  /\ key[j] \in Pages
  /\ Goto(j, "get", "succeeded")
  /\ pages' = pages \union {key[j]}
  /\ UNCHANGED <<now, fetches, restarts, items, itemIndex, lastSeen, status, statusIndex,
                 key, todo, guid, stored, snap, time, newStatus, gcVars, history>>

-----------------------------------------------------------------------------
(* SaveFeeditems, for each item: addReferencedKey, GetFeeditem,            *)
(* SetLastSeen, Put.                                                       *)

ThisItem(j) == <<key[j], guid[j]>>

ReadItemIndex(j) ==
  /\ todo[j] # <<>>
  /\ LET g == Head(todo[j])
         listed == g \in itemIndex[key[j]]
     IN  /\ Goto(j, "item", IF listed THEN "previous" ELSE "index")
         /\ guid' = [guid EXCEPT ![j] = g]
         /\ snap' = [snap EXCEPT ![j] = IF listed THEN {} ELSE itemIndex[key[j]]]
  /\ todo' = [todo EXCEPT ![j] = Tail(@)]
  /\ UNCHANGED <<now, fetches, restarts, db, key, stored, time, newStatus, gcVars, history>>

(* Mutant: the index is written anew.                                      *)
PutNewIndex(j) ==
  /\ Goto(j, "index", "previous")
  /\ itemIndex' = [itemIndex EXCEPT ![key[j]] = {guid[j]}]
  /\ UNCHANGED <<now, fetches, restarts, items, pages, lastSeen, status, statusIndex,
                 key, todo, guid, stored, snap, time, newStatus, gcVars, history>>

(* Mutant: the index gets the key of the item, which purgeItem looks for.  *)
PutItemKey(j) ==
  /\ Goto(j, "index", "previous")
  /\ itemIndex' = [itemIndex EXCEPT ![key[j]] = snap[j] \union {ThisItem(j)}]
  /\ UNCHANGED <<now, fetches, restarts, items, pages, lastSeen, status, statusIndex,
                 key, todo, guid, stored, snap, time, newStatus, gcVars, history>>

PutItemIndex(j) ==
  /\ Goto(j, "index", "previous")
  /\ itemIndex' = [itemIndex EXCEPT ![key[j]] = snap[j] \union {guid[j]}]
  /\ snap' = [snap EXCEPT ![j] = {}]
  /\ UNCHANGED <<now, fetches, restarts, items, pages, lastSeen, status, statusIndex,
                 key, todo, guid, stored, time, newStatus, gcVars, history>>

GetPrevious(j) ==
  /\ Goto(j, "previous", "seen")
  /\ stored' = [stored EXCEPT ![j] = ThisItem(j) \in items]
  /\ UNCHANGED <<now, fetches, restarts, db, key, todo, guid, snap, time, newStatus, gcVars, history>>

(* SetLastSeen: a time that is not half a TTL old is left.                 *)
(* Mutant: a time is never renewed.                                        *)
SeenOnce(i) ==
  lastSeen[i] # 0

SeenLately(i) ==
  lastSeen[i] # 0 /\ now < lastSeen[i] + Skip

SkipLastSeen(j) ==
  /\ Goto(j, "seen", "put")
  /\ SeenLately(ThisItem(j))
  /\ seen' = [seen EXCEPT ![ThisItem(j)] = now]
  /\ UNCHANGED <<now, fetches, restarts, db, key, todo, guid, stored, snap, time, newStatus, gcVars, cut>>

GetLastSeen(j) ==
  /\ Goto(j, "seen", "putseen")
  /\ ~SeenLately(ThisItem(j))
  /\ time' = [time EXCEPT ![j] = now]
  /\ UNCHANGED <<now, fetches, restarts, db, key, todo, guid, stored, snap, newStatus, gcVars, history>>

PutLastSeen(j) ==
  /\ Goto(j, "putseen", "put")
  /\ lastSeen' = [lastSeen EXCEPT ![ThisItem(j)] = time[j]]
  /\ seen' = [seen EXCEPT ![ThisItem(j)] = time[j]]
  /\ time' = [time EXCEPT ![j] = 0]
  /\ UNCHANGED <<now, fetches, restarts, items, pages, itemIndex, status, statusIndex,
                 key, todo, guid, stored, snap, newStatus, gcVars, cut>>

(* The next item.                                                          *)
NextItem(j) ==
  /\ Goto(j, "put", "item")
  /\ guid' = [guid EXCEPT ![j] = NoKey]
  /\ stored' = [stored EXCEPT ![j] = FALSE]
  /\ UNCHANGED <<now, fetches, restarts, pages, itemIndex, lastSeen, status, statusIndex,
                 key, todo, snap, time, newStatus, gcVars, history>>

PutItem(j) ==
  /\ NextItem(j)
  /\ items' = items \union {ThisItem(j)}

ItemUnchanged(j) ==
  /\ NextItem(j)
  /\ stored[j]
  /\ UNCHANGED items

ItemsSaved(j) ==
  /\ Goto(j, "item", "succeeded")
  /\ todo[j] = <<>>
  /\ UNCHANGED <<now, fetches, restarts, db, key, todo, guid, stored, snap, time, newStatus, gcVars, history>>

SaveItems(j) ==
  \/ ReadItemIndex(j)
  \/ PutItemIndex(j)
  \/ GetPrevious(j)
  \/ SkipLastSeen(j)
  \/ GetLastSeen(j)
  \/ PutLastSeen(j)
  \/ PutItem(j)
  \/ ItemUnchanged(j)
  \/ ItemsSaved(j)

-----------------------------------------------------------------------------
(* SetFetchStatus: the status is read, the index updated, the status       *)
(* written.                                                                *)

NewStatus(j) ==
  IF pc[j] = "succeeded" THEN [status[key[j]] EXCEPT !.success = now]
                         ELSE [status[key[j]] EXCEPT !.failure = now]

ReadStatus(j) ==
  /\ pc[j] \in {"succeeded", "failed"}
  /\ pc' = [pc EXCEPT ![j] = "list"]
  /\ newStatus' = [newStatus EXCEPT ![j] = NewStatus(j)]
  /\ UNCHANGED <<now, fetches, restarts, db, key, todo, guid, stored, snap, time, gcVars, history>>

ReadStatusIndex(j) ==
  /\ Goto(j, "list", IF key[j] \in statusIndex THEN "putstatus" ELSE "listing")
  /\ snap' = [snap EXCEPT ![j] = IF key[j] \in statusIndex THEN {} ELSE statusIndex]
  /\ UNCHANGED <<now, fetches, restarts, db, key, todo, guid, stored, time, newStatus, gcVars, history>>

PutStatusIndex(j) ==
  /\ Goto(j, "listing", "putstatus")
  /\ statusIndex' = snap[j] \union {key[j]}
  /\ snap' = [snap EXCEPT ![j] = {}]
  /\ UNCHANGED <<now, fetches, restarts, items, pages, itemIndex, lastSeen, status,
                 key, todo, guid, stored, time, newStatus, gcVars, history>>

PutStatus(j) ==
  /\ Goto(j, "putstatus", "idle")
  /\ status' = [status EXCEPT ![key[j]] = newStatus[j]]
  /\ key' = [key EXCEPT ![j] = NoKey]
  /\ newStatus' = [newStatus EXCEPT ![j] = NoStatus]
  /\ cut' = cut \ {key[j]}
  /\ UNCHANGED <<now, fetches, restarts, items, pages, itemIndex, lastSeen, statusIndex,
                 todo, guid, stored, snap, time, gcVars, seen>>

SetFetchStatus(j) ==
  \/ ReadStatus(j)
  \/ ReadStatusIndex(j)
  \/ PutStatusIndex(j)
  \/ PutStatus(j)

FetchStep(j) ==
  \/ GetFails(j)
  \/ \E A \in Answers : GetFeed(j, A)
  \/ GetPage(j)
  \/ SaveItems(j)
  \/ SetFetchStatus(j)

-----------------------------------------------------------------------------
(* DBService.GC: deleteStaleFetchStatuses, with deleteExpiredItems for a   *)
(* feed.                                                                   *)

GCGoto(c, from, to) ==
  /\ gc[c] = from
  /\ gc' = [gc EXCEPT ![c] = to]

StartGC(c) ==
  /\ GCGoto(c, "idle", "statuses")
  /\ gcNow' = [gcNow EXCEPT ![c] = now]
  /\ gcKeys' = [gcKeys EXCEPT ![c] = statusIndex]
  /\ UNCHANGED <<now, fetches, db, fetchVars, gcItemsNow, gcKey, gcGuids, gcGuid, gcSnap, history>>

StartWorkerGC ==
  /\ \A w \in WorkerFetchers : pc[w] = "idle"
  /\ StartGC("worker")
  /\ UNCHANGED restarts

(* serve has returned: the worker and the requests go on.                  *)
Shutdown ==
  /\ restarts < MaxRestarts
  /\ restarts' = restarts + 1
  /\ StartGC("main")

Expired(c, k) == status[k] # NoStatus /\ gcNow[c] > Latest(status[k]) + TTL

(* A status that is missing is an error, and the key is passed over.       *)
KeepStatus(c, k) ==
  /\ GCGoto(c, "statuses", "statuses")
  /\ k \in gcKeys[c]
  /\ ~Expired(c, k)
  /\ gcKeys' = [gcKeys EXCEPT ![c] = @ \ {k}]
  /\ UNCHANGED <<now, fetches, restarts, db, fetchVars, gcNow, gcItemsNow, gcKey, gcGuids, gcGuid, gcSnap, history>>

(* Mutant: the items of a feed are forgotten.                              *)
StaleStatusOnly(c, k) ==
  /\ GCGoto(c, "statuses", "delete")
  /\ k \in gcKeys[c]
  /\ Expired(c, k)
  /\ gcKeys' = [gcKeys EXCEPT ![c] = @ \ {k}]
  /\ gcKey' = [gcKey EXCEPT ![c] = k]
  /\ UNCHANGED <<now, fetches, restarts, db, fetchVars, gcNow, gcItemsNow, gcGuids, gcGuid, gcSnap, history>>

StaleStatus(c, k) ==
  /\ GCGoto(c, "statuses", IF k \in Feeds THEN "list" ELSE "delete")
  /\ k \in gcKeys[c]
  /\ Expired(c, k)
  /\ gcKeys' = [gcKeys EXCEPT ![c] = @ \ {k}]
  /\ gcKey' = [gcKey EXCEPT ![c] = k]
  /\ UNCHANGED <<now, fetches, restarts, db, fetchVars, gcNow, gcItemsNow, gcGuids, gcGuid, gcSnap, history>>

ListItems(c) ==
  /\ GCGoto(c, "list", "items")
  /\ gcItemsNow' = [gcItemsNow EXCEPT ![c] = now]
  /\ gcGuids' = [gcGuids EXCEPT ![c] = itemIndex[gcKey[c]]]
  /\ UNCHANGED <<now, fetches, restarts, db, fetchVars, gcNow, gcKeys, gcKey, gcGuid, gcSnap, history>>

(* A last seen time that is missing counts as long ago.                    *)
Old(c, g) == lastSeen[<<gcKey[c], g>>] = 0 \/ gcItemsNow[c] >= lastSeen[<<gcKey[c], g>>] + TTL

KeepItem(c, g) ==
  /\ GCGoto(c, "items", "items")
  /\ g \in gcGuids[c]
  /\ ~Old(c, g)
  /\ gcGuids' = [gcGuids EXCEPT ![c] = @ \ {g}]
  /\ UNCHANGED <<now, fetches, restarts, db, fetchVars, gcNow, gcItemsNow, gcKeys, gcKey, gcGuid, gcSnap, history>>

OldItem(c, g) ==
  /\ GCGoto(c, "items", "purge")
  /\ g \in gcGuids[c]
  /\ Old(c, g)
  /\ gcGuids' = [gcGuids EXCEPT ![c] = @ \ {g}]
  /\ gcGuid' = [gcGuid EXCEPT ![c] = g]
  /\ UNCHANGED <<now, fetches, restarts, db, fetchVars, gcNow, gcItemsNow, gcKeys, gcKey, gcSnap, history>>

DeleteItem(c) ==
  /\ GCGoto(c, "purge", "purgeseen")
  /\ items' = items \ {<<gcKey[c], gcGuid[c]>>}
  /\ UNCHANGED <<now, fetches, restarts, pages, itemIndex, lastSeen, status, statusIndex, fetchVars,
                 gcNow, gcItemsNow, gcKeys, gcKey, gcGuids, gcGuid, gcSnap, history>>

DeleteLastSeen(c) ==
  /\ GCGoto(c, "purgeseen", "purgeindex")
  /\ lastSeen' = [lastSeen EXCEPT ![<<gcKey[c], gcGuid[c]>>] = 0]
  /\ UNCHANGED <<now, fetches, restarts, items, pages, itemIndex, status, statusIndex, fetchVars,
                 gcNow, gcItemsNow, gcKeys, gcKey, gcGuids, gcGuid, gcSnap, history>>

(* deleteReferencedKey is given the key of the item, and the index holds   *)
(* GUIDs: no entry equals it, and the index is written back as it was      *)
(* read.                                                                   *)
ReadPurgedIndex(c) ==
  /\ GCGoto(c, "purgeindex", "purging")
  /\ gcSnap' = [gcSnap EXCEPT ![c] = itemIndex[gcKey[c]]]
  /\ UNCHANGED <<now, fetches, restarts, db, fetchVars, gcNow, gcItemsNow, gcKeys, gcKey, gcGuids, gcGuid, history>>

PutPurgedIndex(c) ==
  /\ GCGoto(c, "purging", "items")
  /\ itemIndex' = [itemIndex EXCEPT ![gcKey[c]] = gcSnap[c]]
  /\ gcGuid' = [gcGuid EXCEPT ![c] = NoKey]
  /\ gcSnap' = [gcSnap EXCEPT ![c] = {}]
  /\ UNCHANGED <<now, fetches, restarts, items, pages, lastSeen, status, statusIndex, fetchVars,
                 gcNow, gcItemsNow, gcKeys, gcKey, gcGuids, history>>

ItemsDone(c) ==
  /\ GCGoto(c, "items", "delete")
  /\ gcGuids[c] = {}
  /\ gcItemsNow' = [gcItemsNow EXCEPT ![c] = 0]
  /\ UNCHANGED <<now, fetches, restarts, db, fetchVars, gcNow, gcKeys, gcKey, gcGuids, gcGuid, gcSnap, history>>

(* Delete(k): a page; nothing is stored under the key of a feed.           *)
DeletePage(c) ==
  /\ GCGoto(c, "delete", "forget")
  /\ pages' = pages \ {gcKey[c]}
  /\ UNCHANGED <<now, fetches, restarts, items, itemIndex, lastSeen, status, statusIndex, fetchVars,
                 gcNow, gcItemsNow, gcKeys, gcKey, gcGuids, gcGuid, gcSnap, history>>

DeleteStatus(c) ==
  /\ GCGoto(c, "forget", "unlist")
  /\ status' = [status EXCEPT ![gcKey[c]] = NoStatus]
  /\ UNCHANGED <<now, fetches, restarts, items, pages, itemIndex, lastSeen, statusIndex, fetchVars,
                 gcNow, gcItemsNow, gcKeys, gcKey, gcGuids, gcGuid, gcSnap, history>>

ReadUnlisted(c) ==
  /\ GCGoto(c, "unlist", "unlisting")
  /\ gcSnap' = [gcSnap EXCEPT ![c] = statusIndex]
  /\ UNCHANGED <<now, fetches, restarts, db, fetchVars, gcNow, gcItemsNow, gcKeys, gcKey, gcGuids, gcGuid, history>>

PutUnlisted(c) ==
  /\ GCGoto(c, "unlisting", "statuses")
  /\ statusIndex' = gcSnap[c] \ {gcKey[c]}
  /\ gcKey' = [gcKey EXCEPT ![c] = NoKey]
  /\ gcSnap' = [gcSnap EXCEPT ![c] = {}]
  /\ UNCHANGED <<now, fetches, restarts, items, pages, itemIndex, lastSeen, status, fetchVars,
                 gcNow, gcItemsNow, gcKeys, gcGuids, gcGuid, history>>

EndGC ==
  /\ GCGoto("worker", "statuses", "idle")
  /\ gcKeys["worker"] = {}
  /\ gcNow' = [gcNow EXCEPT !["worker"] = 0]
  /\ UNCHANGED <<now, fetches, restarts, db, fetchVars, gcItemsNow, gcKeys, gcKey, gcGuids, gcGuid, gcSnap, history>>

(* After its GC main closes the database, and the process ends.            *)
Exit ==
  /\ gc["main"] = "statuses"
  /\ gcKeys["main"] = {}
  /\ ProcessEnds
  /\ UNCHANGED restarts

GCStep(c) ==
  \/ \E k \in Keys : KeepStatus(c, k) \/ StaleStatus(c, k)
  \/ ListItems(c)
  \/ \E g \in Guids : KeepItem(c, g) \/ OldItem(c, g)
  \/ DeleteItem(c) \/ DeleteLastSeen(c) \/ ReadPurgedIndex(c) \/ PutPurgedIndex(c)
  \/ ItemsDone(c)
  \/ DeletePage(c) \/ DeleteStatus(c) \/ ReadUnlisted(c) \/ PutUnlisted(c)

-----------------------------------------------------------------------------
(* History.  Two goroutines work on the same feed or page.                 *)
Fetching(j, k) == key[j] = k /\ pc[j] \notin {"idle", "get"}

Collecting(c, k) == gcKey[c] = k /\ gc[c] \notin {"idle", "statuses"}

Crowded(k) ==
  \/ \E i, j \in Fetchers : i # j /\ Fetching(i, k) /\ Fetching(j, k)
  \/ \E j \in Fetchers, c \in Collectors : Fetching(j, k) /\ Collecting(c, k)
  \/ \A c \in Collectors : Collecting(c, k)

(* Somebody is about to write back an index of fetch statuses in which k   *)
(* is not as it is stored by now.                                          *)
OutOfDate(k) ==
  \/ \E j \in Fetchers : pc[j] = "listing" /\ (k \in snap[j]) # (k \in statusIndex)
  \/ \E c \in Collectors : gc[c] = "unlisting" /\ (k \in gcSnap[c]) # (k \in statusIndex)

Remember ==
  /\ met' = met \union {k \in Keys : Crowded(k)'}
  /\ mislisted' = mislisted \union {k \in Keys : OutOfDate(k)'}

-----------------------------------------------------------------------------
Step ==
  \/ Tick
  \/ Restart
  \/ \E j \in Fetchers : \/ \E k \in Keys : StartFetch(j, k)
                        \/ FetchStep(j)
  \/ StartWorkerGC
  \/ EndGC
  \/ Shutdown
  \/ Exit
  \/ \E c \in Collectors : GCStep(c)

Next == Step /\ Remember

Spec == Init /\ [][Next]_vars

(* Time passes, the worker's GC runs again and again, and what runs goes   *)
(* on (for a fetch: the site answers, be it with an error).                *)
Fairness ==
  /\ WF_vars(Tick /\ Remember)
  /\ WF_vars((\E j \in Fetchers : FetchStep(j)) /\ Remember)
  /\ WF_vars((GCStep("worker") \/ EndGC) /\ Remember)
  /\ WF_vars((GCStep("main") \/ Exit) /\ Remember)
  /\ SF_vars(StartWorkerGC /\ Remember)

FairSpec == Spec /\ Fairness

-----------------------------------------------------------------------------
(* Properties.                                                             *)

FetchPCs == {"idle", "get", "item", "index", "previous", "seen", "putseen", "put",
             "succeeded", "failed", "list", "listing", "putstatus"}
GCPCs == {"idle", "statuses", "list", "items", "purge", "purgeseen", "purgeindex", "purging",
          "delete", "forget", "unlist", "unlisting"}
Times == Clock \union {0}
Statuses == [success : Times, failure : Times]

(* Every variable has its type; nothing but GUIDs gets into the index of   *)
(* the items of a feed (SaveFeeditems, purgeItem).                         *)
TypeOK ==
  /\ now \in Times
  /\ fetches \in 0..MaxFetches
  /\ restarts \in 0..MaxRestarts
  /\ items \in SUBSET Items
  /\ pages \in SUBSET Pages
  /\ itemIndex \in [Feeds -> SUBSET Guids]
  /\ lastSeen \in [Items -> Times]
  /\ status \in [Keys -> Statuses]
  /\ statusIndex \in SUBSET Keys
  /\ pc \in [Fetchers -> FetchPCs]
  /\ key \in [Fetchers -> Keys \union {NoKey}]
  /\ todo \in [Fetchers -> Seq(Guids)]
  /\ guid \in [Fetchers -> Guids \union {NoKey}]
  /\ stored \in [Fetchers -> BOOLEAN]
  /\ snap \in [Fetchers -> SUBSET (Keys \union Guids)]
  /\ time \in [Fetchers -> Times]
  /\ newStatus \in [Fetchers -> Statuses]
  /\ gc \in [Collectors -> GCPCs]
  /\ gcNow \in [Collectors -> Times]
  /\ gcItemsNow \in [Collectors -> Times]
  /\ gcKeys \in [Collectors -> SUBSET Keys]
  /\ gcKey \in [Collectors -> Keys \union {NoKey}]
  /\ gcGuids \in [Collectors -> SUBSET Guids]
  /\ gcGuid \in [Collectors -> Guids \union {NoKey}]
  /\ gcSnap \in [Collectors -> SUBSET (Keys \union Guids)]
  /\ seen \in [Items -> Times]
  /\ cut \in SUBSET Keys
  /\ met \in SUBSET Keys
  /\ mislisted \in SUBSET Keys

(* Every item that is stored is in the index of its feed, also when the    *)
(* process was killed between two writes: otherwise GetFeeditems never     *)
(* shows it and no GC deletes it.  It takes two goroutines that work on    *)
(* the same feed at the same time to break this.                           *)
ItemsListed == \A i \in items : i[1] \notin met => i[2] \in itemIndex[i[1]]

(* The GC deletes no item that a fetch has seen less than half a TTL ago,  *)
(* although SetLastSeen skips updates and the process may be killed before *)
(* the fetch status is written; nor does that of main, unless it comes to  *)
(* the feed while somebody works on it.                                    *)
FreshItemsKept ==
  [][\A i \in items \ items' : i[1] \notin met => now > seen[i] + (TTL - Skip)]_vars

(* Every feed with an item and every page has its fetch status listed,     *)
(* without which the GC never comes to it, except while it is fetched (the *)
(* items are saved first, the status last) and where the process ended     *)
(* then, until it is fetched again.  However many fetches and GCs run, it  *)
(* takes one that writes back an old index of statuses, or two that work   *)
(* on the same feed or page, to break this.                                *)
Kept(k) == k \in pages \/ \E g \in Guids : <<k, g>> \in items

Sound == Keys \ (cut \union met \union mislisted)

StoredIsCollectable ==
  \A k \in Sound :
    Kept(k) /\ (\A j \in Fetchers : key[j] # k) => k \in statusIndex /\ status[k] # NoStatus

(* Once a feed or page is not fetched any more, its items, its page and    *)
(* its status are deleted in the end, with the same exceptions.  Its entry *)
(* in the index of statuses goes too, but not where the process ended      *)
(* after the status went: a listed key without status is passed over.      *)
Gone(k) ==
  /\ ~ Kept(k)
  /\ status[k] = NoStatus
  /\ restarts = 0 => k \notin statusIndex

AbandonedIsDeleted == <>[](\A k \in Sound : Gone(k))
=============================================================================
