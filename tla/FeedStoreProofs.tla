--------------------------- MODULE FeedStoreProofs ---------------------------
(***************************************************************************)
(* What FeedStore keeps true for any number of feeds, pages, items and     *)
(* fetches, any TTL and any bounds.                                        *)
(***************************************************************************)
EXTENDS FeedStore, TLAPS

-----------------------------------------------------------------------------
(* Types.  A goroutine has what it works on, and an index that was read is *)
(* written back where it belongs.                                          *)
FetchLocals ==
  \A j \in Fetchers :
    /\ pc[j] # "idle" => key[j] \in Keys
    /\ pc[j] \in {"item", "index", "previous", "seen", "putseen", "put"} => key[j] \in Feeds
    /\ pc[j] \in {"index", "previous", "seen", "putseen", "put"} => guid[j] \in Guids
    /\ pc[j] = "index" => snap[j] \subseteq Guids
    /\ pc[j] = "listing" => snap[j] \subseteq Keys

GCLocals ==
  \A c \in Collectors :
    /\ gc[c] \notin {"idle", "statuses"} => gcKey[c] \in Keys
    /\ gc[c] \in {"list", "items", "purge", "purgeseen", "purgeindex", "purging"} => gcKey[c] \in Feeds
    /\ gc[c] \in {"purge", "purgeseen", "purgeindex", "purging"} => gcGuid[c] \in Guids
    /\ gc[c] = "purging" => gcSnap[c] \subseteq Guids
    /\ gc[c] = "unlisting" => gcSnap[c] \subseteq Keys

HistoryTypes == met \in SUBSET Keys /\ mislisted \in SUBSET Keys

Typed == TypeOK /\ FetchLocals /\ GCLocals

(* Times are natural numbers.                                              *)
LEMMA TimesAreNats == Times \subseteq Nat /\ TTL \in Nat /\ Skip \in Nat /\ Skip > 0 /\ Skip <= TTL
BY TimeAssumption DEF Times

(* No status is a status, and so is one of which a time is replaced.       *)
LEMMA StatusTypes ==
  /\ 0 \in Times
  /\ NoStatus \in Statuses
  /\ \A s \in Statuses, t \in Times :
       [s EXCEPT !.success = t] \in Statuses /\ [s EXCEPT !.failure = t] \in Statuses
<1>1. 0 \in Times
  BY TimeAssumption DEF Times
<1>2. NoStatus \in Statuses
  BY <1>1 DEF NoStatus, Statuses
<1>3. ASSUME NEW s \in Statuses, NEW t \in Times
      PROVE  [s EXCEPT !.success = t] \in Statuses /\ [s EXCEPT !.failure = t] \in Statuses
  BY DEF Statuses
<1> QED
  BY <1>1, <1>2, <1>3

(* Every step of a fetch keeps the types.                                  *)
LEMMA FetchTypes ==
  ASSUME Typed, HistoryTypes', NEW j \in Fetchers, (\E k \in Keys : StartFetch(j, k)) \/ FetchStep(j)
  PROVE  Typed'
<1> USE DEF Typed, TypeOK, HistoryTypes, FetchLocals, GCLocals, FetchPCs, Goto, db, gcVars, history
<1>1. ASSUME NEW k \in Keys, StartFetch(j, k)
      PROVE  Typed'
  BY <1>1, TimeAssumption DEF StartFetch
<1>2. ASSUME GetFails(j)
      PROVE  Typed'
  BY <1>2 DEF GetFails
<1>3. ASSUME NEW A \in Answers, GetFeed(j, A)
      PROVE  Typed'
  BY <1>3, KeysAssumption DEF GetFeed
<1>4. ASSUME GetPage(j)
      PROVE  Typed'
  BY <1>4 DEF GetPage
<1>5. ASSUME ReadItemIndex(j)
      PROVE  Typed'
  BY <1>5 DEF ReadItemIndex
<1>6. ASSUME PutItemIndex(j)
      PROVE  Typed'
  BY <1>6 DEF PutItemIndex
<1>7. ASSUME GetPrevious(j)
      PROVE  Typed'
  BY <1>7 DEF GetPrevious
<1>8. ASSUME SkipLastSeen(j)
      PROVE  Typed'
  BY <1>8 DEF SkipLastSeen
<1>9. ASSUME GetLastSeen(j)
      PROVE  Typed'
  BY <1>9 DEF GetLastSeen
<1>10. ASSUME PutLastSeen(j)
       PROVE  Typed'
  BY <1>10, StatusTypes DEF PutLastSeen
<1>11. ASSUME PutItem(j)
       PROVE  Typed'
  BY <1>11 DEF PutItem, NextItem, ThisItem, Items
<1>12. ASSUME ItemUnchanged(j) \/ ItemsSaved(j)
       PROVE  Typed'
  BY <1>12 DEF ItemUnchanged, NextItem, ItemsSaved
<1>13. ASSUME ReadStatus(j)
       PROVE  Typed'
  <2>1. NewStatus(j) \in Statuses
    BY <1>13, StatusTypes DEF ReadStatus, NewStatus
  <2> QED
    BY <1>13, <2>1 DEF ReadStatus
<1>14. ASSUME ReadStatusIndex(j)
       PROVE  Typed'
  BY <1>14 DEF ReadStatusIndex
<1>15. ASSUME PutStatusIndex(j)
       PROVE  Typed'
  BY <1>15 DEF PutStatusIndex
<1>16. ASSUME PutStatus(j)
       PROVE  Typed'
  BY <1>16, StatusTypes DEF PutStatus
<1> QED
  BY <1>1, <1>2, <1>3, <1>4, <1>5, <1>6, <1>7, <1>8, <1>9, <1>10, <1>11, <1>12, <1>13, <1>14,
     <1>15, <1>16 DEF FetchStep, SaveItems, SetFetchStatus

(* Every step of a GC keeps the types.                                     *)
LEMMA GCTypes ==
  ASSUME Typed, HistoryTypes', NEW c \in Collectors, StartGC(c) \/ GCStep(c), restarts' \in 0..MaxRestarts
  PROVE  Typed'
<1> USE DEF Typed, TypeOK, HistoryTypes, FetchLocals, GCLocals, GCPCs, GCGoto, db, fetchVars, history
<1>1. ASSUME StartGC(c)
      PROVE  Typed'
  BY <1>1 DEF StartGC
<1>2. ASSUME NEW k \in Keys, KeepStatus(c, k) \/ StaleStatus(c, k)
      PROVE  Typed'
  <2>1. CASE KeepStatus(c, k)
    BY <2>1 DEF KeepStatus
  <2>2. CASE StaleStatus(c, k)
    BY <2>2 DEF StaleStatus
  <2> QED
    BY <1>2, <2>1, <2>2
<1>3. ASSUME ListItems(c)
      PROVE  Typed'
  BY <1>3 DEF ListItems
<1>4. ASSUME NEW g \in Guids, KeepItem(c, g) \/ OldItem(c, g)
      PROVE  Typed'
  <2>1. CASE KeepItem(c, g)
    BY <2>1 DEF KeepItem
  <2>2. CASE OldItem(c, g)
    BY <2>2 DEF OldItem
  <2> QED
    BY <1>4, <2>1, <2>2
<1>5. ASSUME DeleteItem(c)
      PROVE  Typed'
  BY <1>5 DEF DeleteItem
<1>6. ASSUME DeleteLastSeen(c)
      PROVE  Typed'
  BY <1>6, StatusTypes DEF DeleteLastSeen
<1>7. ASSUME ReadPurgedIndex(c) \/ ItemsDone(c)
      PROVE  Typed'
  <2>1. CASE ReadPurgedIndex(c)
    BY <2>1 DEF ReadPurgedIndex
  <2>2. CASE ItemsDone(c)
    BY <2>2, StatusTypes DEF ItemsDone
  <2> QED
    BY <1>7, <2>1, <2>2
<1>8. ASSUME PutPurgedIndex(c)
      PROVE  Typed'
  BY <1>8 DEF PutPurgedIndex
<1>9. ASSUME DeletePage(c)
      PROVE  Typed'
  BY <1>9 DEF DeletePage
<1>10. ASSUME DeleteStatus(c)
       PROVE  Typed'
  BY <1>10, StatusTypes DEF DeleteStatus
<1>11. ASSUME ReadUnlisted(c)
       PROVE  Typed'
  BY <1>11 DEF ReadUnlisted
<1>12. ASSUME PutUnlisted(c)
       PROVE  Typed'
  BY <1>12 DEF PutUnlisted
<1> QED
  BY <1>1, <1>2, <1>3, <1>4, <1>5, <1>6, <1>7, <1>8, <1>9, <1>10, <1>11, <1>12 DEF GCStep

(* The end of the process leaves nothing running.                          *)
LEMMA EndTypes ==
  ASSUME Typed, HistoryTypes', ProcessEnds, restarts' \in 0..MaxRestarts
  PROVE  Typed'
<1>1. cut' \in SUBSET Keys
  BY DEF ProcessEnds, Typed, TypeOK, FetchLocals
<1> QED
  BY <1>1, StatusTypes DEF ProcessEnds, Typed, TypeOK, HistoryTypes, FetchLocals, GCLocals, FetchPCs, GCPCs, db

(* What is remembered only grows.                                          *)
LEMMA HistoryGrows ==
  ASSUME Typed, Remember
  PROVE  met \subseteq met' /\ mislisted \subseteq mislisted' /\ HistoryTypes'
  BY DEF Typed, TypeOK, Remember, HistoryTypes

(* Types are kept.                                                         *)
LEMMA TypeStep == Typed /\ [Next]_vars => Typed'
<1> SUFFICES ASSUME Typed, [Next]_vars
             PROVE  Typed'
  OBVIOUS
<1>1. CASE UNCHANGED vars
  BY <1>1 DEF vars, Typed, TypeOK, FetchLocals, GCLocals
<1>2. CASE Next
  <2>0. HistoryTypes'
    BY <1>2, HistoryGrows DEF Next
  <2>1. CASE Tick
    BY <2>0, <2>1, TimeAssumption
       DEF Tick, Typed, TypeOK, HistoryTypes, FetchLocals, GCLocals, Times, db, fetchVars, gcVars, history
  <2>2. ASSUME Restart \/ Exit
        PROVE  Typed'
    <3>1. restarts' \in 0..MaxRestarts
      BY <2>2, TimeAssumption DEF Restart, Exit, Typed, TypeOK
    <3> QED
      BY <2>0, <2>2, <3>1, EndTypes DEF Restart, Exit
  <2>3. ASSUME StartWorkerGC \/ Shutdown \/ \E c \in Collectors : GCStep(c)
        PROVE  Typed'
    <3>0. restarts \in 0..MaxRestarts /\ MaxRestarts \in Nat
      BY TimeAssumption DEF Typed, TypeOK
    <3>1. CASE StartWorkerGC
      BY <2>0, <3>0, <3>1, GCTypes DEF StartWorkerGC, Collectors
    <3>2. CASE Shutdown
      <4>1. restarts' \in 0..MaxRestarts
        BY <3>0, <3>2 DEF Shutdown
      <4> QED
        BY <2>0, <3>2, <4>1, GCTypes DEF Shutdown, Collectors
    <3>3. ASSUME NEW c \in Collectors, GCStep(c)
          PROVE  Typed'
      <4>1. UNCHANGED restarts
        BY <3>3 DEF GCStep, KeepStatus, StaleStatus, ListItems, KeepItem, OldItem, DeleteItem, DeleteLastSeen,
           ReadPurgedIndex, PutPurgedIndex, ItemsDone, DeletePage, DeleteStatus, ReadUnlisted, PutUnlisted
      <4> QED
        BY <2>0, <3>0, <3>3, <4>1, GCTypes
    <3> QED
      BY <2>3, <3>1, <3>2, <3>3
  <2>4. CASE EndGC
    BY <2>0, <2>4, StatusTypes
       DEF EndGC, GCGoto, Typed, TypeOK, HistoryTypes, FetchLocals, GCLocals, GCPCs, Collectors, db, fetchVars, history
  <2> QED
    BY <1>2, <2>0, <2>1, <2>2, <2>3, <2>4, FetchTypes DEF Next, Step
<1> QED
  BY <1>1, <1>2

(* At the start the store is empty and nothing runs.                       *)
LEMMA TypeInit == Init => Typed
BY TimeAssumption DEF Init, Typed, TypeOK, FetchLocals, GCLocals, FetchPCs, GCPCs, NoStatus,
                      Statuses, Times

(* The types hold; nothing but GUIDs gets into the index of a feed, though *)
(* the GCs and any number of fetches write back what they read.            *)
THEOREM FeedTypes == Spec => []TypeOK
<1>1. Typed => TypeOK
  BY DEF Typed
<1> QED
  BY <1>1, TypeInit, TypeStep, PTL DEF Spec

-----------------------------------------------------------------------------
(* Apart.  Where no two goroutines have met, one fetch or one collector at *)
(* most works on a feed or page, and where no index of statuses was out of *)
(* date, whoever is to write it back agrees with it.                       *)
Apart(k) ==
  /\ \A i, j \in Fetchers : Fetching(i, k) /\ Fetching(j, k) => i = j
  /\ \A j \in Fetchers, c \in Collectors : ~ (Fetching(j, k) /\ Collecting(c, k))
  /\ \A c, d \in Collectors : Collecting(c, k) /\ Collecting(d, k) => c = d

HistoryInv ==
  \A k \in Keys : /\ k \notin met => Apart(k)
                  /\ k \notin mislisted => ~ OutOfDate(k)

(* Remember sees to it.                                                    *)
LEMMA HistoryStep == HistoryInv /\ [Next]_vars => HistoryInv'
<1> SUFFICES ASSUME HistoryInv, [Next]_vars
             PROVE  HistoryInv'
  OBVIOUS
<1>1. CASE UNCHANGED vars
  BY <1>1 DEF vars, HistoryInv, Apart, OutOfDate, Fetching, Collecting
<1>2. CASE Next
  <2>1. ASSUME NEW k \in Keys, k \notin met'
        PROVE  Apart(k)'
    <3>1. ~ Crowded(k)'
      BY <1>2, <2>1 DEF Next, Remember
    <3>2. \A c, d \in Collectors : c # d => \A e \in Collectors : e \in {c, d}
      BY DEF Collectors
    <3> QED
      BY <3>1, <3>2 DEF Apart, Crowded
  <2>2. ASSUME NEW k \in Keys, k \notin mislisted'
        PROVE  ~ OutOfDate(k)'
    BY <1>2, <2>2 DEF Next, Remember
  <2> QED
    BY <2>1, <2>2 DEF HistoryInv
<1> QED
  BY <1>1, <1>2

LEMMA HistoryInit == Init => HistoryInv
BY DEF Init, HistoryInv, Apart, OutOfDate, Fetching, Collecting

-----------------------------------------------------------------------------
(* Listed.  The GUID of an item is in the index before the item is stored, *)
(* and whoever writes the index back has read all that is in it.           *)
ListedAt(f) ==
  /\ \A g \in Guids : <<f, g>> \in items => g \in itemIndex[f]
  /\ \A j \in Fetchers : key[j] = f =>
       /\ pc[j] = "index" => itemIndex[f] \subseteq snap[j]
       /\ pc[j] \in {"previous", "seen", "putseen", "put"} => guid[j] \in itemIndex[f]
  /\ \A c \in Collectors : gcKey[c] = f /\ gc[c] = "purging" => itemIndex[f] \subseteq gcSnap[c]

ListedInv == \A f \in Feeds : f \notin met => ListedAt(f)

(* Each step of a fetch keeps it.                                          *)
LEMMA FetchListed ==
  ASSUME Typed, NEW f \in Feeds, Apart(f), ListedAt(f), NEW j \in Fetchers,
         (\E k \in Keys : StartFetch(j, k)) \/ FetchStep(j)
  PROVE  ListedAt(f)'
<1> USE DEF Typed, TypeOK, FetchLocals, GCLocals, Apart, Fetching, Collecting, ListedAt, Items, Goto,
            db, gcVars
<1>1. ASSUME NEW k \in Keys, StartFetch(j, k)
      PROVE  ListedAt(f)'
  BY <1>1 DEF StartFetch
<1>2. ASSUME GetFails(j) \/ GetPage(j) \/ \E A \in Answers : GetFeed(j, A)
      PROVE  ListedAt(f)'
  BY <1>2 DEF GetFails, GetPage, GetFeed
<1>3. ASSUME ReadItemIndex(j)
      PROVE  ListedAt(f)'
  BY <1>3 DEF ReadItemIndex
<1>4. ASSUME PutItemIndex(j)
      PROVE  ListedAt(f)'
  BY <1>4 DEF PutItemIndex
<1>5. ASSUME GetPrevious(j) \/ SkipLastSeen(j) \/ GetLastSeen(j) \/ PutLastSeen(j)
      PROVE  ListedAt(f)'
  BY <1>5 DEF GetPrevious, SkipLastSeen, GetLastSeen, PutLastSeen
<1>6. ASSUME PutItem(j)
      PROVE  ListedAt(f)'
  BY <1>6 DEF PutItem, NextItem, ThisItem
<1>7. ASSUME ItemUnchanged(j)
      PROVE  ListedAt(f)'
  BY <1>7 DEF ItemUnchanged, NextItem
<1>8. ASSUME ItemsSaved(j)
      PROVE  ListedAt(f)'
  BY <1>8 DEF ItemsSaved
<1>9. ASSUME SetFetchStatus(j)
      PROVE  ListedAt(f)'
  BY <1>9 DEF SetFetchStatus, ReadStatus, ReadStatusIndex, PutStatusIndex, PutStatus
<1> QED
  BY <1>1, <1>2, <1>3, <1>4, <1>5, <1>6, <1>7, <1>8, <1>9 DEF FetchStep, SaveItems

(* So does each step of a GC.                                              *)
LEMMA GCListed ==
  ASSUME Typed, NEW f \in Feeds, Apart(f), ListedAt(f), NEW c \in Collectors, StartGC(c) \/ GCStep(c)
  PROVE  ListedAt(f)'
<1> USE DEF Typed, TypeOK, FetchLocals, GCLocals, Apart, Fetching, Collecting, ListedAt, Items, GCGoto,
            db, fetchVars
<1>1. ASSUME StartGC(c) \/ \E k \in Keys : KeepStatus(c, k) \/ StaleStatus(c, k)
      PROVE  ListedAt(f)'
  BY <1>1 DEF StartGC, KeepStatus, StaleStatus
<1>2. ASSUME ListItems(c) \/ ItemsDone(c) \/ \E g \in Guids : KeepItem(c, g) \/ OldItem(c, g)
      PROVE  ListedAt(f)'
  BY <1>2 DEF ListItems, ItemsDone, KeepItem, OldItem
<1>3. ASSUME DeleteItem(c) \/ DeleteLastSeen(c)
      PROVE  ListedAt(f)'
  BY <1>3 DEF DeleteItem, DeleteLastSeen
<1>4. ASSUME ReadPurgedIndex(c)
      PROVE  ListedAt(f)'
  BY <1>4 DEF ReadPurgedIndex
<1>5. ASSUME PutPurgedIndex(c)
      PROVE  ListedAt(f)'
  BY <1>5 DEF PutPurgedIndex
<1>6. ASSUME DeletePage(c) \/ DeleteStatus(c)
      PROVE  ListedAt(f)'
  <2>1. /\ UNCHANGED <<items, itemIndex, fetchVars, gcKey, gcSnap>>
        /\ gc' \in {[gc EXCEPT ![c] = "forget"], [gc EXCEPT ![c] = "unlist"]}
    BY <1>6 DEF DeletePage, DeleteStatus
  <2> QED
    BY <2>1
<1>7. ASSUME ReadUnlisted(c) \/ PutUnlisted(c)
      PROVE  ListedAt(f)'
  BY <1>7 DEF ReadUnlisted, PutUnlisted
<1> QED
  BY <1>1, <1>2, <1>3, <1>4, <1>5, <1>6, <1>7 DEF GCStep

(* And every other step.                                                   *)
LEMMA ListedStep == Typed /\ HistoryInv /\ ListedInv /\ [Next]_vars => ListedInv'
<1> SUFFICES ASSUME Typed, HistoryInv, ListedInv, [Next]_vars, NEW f \in Feeds, f \notin met'
             PROVE  ListedAt(f)'
  BY DEF ListedInv
<1>1. met \subseteq met'
  BY HistoryGrows DEF Next, vars
<1>2. ListedAt(f) /\ Apart(f)
  BY <1>1 DEF ListedInv, HistoryInv, Keys
<1>3. CASE Tick \/ UNCHANGED vars \/ EndGC
  BY <1>2, <1>3 DEF Tick, EndGC, GCGoto, vars, Typed, TypeOK, ListedAt, db, fetchVars, gcVars
<1>4. CASE Restart \/ Exit
  BY <1>2, <1>4 DEF Restart, Exit, ProcessEnds, ListedAt, db
<1> QED
  BY <1>2, <1>3, <1>4, FetchListed, GCListed DEF Next, Step, StartWorkerGC, Shutdown, Collectors

(* However many fetches and GCs run, and whenever and however often the    *)
(* process is killed, every stored item is in the index of its feed, but   *)
(* where two of them have worked on that feed at the same time.            *)
THEOREM ItemsAreListed == Spec => []ItemsListed
<1>1. Init => Typed /\ HistoryInv /\ ListedInv
  BY TypeInit, HistoryInit DEF Init, ListedInv, ListedAt
<1>2. Typed /\ HistoryInv /\ ListedInv /\ [Next]_vars => (Typed /\ HistoryInv /\ ListedInv)'
  BY TypeStep, HistoryStep, ListedStep
<1>3. Typed /\ ListedInv => ItemsListed
  BY DEF Typed, TypeOK, ListedInv, ListedAt, ItemsListed, Items
<1> QED
  BY <1>1, <1>2, <1>3, PTL DEF Spec

-----------------------------------------------------------------------------
(* The clock.  No time that was noted lies ahead of it, and what a fetch   *)
(* is about to write is a time.                                            *)
ClockInv ==
  /\ now \in Nat /\ now >= 1
  /\ \A i \in Items : lastSeen[i] <= now
  /\ \A j \in Fetchers :
       /\ time[j] <= now
       /\ pc[j] = "putseen" => time[j] >= 1
       /\ pc[j] \in {"list", "listing", "putstatus"} => newStatus[j] # NoStatus
  /\ \A c \in Collectors : gcNow[c] <= now /\ gcItemsNow[c] <= now

(* A status with a new time is not the missing one.                        *)
LEMMA NewStatusLatest ==
  ASSUME NEW s \in Statuses, NEW t \in Times, t >= 1
  PROVE  /\ [s EXCEPT !.success = t] # NoStatus /\ [s EXCEPT !.failure = t] # NoStatus
         /\ Latest([s EXCEPT !.success = t]) >= t /\ Latest([s EXCEPT !.failure = t]) >= t
  BY TimesAreNats DEF Statuses, NoStatus, Latest

LEMMA FetchClock ==
  ASSUME Typed, ClockInv, NEW j \in Fetchers, (\E k \in Keys : StartFetch(j, k)) \/ FetchStep(j)
  PROVE  ClockInv'
<1> USE TimesAreNats DEF Typed, TypeOK, FetchLocals, ClockInv, Goto, db, gcVars
<1>1. ASSUME (\E k \in Keys : StartFetch(j, k)) \/ GetFails(j) \/ GetPage(j)
             \/ (\E A \in Answers : GetFeed(j, A)) \/ ReadItemIndex(j)
      PROVE  ClockInv'
  BY <1>1 DEF StartFetch, GetFails, GetPage, GetFeed, ReadItemIndex
<1>2. ASSUME PutItemIndex(j) \/ GetPrevious(j) \/ SkipLastSeen(j)
      PROVE  ClockInv'
  BY <1>2 DEF PutItemIndex, GetPrevious, SkipLastSeen
<1>3. ASSUME GetLastSeen(j)
      PROVE  ClockInv'
  BY <1>3 DEF GetLastSeen
<1>4. ASSUME PutLastSeen(j)
      PROVE  ClockInv'
  <2>1. \A i \in Items : lastSeen'[i] \in {lastSeen[i], time[j]}
    BY <1>4 DEF PutLastSeen
  <2> QED
    BY <1>4, <2>1 DEF PutLastSeen
<1>5. ASSUME PutItem(j) \/ ItemUnchanged(j) \/ ItemsSaved(j)
      PROVE  ClockInv'
  BY <1>5 DEF PutItem, ItemUnchanged, NextItem, ItemsSaved
<1>6. ASSUME ReadStatus(j)
      PROVE  ClockInv'
  <2>1. status[key[j]] \in Statuses /\ now \in Times
    BY <1>6 DEF ReadStatus
  <2>2. newStatus'[j] # NoStatus
    BY <1>6, <2>1, NewStatusLatest DEF ReadStatus, NewStatus
  <2> QED
    BY <1>6, <2>2 DEF ReadStatus
<1>7. ASSUME ReadStatusIndex(j) \/ PutStatusIndex(j) \/ PutStatus(j)
      PROVE  ClockInv'
  BY <1>7 DEF ReadStatusIndex, PutStatusIndex, PutStatus
<1> QED
  BY <1>1, <1>2, <1>3, <1>4, <1>5, <1>6, <1>7 DEF FetchStep, SaveItems, SetFetchStatus

LEMMA GCClock ==
  ASSUME Typed, ClockInv, NEW c \in Collectors, StartGC(c) \/ GCStep(c)
  PROVE  ClockInv'
<1> USE TimesAreNats DEF Typed, TypeOK, ClockInv, GCGoto, db, fetchVars
<1>1. ASSUME StartGC(c) \/ (\E k \in Keys : KeepStatus(c, k) \/ StaleStatus(c, k)) \/ ListItems(c) \/ ItemsDone(c)
      PROVE  ClockInv'
  <2>1. /\ UNCHANGED <<now, lastSeen, time, pc, newStatus>>
        /\ \A d \in Collectors : gcNow'[d] \in {gcNow[d], now} /\ gcItemsNow'[d] \in {gcItemsNow[d], now, 0}
    BY <1>1 DEF StartGC, KeepStatus, StaleStatus, ListItems, ItemsDone
  <2>2. \A d \in Collectors : gcNow'[d] <= now /\ gcItemsNow'[d] <= now
    <3> HIDE TimesAreNats DEF Typed, TypeOK
    <3> QED
      BY <2>1 DEF ClockInv
  <2> HIDE TimesAreNats DEF Typed, TypeOK
  <2> QED
    BY <2>1, <2>2 DEF ClockInv
<1>2. ASSUME DeleteLastSeen(c)
      PROVE  ClockInv'
  <2>1. \A i \in Items : lastSeen'[i] \in {lastSeen[i], 0}
    BY <1>2 DEF DeleteLastSeen
  <2> QED
    BY <1>2, <2>1 DEF DeleteLastSeen
<1>3. ASSUME (\E g \in Guids : KeepItem(c, g) \/ OldItem(c, g)) \/ DeleteItem(c) \/ ReadPurgedIndex(c)
             \/ PutPurgedIndex(c) \/ DeletePage(c) \/ DeleteStatus(c) \/ ReadUnlisted(c) \/ PutUnlisted(c)
      PROVE  ClockInv'
  <2>1. UNCHANGED <<now, lastSeen, time, pc, newStatus, gcNow, gcItemsNow>>
    BY <1>3 DEF KeepItem, OldItem, DeleteItem, ReadPurgedIndex, PutPurgedIndex, DeletePage, DeleteStatus,
       ReadUnlisted, PutUnlisted
  <2> QED
    BY <2>1
<1> QED
  BY <1>1, <1>2, <1>3 DEF GCStep

LEMMA ClockStep == Typed /\ ClockInv /\ [Next]_vars => ClockInv'
<1> SUFFICES ASSUME Typed, ClockInv, [Next]_vars
             PROVE  ClockInv'
  OBVIOUS
<1>1. CASE Tick
  <2>1. now' \in Nat /\ now < now' /\ UNCHANGED <<lastSeen, time, pc, newStatus, gcNow, gcItemsNow>>
    BY <1>1, TimeAssumption DEF Tick, db, fetchVars, gcVars
  <2>2. /\ \A i \in Items : lastSeen[i] \in Nat
        /\ \A j \in Fetchers : time[j] \in Nat
        /\ \A c \in Collectors : gcNow[c] \in Nat /\ gcItemsNow[c] \in Nat
    BY TimesAreNats DEF Typed, TypeOK
  <2> QED
    BY <2>1, <2>2 DEF ClockInv
<1>2. CASE UNCHANGED vars \/ EndGC
  BY <1>2 DEF EndGC, GCGoto, vars, Typed, TypeOK, ClockInv, db, fetchVars
<1>3. CASE Restart \/ Exit
  BY <1>3 DEF Restart, Exit, ProcessEnds, ClockInv, db
<1> QED
  BY <1>1, <1>2, <1>3, FetchClock, GCClock DEF Next, Step, StartWorkerGC, Shutdown, Collectors

LEMMA ClockInit == Init => ClockInv
BY DEF Init, ClockInv, Items

-----------------------------------------------------------------------------
(* Fresh.  The last seen time of an item is never Skip or more behind the  *)
(* time at which a fetch saw the item, for as long as the item is stored.  *)
Tracked(i) == lastSeen[i] # 0 /\ seen[i] < lastSeen[i] + Skip

FreshAt(f) ==
  /\ \A g \in Guids : <<f, g>> \in items => Tracked(<<f, g>>)
  /\ \A j \in Fetchers : key[j] = f /\ pc[j] = "put" => Tracked(<<f, guid[j]>>)
  /\ \A c \in Collectors : gcKey[c] = f =>
       /\ gc[c] = "purge" => Old(c, gcGuid[c])
       /\ gc[c] = "purgeseen" => <<f, gcGuid[c]>> \notin items

FreshInv == \A f \in Feeds : f \notin met => FreshAt(f)

(* An item that is written is tracked, and no other is less.               *)
LEMMA TrackedNow ==
  ASSUME Typed, ClockInv, NEW j \in Fetchers, PutLastSeen(j)
  PROVE  \A i \in Items : Tracked(i) \/ i = ThisItem(j) => Tracked(i)'
<1>1. time[j] \in Nat /\ time[j] # 0 /\ Skip \in Nat /\ Skip > 0
  <2>1. time[j] \in Nat /\ Skip \in Nat /\ Skip > 0
    BY TimesAreNats DEF Typed, TypeOK
  <2>2. time[j] >= 1
    BY DEF PutLastSeen, Goto, ClockInv
  <2> QED
    BY <2>1, <2>2
<1>2. \A i \in Items : IF i = ThisItem(j) THEN lastSeen'[i] = time[j] /\ seen'[i] = time[j]
                                          ELSE lastSeen'[i] = lastSeen[i] /\ seen'[i] = seen[i]
  BY DEF PutLastSeen, Typed, TypeOK
<1> QED
  BY <1>1, <1>2 DEF Tracked

(* Each step of a fetch keeps it.                                          *)
LEMMA FetchFresh ==
  ASSUME Typed, ClockInv, NEW f \in Feeds, Apart(f), FreshAt(f), NEW j \in Fetchers,
         (\E k \in Keys : StartFetch(j, k)) \/ FetchStep(j)
  PROVE  FreshAt(f)'
<1> USE TimesAreNats
        DEF Typed, TypeOK, FetchLocals, GCLocals, Apart, Fetching, Collecting, FreshAt, Tracked, ThisItem, Old,
            Items, Goto, db, gcVars, history
<1>1. ASSUME NEW k \in Keys, StartFetch(j, k)
      PROVE  FreshAt(f)'
  BY <1>1 DEF StartFetch
<1>2. ASSUME GetFails(j) \/ GetPage(j) \/ \E A \in Answers : GetFeed(j, A)
      PROVE  FreshAt(f)'
  BY <1>2 DEF GetFails, GetPage, GetFeed
<1>3. ASSUME ReadItemIndex(j)
      PROVE  FreshAt(f)'
  BY <1>3 DEF ReadItemIndex
<1>4. ASSUME PutItemIndex(j) \/ GetPrevious(j)
      PROVE  FreshAt(f)'
  BY <1>4 DEF PutItemIndex, GetPrevious
<1>5. ASSUME SkipLastSeen(j)
      PROVE  FreshAt(f)'
  BY <1>5 DEF SkipLastSeen, SeenLately
<1>6. ASSUME GetLastSeen(j)
      PROVE  FreshAt(f)'
  BY <1>6 DEF GetLastSeen
<1>7. ASSUME PutLastSeen(j)
      PROVE  FreshAt(f)'
  <2>1. Fetching(j, key[j]) /\ ThisItem(j) \in Items
    BY <1>7 DEF PutLastSeen
  <2>3. \A i \in Items : Tracked(i) \/ i = ThisItem(j) => Tracked(i)'
    BY <1>7, TrackedNow
  <2>4. ASSUME NEW c \in Collectors, gcKey[c] = f, gc[c] = "purge"
        PROVE  Old(c, gcGuid[c])'
    <3>1. key[j] # f
      BY <2>1, <2>4
    <3> QED
      BY <1>7, <2>1, <2>4, <3>1 DEF PutLastSeen
  <2>5. UNCHANGED <<items, key, guid, gcVars>> /\ pc' = [pc EXCEPT ![j] = "put"]
    BY <1>7 DEF PutLastSeen
  <2> HIDE DEF Tracked, Old, Apart
  <2> QED
    BY <2>1, <2>3, <2>4, <2>5
<1>8. ASSUME PutItem(j)
      PROVE  FreshAt(f)'
  BY <1>8 DEF PutItem, NextItem
<1>9. ASSUME ItemUnchanged(j)
      PROVE  FreshAt(f)'
  BY <1>9 DEF ItemUnchanged, NextItem
<1>10. ASSUME ItemsSaved(j)
      PROVE  FreshAt(f)'
  BY <1>10 DEF ItemsSaved
<1>11. ASSUME SetFetchStatus(j)
       PROVE  FreshAt(f)'
  <2>1. /\ UNCHANGED <<items, lastSeen, seen, guid, gcVars>>
        /\ \E p \in {"list", "listing", "putstatus", "idle"} : pc' = [pc EXCEPT ![j] = p]
        /\ \A i \in Fetchers : i # j => key'[i] = key[i]
    BY <1>11 DEF SetFetchStatus, ReadStatus, ReadStatusIndex, PutStatusIndex, PutStatus
  <2> QED
    BY <2>1
<1> QED
  BY <1>1, <1>2, <1>3, <1>4, <1>5, <1>6, <1>7, <1>8, <1>9, <1>10, <1>11 DEF FetchStep, SaveItems

(* So does each step of a GC.                                              *)
LEMMA GCFresh ==
  ASSUME Typed, NEW f \in Feeds, Apart(f), FreshAt(f), NEW c \in Collectors, StartGC(c) \/ GCStep(c)
  PROVE  FreshAt(f)'
<1> USE TimesAreNats
        DEF Typed, TypeOK, FetchLocals, GCLocals, Apart, Fetching, Collecting, FreshAt, Tracked, ThisItem, Old,
            Items, GCGoto, db, fetchVars, history
<1>1. ASSUME StartGC(c) \/ (\E k \in Keys : KeepStatus(c, k) \/ StaleStatus(c, k))
             \/ ReadPurgedIndex(c) \/ PutPurgedIndex(c)
             \/ DeletePage(c) \/ DeleteStatus(c) \/ ReadUnlisted(c) \/ PutUnlisted(c)
      PROVE  FreshAt(f)'
  <2>1. /\ UNCHANGED <<items, lastSeen, seen, fetchVars, gcItemsNow>>
        /\ gc'[c] \notin {"purge", "purgeseen"}
        /\ \A d \in Collectors : d # c => gc'[d] = gc[d] /\ gcKey'[d] = gcKey[d] /\ gcGuid'[d] = gcGuid[d]
    BY <1>1 DEF StartGC, KeepStatus, StaleStatus, ReadPurgedIndex, PutPurgedIndex, DeletePage, DeleteStatus,
                ReadUnlisted, PutUnlisted
  <2> QED
    BY <2>1
<1>2. ASSUME ListItems(c) \/ ItemsDone(c)
      PROVE  FreshAt(f)'
  BY <1>2 DEF ListItems, ItemsDone
<1>3. ASSUME NEW g \in Guids, KeepItem(c, g) \/ OldItem(c, g)
      PROVE  FreshAt(f)'
  BY <1>3 DEF KeepItem, OldItem
<1>4. ASSUME DeleteItem(c)
      PROVE  FreshAt(f)'
  BY <1>4 DEF DeleteItem
<1>5. ASSUME DeleteLastSeen(c)
      PROVE  FreshAt(f)'
  BY <1>5 DEF DeleteLastSeen
<1> QED
  BY <1>1, <1>2, <1>3, <1>4, <1>5 DEF GCStep

(* And every other step.                                                   *)
LEMMA FreshStep == Typed /\ HistoryInv /\ ClockInv /\ FreshInv /\ [Next]_vars => FreshInv'
<1> SUFFICES ASSUME Typed, HistoryInv, ClockInv, FreshInv, [Next]_vars, NEW f \in Feeds, f \notin met'
             PROVE  FreshAt(f)'
  BY DEF FreshInv
<1>1. met \subseteq met'
  BY HistoryGrows DEF Next, vars
<1>2. FreshAt(f) /\ Apart(f)
  BY <1>1 DEF FreshInv, HistoryInv, Keys
<1>3. CASE Tick \/ UNCHANGED vars \/ EndGC
  BY <1>2, <1>3 DEF Tick, EndGC, GCGoto, vars, Typed, TypeOK, FreshAt, Tracked, Old, db, fetchVars, gcVars, history
<1>4. CASE Restart \/ Exit
  BY <1>2, <1>4 DEF Restart, Exit, ProcessEnds, FreshAt, Tracked, db
<1> QED
  BY <1>2, <1>3, <1>4, FetchFresh, GCFresh DEF Next, Step, StartWorkerGC, Shutdown, Collectors

(* Only DeleteItem takes items out.                                        *)
LEMMA ItemsGone ==
  ASSUME [Next]_vars, NEW i \in items \ items'
  PROVE  \E c \in Collectors : gc[c] = "purge" /\ i = <<gcKey[c], gcGuid[c]>>
<1> USE DEF db, fetchVars, gcVars, history
<1>1. ASSUME NEW j \in Fetchers, (\E k \in Keys : StartFetch(j, k)) \/ FetchStep(j)
      PROVE  FALSE
  BY <1>1 DEF StartFetch, FetchStep, GetFails, GetFeed, GetPage, SaveItems, ReadItemIndex, PutItemIndex,
              GetPrevious, SkipLastSeen, GetLastSeen, PutLastSeen, PutItem, ItemUnchanged, NextItem,
              ItemsSaved, SetFetchStatus, ReadStatus, ReadStatusIndex, PutStatusIndex, PutStatus
<1>2. ASSUME NEW c \in Collectors, GCStep(c)
      PROVE  DeleteItem(c)
  BY <1>2 DEF GCStep, KeepStatus, StaleStatus, ListItems, KeepItem, OldItem,
              DeleteLastSeen, ReadPurgedIndex, PutPurgedIndex, ItemsDone, DeletePage, DeleteStatus,
              ReadUnlisted, PutUnlisted
<1>3. ~ (Tick \/ Restart \/ Exit \/ StartWorkerGC \/ EndGC \/ Shutdown \/ UNCHANGED vars)
  BY DEF Tick, Restart, Exit, ProcessEnds, StartWorkerGC, EndGC, Shutdown, StartGC, vars
<1>4. \E c \in Collectors : DeleteItem(c)
  BY <1>1, <1>2, <1>3 DEF Next, Step
<1> QED
  BY <1>4 DEF DeleteItem, GCGoto

(* No GC deletes an item that was seen less than TTL - Skip ago, however   *)
(* many fetches and GCs run and whenever the process is killed, but where  *)
(* two of them have worked on the feed at the same time.                   *)
THEOREM FreshKept == Spec => FreshItemsKept
<1> DEFINE Inv == Typed /\ HistoryInv /\ ClockInv /\ FreshInv
<1>1. Init => Inv
  BY TypeInit, HistoryInit, ClockInit DEF Init, FreshInv, FreshAt
<1>2. Inv /\ [Next]_vars => Inv'
  BY TypeStep, HistoryStep, ClockStep, FreshStep
<1>3. Inv /\ [Next]_vars => \A i \in items \ items' : i[1] \notin met => now > seen[i] + (TTL - Skip)
  <2> SUFFICES ASSUME Inv, [Next]_vars, NEW i \in items \ items', i[1] \notin met
               PROVE  now > seen[i] + (TTL - Skip)
    OBVIOUS
  <2>1. PICK c \in Collectors : gc[c] = "purge" /\ i = <<gcKey[c], gcGuid[c]>>
    BY ItemsGone
  <2>2. gcKey[c] \in Feeds /\ gcGuid[c] \in Guids
    BY <2>1 DEF Typed, GCLocals
  <2>3. FreshAt(gcKey[c])
    BY <2>1, <2>2 DEF FreshInv
  <2>4. lastSeen[i] # 0 /\ seen[i] < lastSeen[i] + Skip
    BY <2>1, <2>2, <2>3 DEF FreshAt, Tracked
  <2>5. now >= gcItemsNow[c] /\ gcItemsNow[c] >= lastSeen[i] + TTL
    BY <2>1, <2>3, <2>4 DEF FreshAt, Old, ClockInv
  <2>6. /\ now \in Nat /\ gcItemsNow[c] \in Nat /\ TTL \in Nat /\ Skip \in Nat /\ Skip <= TTL
        /\ lastSeen[i] \in Nat /\ seen[i] \in Nat
    BY TimesAreNats DEF Typed, TypeOK
  <2> HIDE DEF Inv
  <2> QED
    BY <2>4, <2>5, <2>6
<1> QED
  BY <1>1, <1>2, <1>3, PTL DEF Spec, FreshItemsKept

-----------------------------------------------------------------------------
(* Collectable.  No item of k was seen later than status s says.           *)
Settled(k, s) == \A g \in Guids : <<k, g>> \in items => lastSeen[<<k, g>>] <= Latest(s)

(* What is stored and not being fetched has its status listed, and none of *)
(* its items was seen after its last fetch.                                *)
StatusAt(k) ==
  (\A j \in Fetchers : ~ Fetching(j, k)) =>
    /\ Kept(k) => k \in statusIndex /\ status[k] # NoStatus
    /\ Settled(k, status[k])

(* A fetch is about to leave that behind.                                  *)
NewStatusAt(k) ==
  \A j \in Fetchers : key[j] = k /\ pc[j] \in {"list", "listing", "putstatus"} =>
    /\ Settled(k, newStatus[j])
    /\ pc[j] = "putstatus" => k \in statusIndex

(* A GC deletes all items of a feed before it deletes its status: all of   *)
(* them are old when the last fetch is.                                    *)
GoneAt(k) ==
  \A c \in Collectors : gcKey[c] = k =>
    /\ gc[c] = "list" => gcNow[c] > Latest(status[k]) + TTL
    /\ gc[c] \in {"items", "purge", "purgeseen", "purgeindex", "purging"} =>
         /\ gcItemsNow[c] > Latest(status[k]) + TTL
         /\ \A g \in Guids : <<k, g>> \in items => g \in gcGuids[c] \/ (gc[c] = "purge" /\ g = gcGuid[c])
    /\ gc[c] \in {"delete", "forget", "unlist", "unlisting"} => \A g \in Guids : <<k, g>> \notin items
    /\ gc[c] \in {"forget", "unlist", "unlisting"} => k \notin pages

CollectAt(k) ==
  /\ k \notin cut => StatusAt(k) /\ GoneAt(k)
  /\ NewStatusAt(k)

CollectInv == \A k \in Keys : k \notin met \union mislisted => CollectAt(k)

LEMMA LatestTypes ==
  \A s \in Statuses : Latest(s) \in Nat
  BY TimesAreNats DEF Statuses, Latest

(* Where k is fetched, nothing is said of a GC of it, nor of its status.   *)
LEMMA Fetched ==
  ASSUME NEW k \in Keys, Apart(k), NEW j \in Fetchers, Fetching(j, k)
  PROVE  /\ StatusAt(k) /\ GoneAt(k)
         /\ \A i \in Fetchers : key[i] = k /\ pc[i] \in {"list", "listing", "putstatus"} => i = j
<1>1. StatusAt(k)
  BY DEF StatusAt
<1>2. \A c \in Collectors : gcKey[c] = k => gc[c] \in {"idle", "statuses"}
  BY DEF Apart, Collecting
<1>3. GoneAt(k)
  BY <1>2 DEF GoneAt
<1>4. \A i \in Fetchers : key[i] = k /\ pc[i] \in {"list", "listing", "putstatus"} => i = j
  BY DEF Apart, Fetching
<1> QED
  BY <1>1, <1>3, <1>4

(* A fetch of another key touches nothing of k.                            *)
LEMMA FetchElsewhere ==
  ASSUME Typed, NEW k \in Keys, NEW j \in Fetchers, key[j] # k, ~ OutOfDate(k),
         (\E l \in Keys : StartFetch(j, l)) \/ FetchStep(j)
  PROVE  /\ \A g \in Guids : /\ (<<k, g>> \in items') <=> (<<k, g>> \in items)
                             /\ <<k, g>> \in items => lastSeen'[<<k, g>>] = lastSeen[<<k, g>>]
         /\ status'[k] = status[k]
         /\ (k \in pages') <=> (k \in pages)
         /\ (k \in statusIndex') <=> (k \in statusIndex)
         /\ (k \in cut') <=> (k \in cut)
         /\ UNCHANGED <<now, gcVars>>
         /\ \A i \in Fetchers : i # j => pc'[i] = pc[i] /\ key'[i] = key[i] /\ newStatus'[i] = newStatus[i]
         /\ key'[j] = k => pc'[j] = "get"
<1> DEFINE Goal ==
      /\ \A g \in Guids : /\ (<<k, g>> \in items') <=> (<<k, g>> \in items)
                          /\ <<k, g>> \in items => lastSeen'[<<k, g>>] = lastSeen[<<k, g>>]
      /\ status'[k] = status[k]
      /\ (k \in pages') <=> (k \in pages)
      /\ (k \in statusIndex') <=> (k \in statusIndex)
      /\ (k \in cut') <=> (k \in cut)
      /\ UNCHANGED <<now, gcVars>>
      /\ \A i \in Fetchers : i # j => pc'[i] = pc[i] /\ key'[i] = key[i] /\ newStatus'[i] = newStatus[i]
      /\ key'[j] = k => pc'[j] = "get"
<1> USE KeysAssumption DEF Typed, TypeOK, FetchLocals, Goto, db, history
<1>1. ASSUME \E l \in Keys : StartFetch(j, l)
      PROVE  Goal
  BY <1>1 DEF StartFetch
<1>2. ASSUME GetFails(j) \/ (\E A \in Answers : GetFeed(j, A)) \/ ReadItemIndex(j)
             \/ GetPrevious(j) \/ SkipLastSeen(j) \/ GetLastSeen(j)
      PROVE  Goal
  BY <1>2 DEF GetFails, GetFeed, ReadItemIndex, GetPrevious, SkipLastSeen, GetLastSeen
<1>3. ASSUME ItemUnchanged(j) \/ ItemsSaved(j) \/ ReadStatusIndex(j) \/ PutItemIndex(j)
      PROVE  Goal
  BY <1>3 DEF ItemUnchanged, NextItem, ItemsSaved, ReadStatusIndex, PutItemIndex
<1>4. ASSUME GetPage(j)
      PROVE  Goal
  BY <1>4 DEF GetPage
<1>5. ASSUME PutLastSeen(j)
      PROVE  Goal
  BY <1>5 DEF PutLastSeen, ThisItem, Items
<1>6. ASSUME PutItem(j)
      PROVE  Goal
  BY <1>6 DEF PutItem, NextItem, ThisItem
<1>7. ASSUME ReadStatus(j)
      PROVE  Goal
  BY <1>7 DEF ReadStatus
<1>8. ASSUME PutStatusIndex(j)
      PROVE  Goal
  BY <1>8 DEF PutStatusIndex, OutOfDate
<1>9. ASSUME PutStatus(j)
      PROVE  Goal
  BY <1>9 DEF PutStatus
<1> HIDE DEF Goal
<1>10. Goal
  BY <1>1, <1>2, <1>3, <1>4, <1>5, <1>6, <1>7, <1>8, <1>9 DEF FetchStep, SaveItems, SetFetchStatus
<1> QED
  BY <1>10 DEF Goal

(* Each step of a fetch keeps CollectAt.                                   *)
LEMMA FetchCollect ==
  ASSUME Typed, ClockInv, NEW k \in Keys, Apart(k), Apart(k)', ~ OutOfDate(k), CollectAt(k), NEW j \in Fetchers,
         (\E l \in Keys : StartFetch(j, l)) \/ FetchStep(j)
  PROVE  CollectAt(k)'
<1>1. CASE key[j] # k
  <2> USE FetchElsewhere, <1>1
  <2>1. \A i \in Fetchers : Fetching(i, k)' <=> Fetching(i, k)
    BY DEF Fetching
  <2>2. \A s : Settled(k, s)' <=> Settled(k, s)
    BY DEF Settled
  <2>3. Kept(k)' <=> Kept(k)
    BY DEF Kept
  <2>4. StatusAt(k) => StatusAt(k)'
    BY <2>1, <2>3 DEF StatusAt, Settled
  <2>5. GoneAt(k) => GoneAt(k)'
    BY DEF GoneAt, gcVars
  <2>6. NewStatusAt(k)'
    BY DEF NewStatusAt, CollectAt, Settled
  <2> QED
    BY <2>4, <2>5, <2>6 DEF CollectAt
<1>2. CASE key[j] = k
  <2>1. ASSUME NEW l \in Keys, StartFetch(j, l)
        PROVE  CollectAt(k)'
    <3>1. /\ UNCHANGED <<db, cut, now, gcVars, newStatus>>
          /\ \A i \in Fetchers : i # j => pc'[i] = pc[i] /\ key'[i] = key[i]
          /\ pc[j] = "idle" /\ pc'[j] = "get"
      BY <2>1 DEF StartFetch, Goto, history, Typed, TypeOK
    <3>2. \A i \in Fetchers : Fetching(i, k)' <=> Fetching(i, k)
      BY <3>1 DEF Fetching
    <3> QED
      BY <3>1, <3>2 DEF CollectAt, StatusAt, GoneAt, NewStatusAt, Settled, Kept, db, gcVars
  <2>2. CASE PutStatus(j)
    <3>1. /\ UNCHANGED <<items, lastSeen, pages, statusIndex, gcVars>>
          /\ pc' = [pc EXCEPT ![j] = "idle"] /\ pc[j] = "putstatus" /\ status'[k] = newStatus[j]
          /\ \A i \in Fetchers : i # j => newStatus'[i] = newStatus[i] /\ key'[i] = key[i]
      BY <1>2, <2>2 DEF PutStatus, Goto, Typed, TypeOK
    <3>2. k \in statusIndex /\ Settled(k, newStatus[j]) /\ newStatus[j] # NoStatus
      BY <1>2, <3>1 DEF CollectAt, NewStatusAt, ClockInv
    <3>3. StatusAt(k)'
      BY <3>1, <3>2 DEF StatusAt, Settled
    <3>4. Fetching(j, k)
      BY <1>2, <3>1 DEF Fetching
    <3>5. GoneAt(k)'
      <4>1. \A c \in Collectors : gcKey[c] = k => gc[c] \in {"idle", "statuses"}
        BY <3>4 DEF Apart, Collecting
      <4> QED
        BY <3>1, <4>1 DEF GoneAt, gcVars
    <3>6. NewStatusAt(k)'
      BY <3>1, <3>4, Fetched DEF NewStatusAt, Typed, TypeOK
    <3> QED
      BY <3>3, <3>5, <3>6 DEF CollectAt
  <2>3. ASSUME FetchStep(j), ~ PutStatus(j)
        PROVE  CollectAt(k)'
    <3>1. Fetching(j, k)'
      <4>1. key' = key /\ \E p : p \notin {"idle", "get"} /\ pc' = [pc EXCEPT ![j] = p]
        BY <2>3 DEF FetchStep, GetFails, GetFeed, GetPage, SaveItems, ReadItemIndex, PutItemIndex,
           GetPrevious, SkipLastSeen, GetLastSeen, PutLastSeen, PutItem, ItemUnchanged, NextItem,
           ItemsSaved, SetFetchStatus, ReadStatus, ReadStatusIndex, PutStatusIndex, Goto
      <4> QED
        BY <1>2, <4>1 DEF Fetching, Typed, TypeOK
    <3>2. StatusAt(k)' /\ GoneAt(k)'
      <4>1. \A c \in Collectors : gcKey'[c] = k => gc'[c] \in {"idle", "statuses"}
        BY <3>1 DEF Apart, Collecting
      <4> QED
        BY <3>1, <4>1 DEF StatusAt, GoneAt
    <3>3. \A i \in Fetchers : key'[i] = k /\ pc'[i] \in {"list", "listing", "putstatus"} => i = j
      BY <3>1 DEF Apart, Fetching
    <3>4. ASSUME ReadStatus(j)
          PROVE  NewStatusAt(k)'
      <4>1. status[k] \in Statuses /\ now \in Times /\ now >= 1
        BY DEF Typed, TypeOK, ClockInv
      <4>2. newStatus'[j] = NewStatus(j) /\ NewStatus(j) \in Statuses
        BY <1>2, <3>4, <4>1, StatusTypes DEF ReadStatus, NewStatus, Typed, TypeOK
      <4>3. Latest(newStatus'[j]) >= now /\ Latest(newStatus'[j]) \in Nat
        BY <1>2, <4>1, <4>2, NewStatusLatest, LatestTypes DEF NewStatus
      <4>4. pc'[j] = "list" /\ UNCHANGED <<items, lastSeen>>
        BY <3>4 DEF ReadStatus, Typed, TypeOK, db
      <4>5. \A i \in items : lastSeen[i] <= now /\ lastSeen[i] \in Nat /\ now \in Nat
        BY TimesAreNats DEF Typed, TypeOK, ClockInv
      <4>6. Settled(k, newStatus[j])'
        BY <4>3, <4>4, <4>5 DEF Settled
      <4> QED
        BY <3>3, <4>4, <4>6 DEF NewStatusAt
    <3>5. ASSUME ReadStatusIndex(j) \/ PutStatusIndex(j)
          PROVE  NewStatusAt(k)'
      <4>1. /\ UNCHANGED <<items, lastSeen, newStatus>>
            /\ pc[j] \in {"list", "listing"}
            /\ pc'[j] = "putstatus" => k \in statusIndex'
        BY <1>2, <3>5 DEF ReadStatusIndex, PutStatusIndex, Goto, Typed, TypeOK, db
      <4>2. Settled(k, newStatus[j])
        BY <1>2, <4>1 DEF CollectAt, NewStatusAt
      <4> QED
        BY <3>3, <4>1, <4>2 DEF NewStatusAt, Settled
    <3>6. ASSUME ~ (ReadStatus(j) \/ ReadStatusIndex(j) \/ PutStatusIndex(j))
          PROVE  NewStatusAt(k)'
      <4>1. pc'[j] \notin {"list", "listing", "putstatus"}
        BY <2>3, <3>6
           DEF FetchStep, GetFails, GetFeed, GetPage, SaveItems, ReadItemIndex, PutItemIndex,
               GetPrevious, SkipLastSeen, GetLastSeen, PutLastSeen, PutItem, ItemUnchanged, NextItem,
               ItemsSaved, SetFetchStatus, Goto, Typed, TypeOK
      <4> QED
        BY <3>3, <4>1 DEF NewStatusAt
    <3> QED
      BY <3>2, <3>4, <3>5, <3>6 DEF CollectAt
  <2> QED
    BY <2>1, <2>2, <2>3
<1> QED
  BY <1>1, <1>2

(* Nor does a GC that is at another key, unless it is the next.            *)
LEMMA GCElsewhere ==
  ASSUME Typed, NEW k \in Keys, NEW c \in Collectors, gcKey[c] # k, ~ OutOfDate(k), ~ StaleStatus(c, k),
         StartGC(c) \/ GCStep(c)
  PROVE  /\ \A g \in Guids : /\ (<<k, g>> \in items') <=> (<<k, g>> \in items)
                             /\ <<k, g>> \in items => lastSeen'[<<k, g>>] = lastSeen[<<k, g>>]
         /\ status'[k] = status[k]
         /\ (k \in pages') <=> (k \in pages)
         /\ (k \in statusIndex') <=> (k \in statusIndex)
         /\ gcKey'[c] # k
<1> DEFINE Goal ==
      /\ \A g \in Guids : /\ (<<k, g>> \in items') <=> (<<k, g>> \in items)
                          /\ <<k, g>> \in items => lastSeen'[<<k, g>>] = lastSeen[<<k, g>>]
      /\ status'[k] = status[k]
      /\ (k \in pages') <=> (k \in pages)
      /\ (k \in statusIndex') <=> (k \in statusIndex)
      /\ gcKey'[c] # k
<1> USE KeysAssumption DEF Typed, TypeOK, GCLocals, GCGoto, db
<1>1. ASSUME StartGC(c) \/ (\E l \in Keys : KeepStatus(c, l)) \/ ListItems(c)
             \/ (\E g \in Guids : KeepItem(c, g) \/ OldItem(c, g)) \/ ReadPurgedIndex(c) \/ PutPurgedIndex(c)
             \/ ItemsDone(c) \/ ReadUnlisted(c)
      PROVE  Goal
  BY <1>1 DEF StartGC, KeepStatus, ListItems, KeepItem, OldItem, ReadPurgedIndex, PutPurgedIndex, ItemsDone, ReadUnlisted
<1>2. ASSUME NEW l \in Keys, StaleStatus(c, l)
      PROVE  Goal
  BY <1>2 DEF StaleStatus
<1>3. ASSUME DeleteItem(c) \/ DeletePage(c) \/ DeleteStatus(c)
      PROVE  Goal
  BY <1>3 DEF DeleteItem, DeletePage, DeleteStatus
<1>4. ASSUME DeleteLastSeen(c)
      PROVE  Goal
  BY <1>4 DEF DeleteLastSeen, Items
<1>5. ASSUME PutUnlisted(c)
      PROVE  Goal
  BY <1>5 DEF PutUnlisted, OutOfDate, Keys
<1> HIDE DEF Goal
<1>6. Goal
  BY <1>1, <1>2, <1>3, <1>4, <1>5 DEF GCStep
<1> QED
  BY <1>6 DEF Goal

(* A GC changes no fetch, and of the collectors only itself.               *)
LEMMA GCAlone ==
  ASSUME Typed, NEW c \in Collectors, StartGC(c) \/ GCStep(c)
  PROVE  /\ UNCHANGED <<now, fetchVars, cut>>
         /\ \A d \in Collectors : d # c => /\ gc'[d] = gc[d] /\ gcKey'[d] = gcKey[d] /\ gcNow'[d] = gcNow[d]
                                           /\ gcItemsNow'[d] = gcItemsNow[d] /\ gcGuids'[d] = gcGuids[d]
                                           /\ gcGuid'[d] = gcGuid[d]
<1> USE DEF Typed, TypeOK, GCGoto, db, history
<1>1. CASE StartGC(c) \/ ListItems(c) \/ ItemsDone(c) \/ \E k \in Keys : KeepStatus(c, k) \/ StaleStatus(c, k)
  BY <1>1 DEF StartGC, ListItems, ItemsDone, KeepStatus, StaleStatus
<1>2. CASE DeleteItem(c) \/ DeleteLastSeen(c) \/ \E g \in Guids : KeepItem(c, g) \/ OldItem(c, g)
  BY <1>2 DEF DeleteItem, DeleteLastSeen, KeepItem, OldItem
<1>3. CASE ReadPurgedIndex(c) \/ PutPurgedIndex(c) \/ DeletePage(c) \/ DeleteStatus(c) \/ ReadUnlisted(c) \/ PutUnlisted(c)
  BY <1>3 DEF ReadPurgedIndex, PutPurgedIndex, DeletePage, DeleteStatus, ReadUnlisted, PutUnlisted
<1> QED
  BY <1>1, <1>2, <1>3 DEF GCStep

(* Each step of a GC keeps CollectAt: first where k is fetched.            *)
LEMMA GCCollectFetched ==
  ASSUME Typed, NEW k \in Keys, Apart(k), Apart(k)', ~ OutOfDate(k), NewStatusAt(k), NEW c \in Collectors,
         StartGC(c) \/ GCStep(c), NEW j \in Fetchers, Fetching(j, k)
  PROVE  CollectAt(k)'
<1>1. UNCHANGED fetchVars
  BY GCAlone
<1>2. ~ Collecting(c, k) /\ ~ Collecting(c, k)' /\ Fetching(j, k)'
  BY <1>1 DEF Apart, Fetching, fetchVars
<1>3. \A d \in Collectors : gcKey'[d] = k => gc'[d] \in {"idle", "statuses"}
  BY <1>2 DEF Apart, Collecting
<1>4. StatusAt(k)' /\ GoneAt(k)'
  BY <1>2, <1>3 DEF StatusAt, GoneAt
<1>5. NewStatusAt(k)'
  <2>1. CASE gcKey[c] # k
    <3>1. ~ StaleStatus(c, k)
      BY <1>2 DEF StaleStatus, GCGoto, Collecting, Typed, TypeOK
    <3> QED
      BY <1>1, <2>1, <3>1, GCElsewhere DEF NewStatusAt, Settled, fetchVars
  <2>2. CASE gcKey[c] = k
    <3>1. gc[c] \in {"idle", "statuses"}
      BY <1>2, <2>2 DEF Collecting
    <3>2. UNCHANGED <<items, lastSeen, statusIndex>>
      BY <3>1 DEF StartGC, GCStep, KeepStatus, StaleStatus, ListItems, KeepItem, OldItem, DeleteItem, DeleteLastSeen,
         ReadPurgedIndex, PutPurgedIndex, ItemsDone, DeletePage, DeleteStatus, ReadUnlisted, PutUnlisted, GCGoto, db
    <3> QED
      BY <1>1, <3>2 DEF NewStatusAt, Settled, fetchVars
  <2> QED
    BY <2>1, <2>2
<1> QED
  BY <1>4, <1>5 DEF CollectAt

(* Then where it is not.                                                   *)
LEMMA GCCollectIdle ==
  ASSUME Typed, ClockInv, NEW k \in Keys, Apart(k), ~ OutOfDate(k), k \in Feeds => ListedAt(k),
         StatusAt(k), GoneAt(k), NEW c \in Collectors, StartGC(c) \/ GCStep(c),
         \A j \in Fetchers : ~ Fetching(j, k)
  PROVE  StatusAt(k)' /\ GoneAt(k)'
<1> DEFINE P == Kept(k) => k \in statusIndex /\ status[k] # NoStatus
<1>0. /\ \A j \in Fetchers : ~ Fetching(j, k)'
      /\ P /\ Settled(k, status[k])
  BY GCAlone DEF Fetching, fetchVars, StatusAt
<1>t. /\ now \in Nat /\ TTL \in Nat /\ Latest(status[k]) \in Nat
      /\ gcNow[c] \in Nat /\ gcItemsNow[c] \in Nat /\ gcNow[c] <= now
      /\ \A i \in items : lastSeen[i] \in Nat /\ i \in Items
      /\ \A g \in Guids : <<k, g>> \in items => k \in Feeds
  BY LatestTypes, TimesAreNats DEF Typed, TypeOK, ClockInv, Items
<1>1. CASE gcKey[c] # k /\ ~ StaleStatus(c, k)
  <2>1. P' /\ Settled(k, status[k])'
    BY <1>0, <1>1, GCElsewhere DEF Settled, Kept
  <2>2. GoneAt(k)'
    BY <1>1, GCElsewhere, GCAlone DEF GoneAt
  <2> QED
    BY <2>1, <2>2 DEF StatusAt
<1>2. CASE StaleStatus(c, k)
  <2>1. /\ UNCHANGED <<now, db, gcNow>> /\ gcKey'[c] = k
        /\ gc'[c] = IF k \in Feeds THEN "list" ELSE "delete"
        /\ gcNow[c] > Latest(status[k]) + TTL
    BY <1>2 DEF StaleStatus, Expired, GCGoto, Typed, TypeOK
  <2>2. P' /\ Settled(k, status[k])'
    BY <1>0, <2>1 DEF Settled, Kept, db
  <2>3. GoneAt(k)'
    BY <1>t, <2>1, GCAlone DEF GoneAt, db
  <2> QED
    BY <2>2, <2>3 DEF StatusAt
<1>3. CASE gcKey[c] = k /\ gc[c] \in {"idle", "statuses"} /\ ~ StaleStatus(c, k)
  <2>1. /\ UNCHANGED db /\ (gc'[c] \in {"idle", "statuses"} \/ gcKey'[c] # k)
    BY <1>3 DEF StartGC, GCStep, KeepStatus, StaleStatus, ListItems, KeepItem, OldItem, DeleteItem, DeleteLastSeen,
       ReadPurgedIndex, PutPurgedIndex, ItemsDone, DeletePage, DeleteStatus, ReadUnlisted, PutUnlisted, GCGoto, Typed, TypeOK
  <2>2. P' /\ Settled(k, status[k])'
    BY <1>0, <2>1 DEF Settled, Kept, db
  <2>3. GoneAt(k)'
    BY <2>1, GCAlone DEF GoneAt, db
  <2> QED
    BY <2>2, <2>3 DEF StatusAt
<1>4. CASE gcKey[c] = k /\ Collecting(c, k)
  <2>1. /\ gc[c] \notin {"idle", "statuses"}
        /\ \A d \in Collectors : d # c /\ gcKey[d] = k => gc[d] \in {"idle", "statuses"}
    BY <1>4 DEF Apart, Collecting
  <2>2. \A d \in Collectors : d # c /\ gcKey'[d] = k => gc'[d] \in {"idle", "statuses"}
    BY <2>1, GCAlone
  <2>g. /\ gc[c] = "list" => gcNow[c] > Latest(status[k]) + TTL
        /\ gc[c] \in {"items", "purge", "purgeseen", "purgeindex", "purging"} =>
             /\ gcItemsNow[c] > Latest(status[k]) + TTL
             /\ \A g \in Guids : <<k, g>> \in items => g \in gcGuids[c] \/ (gc[c] = "purge" /\ g = gcGuid[c])
        /\ gc[c] \in {"delete", "forget", "unlist", "unlisting"} => \A g \in Guids : <<k, g>> \notin items
        /\ gc[c] \in {"forget", "unlist", "unlisting"} => k \notin pages
    BY <1>4 DEF GoneAt
  <2> HIDE DEF P
  <2> DEFINE Stage ==
        /\ gc[c] = "list" => gcNow[c] > Latest(status[k]) + TTL
        /\ gc[c] \in {"items", "purge", "purgeseen", "purgeindex", "purging"} =>
             /\ gcItemsNow[c] > Latest(status[k]) + TTL
             /\ \A g \in Guids : <<k, g>> \in items => g \in gcGuids[c] \/ (gc[c] = "purge" /\ g = gcGuid[c])
        /\ gc[c] \in {"delete", "forget", "unlist", "unlisting"} => \A g \in Guids : <<k, g>> \notin items
        /\ gc[c] \in {"forget", "unlist", "unlisting"} => k \notin pages
  <2>3. ASSUME ListItems(c)
        PROVE  P' /\ Settled(k, status[k])' /\ Stage'
    <3>1. /\ UNCHANGED <<now, db, gcKey>> /\ gc[c] = "list" /\ gc'[c] = "items"
          /\ gcItemsNow'[c] = now /\ gcGuids'[c] = itemIndex[k] /\ k \in Feeds
      BY <1>4, <2>3 DEF ListItems, GCGoto, Typed, TypeOK, GCLocals
    <3>2. P' /\ Settled(k, status[k])'
      BY <1>0, <3>1 DEF P, Settled, Kept, db
    <3>3. now > Latest(status[k]) + TTL
      BY <1>t, <2>g, <3>1
    <3> QED
      BY <3>1, <3>2, <3>3 DEF ListedAt, db
  <2>4. ASSUME NEW g \in Guids, KeepItem(c, g) \/ OldItem(c, g)
        PROVE  P' /\ Settled(k, status[k])' /\ Stage'
    <3>1. /\ UNCHANGED <<now, db, gcKey, gcItemsNow>> /\ gc[c] = "items" /\ gcGuids'[c] = gcGuids[c] \ {g}
          /\ \/ gc'[c] = "items" /\ ~ Old(c, g)
             \/ gc'[c] = "purge" /\ gcGuid'[c] = g
      BY <2>4 DEF KeepItem, OldItem, GCGoto, Typed, TypeOK
    <3>2. P' /\ Settled(k, status[k])'
      BY <1>0, <3>1 DEF P, Settled, Kept, db
    <3>3. ASSUME <<k, g>> \in items
          PROVE  Old(c, g)
      <4>1. lastSeen[<<k, g>>] <= Latest(status[k]) /\ gcItemsNow[c] > Latest(status[k]) + TTL
        BY <1>0, <2>g, <3>1, <3>3 DEF Settled
      <4>2. gcItemsNow[c] >= lastSeen[<<k, g>>] + TTL
        BY <1>t, <3>3, <4>1
      <4> QED
        BY <1>4, <4>2 DEF Old
    <3> QED
      BY <2>g, <3>1, <3>2, <3>3 DEF db
  <2>5. ASSUME DeleteItem(c)
        PROVE  P' /\ Settled(k, status[k])' /\ Stage'
    <3>1. /\ UNCHANGED <<now, pages, status, statusIndex, lastSeen, gcGuids, gcGuid, gcItemsNow>>
          /\ gc[c] = "purge" /\ gc'[c] = "purgeseen" /\ items' = items \ {<<k, gcGuid[c]>>}
      BY <1>4, <2>5 DEF DeleteItem, GCGoto, Typed, TypeOK
    <3>2. P' /\ Settled(k, status[k])'
      BY <1>0, <3>1 DEF P, Settled, Kept
    <3> QED
      BY <2>g, <3>1, <3>2
  <2>6. ASSUME DeleteLastSeen(c)
        PROVE  P' /\ Settled(k, status[k])' /\ Stage'
    <3>1. /\ UNCHANGED <<now, items, pages, status, statusIndex, gcGuids, gcGuid, gcItemsNow>>
          /\ gc[c] = "purgeseen" /\ gc'[c] = "purgeindex"
          /\ \A i \in items : lastSeen'[i] \in {lastSeen[i], 0}
      BY <1>t, <1>4, <2>6 DEF DeleteLastSeen, GCGoto, Typed, TypeOK
    <3>2. P' /\ Settled(k, status[k])'
      BY <1>0, <1>t, <3>1 DEF P, Settled, Kept
    <3> QED
      BY <2>g, <3>1, <3>2
  <2>7. ASSUME ReadPurgedIndex(c) \/ PutPurgedIndex(c) \/ ItemsDone(c)
        PROVE  P' /\ Settled(k, status[k])' /\ Stage'
    <3>1. /\ UNCHANGED <<now, items, pages, status, statusIndex, lastSeen, gcGuids>>
          /\ \/ gc[c] = "purgeindex" /\ gc'[c] = "purging" /\ gcItemsNow'[c] = gcItemsNow[c]
             \/ gc[c] = "purging" /\ gc'[c] = "items" /\ gcItemsNow'[c] = gcItemsNow[c]
             \/ gc[c] = "items" /\ gc'[c] = "delete" /\ gcGuids[c] = {}
      BY <2>7 DEF ReadPurgedIndex, PutPurgedIndex, ItemsDone, GCGoto, Typed, TypeOK, db
    <3>2. P' /\ Settled(k, status[k])'
      BY <1>0, <3>1 DEF P, Settled, Kept
    <3> QED
      BY <2>g, <3>1, <3>2
  <2>8. ASSUME DeletePage(c) \/ ReadUnlisted(c)
        PROVE  P' /\ Settled(k, status[k])' /\ Stage'
    <3>1. /\ UNCHANGED <<now, items, status, statusIndex, lastSeen>>
          /\ \/ gc[c] = "delete" /\ gc'[c] = "forget" /\ pages' = pages \ {k}
             \/ gc[c] = "unlist" /\ gc'[c] = "unlisting" /\ pages' = pages
      BY <1>4, <2>8 DEF DeletePage, ReadUnlisted, GCGoto, Typed, TypeOK, db
    <3>2. P' /\ Settled(k, status[k])'
      BY <1>0, <3>1 DEF P, Settled, Kept
    <3> QED
      BY <2>g, <3>1, <3>2
  <2>9. ASSUME DeleteStatus(c) \/ PutUnlisted(c)
        PROVE  P' /\ Settled(k, status[k])' /\ Stage'
    <3>1. /\ UNCHANGED <<items, pages, lastSeen>>
          /\ gc[c] \in {"forget", "unlisting"} /\ gc'[c] \in {"unlist", "statuses"}
      BY <2>9 DEF DeleteStatus, PutUnlisted, GCGoto, Typed, TypeOK
    <3>2. ~ Kept(k) /\ \A g \in Guids : <<k, g>> \notin items
      BY <2>g, <3>1 DEF Kept
    <3>3. P' /\ Settled(k, status[k])'
      BY <3>1, <3>2 DEF P, Settled, Kept
    <3> QED
      BY <2>g, <3>1, <3>2, <3>3
  <2>10. P' /\ Settled(k, status[k])' /\ Stage'
    <3>1. ~ StartGC(c) /\ ~ \E l \in Keys : KeepStatus(c, l) \/ StaleStatus(c, l)
      BY <2>1 DEF StartGC, KeepStatus, StaleStatus, GCGoto
    <3> HIDE DEF Stage
    <3> QED
      BY <2>3, <2>4, <2>5, <2>6, <2>7, <2>8, <2>9, <3>1 DEF GCStep
  <2>11. GoneAt(k)'
    <3> SUFFICES ASSUME NEW d \in Collectors, gcKey'[d] = k, gc'[d] \notin {"idle", "statuses"}
                 PROVE  d = c
      BY <2>10 DEF GoneAt
    <3> QED
      BY <2>2
  <2> QED
    BY <2>10, <2>11 DEF P, StatusAt
<1>5. gcKey[c] = k => Collecting(c, k) \/ gc[c] \in {"idle", "statuses"}
  BY DEF Collecting
<1> HIDE DEF P
<1> QED
  BY <1>1, <1>2, <1>3, <1>4, <1>5

(* And every other step.                                                   *)
LEMMA CollectStep ==
  Typed /\ HistoryInv /\ ListedInv /\ ClockInv /\ CollectInv /\ [Next]_vars => CollectInv'
<1> SUFFICES ASSUME Typed, HistoryInv, ListedInv, ClockInv, CollectInv, [Next]_vars,
                    NEW k \in Keys, k \notin (met \union mislisted)'
             PROVE  CollectAt(k)'
  BY DEF CollectInv
<1>1. met \subseteq met' /\ mislisted \subseteq mislisted'
  BY HistoryGrows DEF Next, vars
<1>2. CollectAt(k) /\ Apart(k) /\ ~ OutOfDate(k) /\ (k \in Feeds => ListedAt(k))
  BY <1>1 DEF CollectInv, HistoryInv, ListedInv
<1>3. Apart(k)'
  BY HistoryStep DEF HistoryInv
<1>4. CASE Tick \/ EndGC \/ UNCHANGED vars
  <2>1. /\ UNCHANGED <<db, fetchVars, gcKey, gcGuids, gcGuid, gcItemsNow, cut>>
        /\ \A c \in Collectors : gc'[c] \in {"idle", "statuses"} \/ (gc'[c] = gc[c] /\ gcNow'[c] = gcNow[c])
    BY <1>4 DEF Tick, EndGC, GCGoto, vars, Typed, TypeOK, db, fetchVars, gcVars, history
  <2> QED
    BY <1>2, <2>1 DEF CollectAt, StatusAt, GoneAt, NewStatusAt, Settled, Kept, Fetching, db, fetchVars
<1>5. CASE Restart \/ Exit
  <2>1. /\ UNCHANGED <<items, pages, lastSeen, status, statusIndex>>
        /\ \A j \in Fetchers : pc'[j] = "idle"
        /\ \A c \in Collectors : gc'[c] = "idle"
        /\ k \notin cut' => k \notin cut /\ \A j \in Fetchers : ~ Fetching(j, k)
    BY <1>5 DEF Restart, Exit, ProcessEnds, Fetching, db
  <2> QED
    BY <1>2, <2>1 DEF CollectAt, StatusAt, GoneAt, NewStatusAt, Settled, Kept
<1>6. ASSUME NEW c \in Collectors, StartGC(c) \/ GCStep(c)
      PROVE  CollectAt(k)'
  <2>1. CASE \E j \in Fetchers : Fetching(j, k)
    BY <1>2, <1>3, <1>6, <2>1, GCCollectFetched DEF CollectAt
  <2>2. CASE \A j \in Fetchers : ~ Fetching(j, k)
    <3>1. UNCHANGED <<cut, fetchVars>>
      BY <1>6, GCAlone
    <3>2. k \notin cut => StatusAt(k)' /\ GoneAt(k)'
      BY <1>2, <1>6, <2>2, GCCollectIdle DEF CollectAt
    <3>3. NewStatusAt(k)'
      BY <2>2, <3>1 DEF NewStatusAt, Fetching, fetchVars
    <3> QED
      BY <3>1, <3>2, <3>3 DEF CollectAt
  <2> QED
    BY <2>1, <2>2
<1> QED
  BY <1>2, <1>3, <1>4, <1>5, <1>6, FetchCollect DEF Next, Step, StartWorkerGC, Shutdown, Collectors

CollectAll == Typed /\ HistoryInv /\ ListedInv /\ ClockInv /\ CollectInv

LEMMA CollectAlways == Spec => []CollectAll
<1>1. Init => CollectAll
  <2>1. Init => ListedInv
    BY DEF Init, ListedInv, ListedAt
  <2>2. Init => CollectInv
    BY DEF Init, CollectInv, CollectAt, StatusAt, GoneAt, NewStatusAt, Settled, Kept
  <2> QED
    BY <2>1, <2>2, TypeInit, HistoryInit, ClockInit DEF CollectAll
<1>2. CollectAll /\ [Next]_vars => CollectAll'
  BY TypeStep, HistoryStep, ListedStep, ClockStep, CollectStep DEF CollectAll
<1> QED
  BY <1>1, <1>2, PTL DEF Spec

(* However many fetches and GCs run, the GC finds whatever is stored by    *)
(* its listed fetch status, but for what is being fetched, what was when   *)
(* the process ended and has not been since, feeds and pages on which two  *)
(* have worked at the same time, and those whose entry somebody was about  *)
(* to undo by an old index.                                                *)
THEOREM StoredIsFound == Spec => []StoredIsCollectable
<1>1. CollectAll => StoredIsCollectable
  <2> SUFFICES ASSUME CollectAll, NEW k \in Sound, Kept(k), \A j \in Fetchers : key[j] # k
               PROVE  k \in statusIndex /\ status[k] # NoStatus
    BY DEF StoredIsCollectable
  <2>1. StatusAt(k)
    BY DEF CollectAll, CollectInv, CollectAt, Sound
  <2> QED
    BY <2>1 DEF StatusAt, Fetching
<1> QED
  BY <1>1, CollectAlways, PTL

(* A GC forgets a fetch status only after all that was stored by it: what  *)
(* it leaves of a feed or page has its status still.  With the same        *)
(* exceptions, since an item of a fetch that was cut short may be newer    *)
(* than the status (deleteStaleFetchStatuses deletes the status last).     *)
ForgottenLast ==
  [][\A k \in Sound : status[k] # NoStatus /\ status'[k] = NoStatus => ~ Kept(k)]_vars

LEMMA ForgottenStep ==
  ASSUME CollectAll, [Next]_vars, NEW k \in Sound, status[k] # NoStatus, status'[k] = NoStatus
  PROVE  ~ Kept(k)
<1> USE DEF CollectAll, db
<1>1. ASSUME NEW j \in Fetchers, (\E l \in Keys : StartFetch(j, l)) \/ FetchStep(j)
      PROVE  PutStatus(j)
  BY <1>1 DEF StartFetch, FetchStep, GetFails, GetFeed, GetPage, SaveItems, ReadItemIndex, PutItemIndex, GetPrevious,
     SkipLastSeen, GetLastSeen, PutLastSeen, PutItem, ItemUnchanged, NextItem, ItemsSaved, SetFetchStatus, ReadStatus,
     ReadStatusIndex, PutStatusIndex
<1>2. ASSUME NEW c \in Collectors, StartGC(c) \/ GCStep(c)
      PROVE  DeleteStatus(c)
  BY <1>2 DEF StartGC, GCStep, KeepStatus, StaleStatus, ListItems, KeepItem, OldItem, DeleteItem, DeleteLastSeen,
     ReadPurgedIndex, PutPurgedIndex, ItemsDone, DeletePage, ReadUnlisted, PutUnlisted
<1>3. ~ (Tick \/ Restart \/ Exit \/ EndGC \/ UNCHANGED vars)
  BY DEF Tick, Restart, Exit, ProcessEnds, EndGC, vars
<1>4. (\E j \in Fetchers : PutStatus(j)) \/ \E c \in Collectors : DeleteStatus(c)
  BY <1>1, <1>2, <1>3 DEF Next, Step, StartWorkerGC, Shutdown, Collectors
<1>5. ASSUME NEW j \in Fetchers, PutStatus(j)
      PROVE  ~ Kept(k)
  <2>1. newStatus[j] # NoStatus
    BY <1>5 DEF PutStatus, Goto, ClockInv
  <2> QED
    BY <1>5, <2>1 DEF PutStatus, Typed, TypeOK
<1>6. ASSUME NEW c \in Collectors, DeleteStatus(c)
      PROVE  ~ Kept(k)
  <2>1. k = gcKey[c] /\ gc[c] = "forget" /\ k \in Keys
    BY <1>6 DEF DeleteStatus, GCGoto, Typed, TypeOK, Sound
  <2>2. GoneAt(k)
    BY <2>1 DEF CollectInv, CollectAt, Sound
  <2> QED
    BY <2>1, <2>2 DEF GoneAt, Kept
<1> QED
  BY <1>4, <1>5, <1>6

(* Nothing outlives its status, with the exceptions of StoredIsFound.      *)
THEOREM StatusIsForgottenLast == Spec => ForgottenLast
<1>1. CollectAll /\ [Next]_vars =>
        [\A k \in Sound : status[k] # NoStatus /\ status'[k] = NoStatus => ~ Kept(k)]_vars
  BY ForgottenStep
<1> QED
  BY <1>1, CollectAlways, PTL DEF Spec, ForgottenLast
=============================================================================
