------------------------------ MODULE UserData ------------------------------
(***************************************************************************)
(* The part of data.DBService that runs under its RWMutex (userLock): the  *)
(* user records, the index of usernames and the read marks of each user,   *)
(* with the goroutines that use them:                                      *)
(*                                                                         *)
(*   Settings    POST /api/configuration: load the user, SaveUser, reload  *)
(*   Viewers     GET and POST /api/items/{key}: mark an item read, unread  *)
(*   Unmarkers   FetchPage of a page that changed: SetReadStatusForAll     *)
(*   Collectors  the worker's GC: deleteStaleReadStatuses                  *)
(*                                                                         *)
(* A goroutine serves one call after another for ever.  FetchAllPages and  *)
(* FetchAllFeeds, which visit users that may be renamed meanwhile, are in  *)
(* Lifecycle.  A call to the key-value store (Get, Put, Delete, Has) is    *)
(* one atomic step: pogreb serialises them with a lock of its own.  Taking *)
(* the read lock is folded into the first store call under it and          *)
(* releasing a lock into the last one.  Under the write lock the Get and   *)
(* the Put of an index update are one step, because nobody else can be     *)
(* inside the lock; under the read lock they are two.                      *)
(*                                                                         *)
(* An index (index.go) is a set here.                                      *)
(***************************************************************************)
EXTENDS FiniteSets

CONSTANTS
  Names,       \* usernames, trimmed and not empty
  Registered,  \* the usernames that have an account at the start
  Keys,        \* database keys of feed items and pages
  Settings, Viewers, Unmarkers, Collectors,
  None         \* no name, key, account or goroutine

Jobs == Settings \union Viewers \union Unmarkers \union Collectors

(* An account is identified by the name it was registered under, which a   *)
(* rename does not change.  The password and the two XML documents of a    *)
(* User travel with the account.                                           *)
Accounts == Names

ASSUME NamesAssumption ==
  /\ Registered \subseteq Names
  /\ None \notin Names \union Keys \union Jobs

ASSUME JobsAssumption ==
  /\ Settings \intersect (Viewers \union Unmarkers \union Collectors) = {}
  /\ Viewers \intersect (Unmarkers \union Collectors) = {}
  /\ Unmarkers \intersect Collectors = {}

VARIABLES
  (* the database *)
  users,      \* user/<name>: the account stored there, or None
  userIndex,  \* user: the usernames listed in the index
  readIndex,  \* readstatus/<name>: the keys marked read
  stored,     \* the keys at which a feed item or a page exists
  (* userLock *)
  readers,    \* the goroutines that hold the read lock across steps
  writer,     \* the goroutine that called Lock, None once unlocked
  (* the goroutines *)
  pc,
  name,       \* user.username of the user at hand
  account,    \* whose data the user at hand carries
  newName,    \* user.newUsername
  key,        \* the item at hand
  snap,       \* the read index as it was last read
  names,      \* usernames still to visit
  keys        \* item keys still to visit

db == <<users, userIndex, readIndex, stored>>
lock == <<readers, writer>>
locals == <<name, account, newName, key, snap, names, keys>>
vars == <<users, userIndex, readIndex, stored, readers, writer,
          pc, name, account, newName, key, snap, names, keys>>

(* A database from an earlier run: items, and marks of the users.          *)
Init ==
  /\ users = [n \in Names |-> IF n \in Registered THEN n ELSE None]
  /\ userIndex = Registered
  /\ readIndex \in [Names -> SUBSET Keys]
  /\ \A n \in Names \ Registered : readIndex[n] = {}
  /\ stored \in SUBSET Keys
  /\ readers = {}
  /\ writer = None
  /\ pc = [j \in Jobs |-> "idle"]
  /\ name = [j \in Jobs |-> None]
  /\ account = [j \in Jobs |-> None]
  /\ newName = [j \in Jobs |-> None]
  /\ key = [j \in Jobs |-> None]
  /\ snap = [j \in Jobs |-> {}]
  /\ names = [j \in Jobs |-> {}]
  /\ keys = [j \in Jobs |-> {}]

-----------------------------------------------------------------------------
(* The lock, and how a goroutine moves.                                    *)

Goto(j, from, to) ==
  /\ pc[j] = from
  /\ pc' = [pc EXCEPT ![j] = to]

(* RWMutex: a writer that waits already keeps new readers out.             *)
CanRLock == writer = None

(* A call that returns forgets its variables.                              *)
Return(j, from) ==
  /\ Goto(j, from, "idle")
  /\ name' = [name EXCEPT ![j] = None]
  /\ account' = [account EXCEPT ![j] = None]
  /\ newName' = [newName EXCEPT ![j] = None]
  /\ key' = [key EXCEPT ![j] = None]
  /\ snap' = [snap EXCEPT ![j] = {}]
  /\ names' = [names EXCEPT ![j] = {}]
  /\ keys' = [keys EXCEPT ![j] = {}]

(* The names at which a user record is stored.                             *)
Stored == {n \in Names : users[n] # None}

-----------------------------------------------------------------------------
(* Items come and go: SaveFeeditems, SavePage and deleteStaleFetchStatuses *)
(* do not take userLock.                                                   *)

StoreItem(k) ==
  /\ k \notin stored
  /\ stored' = stored \union {k}
  /\ UNCHANGED <<users, userIndex, readIndex, lock, pc, locals>>

ExpireItem(k) ==
  /\ k \in stored
  /\ stored' = stored \ {k}
  /\ UNCHANGED <<users, userIndex, readIndex, lock, pc, locals>>

-----------------------------------------------------------------------------
(* AuthHandlerFunc: the cookie names n; the request carries a copy of the  *)
(* user as it is stored now.  A request without a user is refused before   *)
(* it changes anything.                                                    *)

LoadUser(j, n, next) ==
  /\ CanRLock
  /\ users[n] # None
  /\ Goto(j, "idle", next)
  /\ name' = [name EXCEPT ![j] = n]
  /\ account' = [account EXCEPT ![j] = users[n]]

(* SettingsHandler up to SaveUser: the form's username is the old or a new *)
(* one (SetUsername refuses an empty one, and the handler returns).        *)
PostSettings(j, n, m) ==
  /\ LoadUser(j, n, "save")
  /\ newName' = [newName EXCEPT ![j] = m]
  /\ UNCHANGED <<db, lock, key, snap, names, keys>>

(* update: Lock keeps new readers out, then waits for those inside.        *)
CallLock(j) ==
  /\ Goto(j, "save", "lock")
  /\ writer = None
  /\ writer' = j
  /\ UNCHANGED <<db, readers, locals>>

(* SaveUser, first under the lock: a new name must be free.                *)
RefuseRename(j) ==
  /\ readers = {}
  /\ name[j] # newName[j]
  /\ users[newName[j]] # None
  /\ writer' = None
  /\ Return(j, "lock")
  /\ UNCHANGED <<db, readers>>

(* Mutant: SaveUser runs under view instead of update.                     *)
BeginRenameShared(j) ==
  /\ Goto(j, "lock", "unindex")
  /\ name[j] # newName[j]
  /\ users[newName[j]] = None
  /\ UNCHANGED <<db, lock, locals>>

(* Mutant: the new name is not checked.                                    *)
BeginRenameUnchecked(j) ==
  /\ Goto(j, "lock", "unindex")
  /\ readers = {}
  /\ name[j] # newName[j]
  /\ UNCHANGED <<db, lock, locals>>

BeginRename(j) ==
  /\ Goto(j, "lock", "unindex")
  /\ readers = {}
  /\ name[j] # newName[j]
  /\ users[newName[j]] = None
  /\ UNCHANGED <<db, lock, locals>>

BeginSave(j) ==
  /\ Goto(j, "lock", "index")
  /\ readers = {}
  /\ name[j] = newName[j]
  /\ UNCHANGED <<db, lock, locals>>

(* Renaming: the old name leaves the index, then its record goes, then its *)
(* read marks move one by one.                                             *)
(* Mutant: the old name stays in the index.                                *)
KeepOldName(j) ==
  /\ Goto(j, "unindex", "delete")
  /\ UNCHANGED <<db, lock, locals>>

UnindexOldName(j) ==
  /\ Goto(j, "unindex", "delete")
  /\ userIndex' = userIndex \ {name[j]}
  /\ UNCHANGED <<users, readIndex, stored, lock, locals>>

DeleteOldUser(j) ==
  /\ Goto(j, "delete", "list")
  /\ users' = [users EXCEPT ![name[j]] = None]
  /\ UNCHANGED <<userIndex, readIndex, stored, lock, locals>>

ListMarks(j) ==
  /\ Goto(j, "list", "move")
  /\ snap' = [snap EXCEPT ![j] = readIndex[name[j]]]
  /\ keys' = [keys EXCEPT ![j] = readIndex[name[j]]]
  /\ UNCHANGED <<db, lock, name, account, newName, key, names>>

(* Mutant: the key moved is not the one at hand.                           *)
MoveWrongMarkFrom(j, k) ==
  /\ Goto(j, "move", "moving")
  /\ k \in keys[j]
  /\ readIndex' = [readIndex EXCEPT ![name[j]] = @ \ {k}]
  /\ keys' = [keys EXCEPT ![j] = @ \ {k}]
  /\ UNCHANGED <<users, userIndex, stored, lock, name, account, newName, key, snap, names>>

MoveMarkFrom(j, k) ==
  /\ Goto(j, "move", "moving")
  /\ k \in keys[j]
  /\ readIndex' = [readIndex EXCEPT ![name[j]] = @ \ {k}]
  /\ key' = [key EXCEPT ![j] = k]
  /\ keys' = [keys EXCEPT ![j] = @ \ {k}]
  /\ UNCHANGED <<users, userIndex, stored, lock, name, account, newName, snap, names>>

(* Mutant: the mark goes back to the old name.                             *)
MoveMarkBack(j) ==
  /\ Goto(j, "moving", "move")
  /\ readIndex' = [readIndex EXCEPT ![name[j]] = @ \union {key[j]}]
  /\ UNCHANGED <<users, userIndex, stored, lock, locals>>

MoveMarkTo(j) ==
  /\ Goto(j, "moving", "move")
  /\ readIndex' = [readIndex EXCEPT ![newName[j]] = @ \union {key[j]}]
  /\ UNCHANGED <<users, userIndex, stored, lock, locals>>

MarksMoved(j) ==
  /\ Goto(j, "move", "index")
  /\ keys[j] = {}
  /\ UNCHANGED <<db, lock, locals>>

IndexName(j) ==
  /\ Goto(j, "index", "put")
  /\ userIndex' = userIndex \union {newName[j]}
  /\ UNCHANGED <<users, readIndex, stored, lock, locals>>

(* Mutant: the lock is not released.                                       *)
PutUserLocked(j) ==
  /\ Goto(j, "put", "reload")
  /\ users' = [users EXCEPT ![newName[j]] = account[j]]
  /\ UNCHANGED <<userIndex, readIndex, stored, lock, locals>>

PutUser(j) ==
  /\ Goto(j, "put", "reload")
  /\ users' = [users EXCEPT ![newName[j]] = account[j]]
  /\ writer' = None
  /\ UNCHANGED <<userIndex, readIndex, stored, readers, locals>>

(* SettingsHandler after SaveUser: the user is read again for the reply.   *)
ReloadUser(j) ==
  /\ CanRLock
  /\ Return(j, "reload")
  /\ users[newName[j]] # None
  /\ UNCHANGED <<db, lock>>

(* Another request has renamed it meanwhile: the handler dereferences the  *)
(* nil that GetUser returns.                                               *)
ReloadGone(j) ==
  /\ CanRLock
  /\ Goto(j, "reload", "panic")
  /\ users[newName[j]] = None
  /\ UNCHANGED <<db, lock, locals>>

(* chi recovers a panic of a handler.                                      *)
RecoverPanic(j) ==
  /\ Return(j, "panic")
  /\ UNCHANGED <<db, lock>>

SaveUser(j) ==
  \/ CallLock(j)
  \/ RefuseRename(j)
  \/ BeginRename(j)
  \/ BeginSave(j)
  \/ UnindexOldName(j)
  \/ DeleteOldUser(j)
  \/ ListMarks(j)
  \/ \E k \in Keys : MoveMarkFrom(j, k)
  \/ MoveMarkTo(j)
  \/ MarksMoved(j)
  \/ IndexName(j)
  \/ PutUser(j)

-----------------------------------------------------------------------------
(* FeedItemHandler.  GET answers with the item, if there is one, and marks *)
(* it read; POST marks it unread, whatever the key names.                  *)

RequestItem(j, n, k, next) ==
  /\ LoadUser(j, n, next)
  /\ key' = [key EXCEPT ![j] = k]
  /\ UNCHANGED <<db, lock, newName, snap, names, keys>>

ItemFound(j) ==
  /\ Goto(j, "get", "found")
  /\ key[j] \in stored
  /\ UNCHANGED <<db, lock, locals>>

ItemNotFound(j) ==
  /\ key[j] \notin stored
  /\ Return(j, "get")
  /\ UNCHANGED <<db, lock>>

(* setReadStatus under view: the index is read, then written back.  Adding *)
(* a key that is there already writes nothing.                             *)
ReadIndexOf(j, n) == snap' = [snap EXCEPT ![j] = readIndex[n]]

MarkRead(j) ==
  /\ CanRLock
  /\ Goto(j, "found", "mark")
  /\ ReadIndexOf(j, name[j])
  /\ readers' = readers \union {j}
  /\ UNCHANGED <<db, writer, name, account, newName, key, names, keys>>

PutMark(j) ==
  /\ Return(j, "mark")
  /\ readIndex' = IF key[j] \in snap[j] THEN readIndex
                  ELSE [readIndex EXCEPT ![name[j]] = snap[j] \union {key[j]}]
  /\ readers' = readers \ {j}
  /\ UNCHANGED <<users, userIndex, stored, writer>>

MarkUnread(j) ==
  /\ CanRLock
  /\ Goto(j, "post", "unmark")
  /\ ReadIndexOf(j, name[j])
  /\ readers' = readers \union {j}
  /\ UNCHANGED <<db, writer, name, account, newName, key, names, keys>>

PutUnmark(j) ==
  /\ Return(j, "unmark")
  /\ readIndex' = [readIndex EXCEPT ![name[j]] = snap[j] \ {key[j]}]
  /\ readers' = readers \ {j}
  /\ UNCHANGED <<users, userIndex, stored, writer>>

ViewItem(j) ==
  \/ ItemFound(j)
  \/ ItemNotFound(j)
  \/ MarkRead(j)
  \/ PutMark(j)
  \/ MarkUnread(j)
  \/ PutUnmark(j)

-----------------------------------------------------------------------------
(* SetReadStatusForAll(k, false), for every user of the index in turn.     *)

(* Mutant: only the list of users is read under the lock.                  *)
UnmarkForAllUnlocked(j, k) ==
  /\ CanRLock
  /\ Goto(j, "idle", "users")
  /\ key' = [key EXCEPT ![j] = k]
  /\ names' = [names EXCEPT ![j] = userIndex]
  /\ UNCHANGED <<db, lock, name, account, newName, snap, keys>>

UnmarkForAll(j, k) ==
  /\ CanRLock
  /\ Goto(j, "idle", "users")
  /\ key' = [key EXCEPT ![j] = k]
  /\ names' = [names EXCEPT ![j] = userIndex]
  /\ readers' = readers \union {j}
  /\ UNCHANGED <<db, writer, name, account, newName, snap, keys>>

UnmarkNext(j, n) ==
  /\ Goto(j, "users", "clear")
  /\ n \in names[j]
  /\ name' = [name EXCEPT ![j] = n]
  /\ names' = [names EXCEPT ![j] = @ \ {n}]
  /\ ReadIndexOf(j, n)
  /\ UNCHANGED <<db, lock, account, newName, key, keys>>

ClearMark(j) ==
  /\ Goto(j, "clear", "users")
  /\ readIndex' = [readIndex EXCEPT ![name[j]] = snap[j] \ {key[j]}]
  /\ UNCHANGED <<users, userIndex, stored, lock, locals>>

UsersDone(j) ==
  /\ names[j] = {}
  /\ Return(j, "users")
  /\ readers' = readers \ {j}
  /\ UNCHANGED <<db, writer>>

Unmark(j) ==
  \/ \E n \in Names : UnmarkNext(j, n)
  \/ ClearMark(j)
  \/ UsersDone(j)

-----------------------------------------------------------------------------
(* deleteStaleReadStatuses: drop the marks of items that do not exist.     *)

CollectMarks(j) ==
  /\ CanRLock
  /\ Goto(j, "idle", "users")
  /\ names' = [names EXCEPT ![j] = userIndex]
  /\ readers' = readers \union {j}
  /\ UNCHANGED <<db, writer, name, account, newName, key, snap, keys>>

CollectNext(j, n) ==
  /\ Goto(j, "users", "items")
  /\ n \in names[j]
  /\ name' = [name EXCEPT ![j] = n]
  /\ names' = [names EXCEPT ![j] = @ \ {n}]
  /\ keys' = [keys EXCEPT ![j] = readIndex[n]]
  /\ UNCHANGED <<db, lock, account, newName, key, snap>>

KeepMark(j, k) ==
  /\ Goto(j, "items", "items")
  /\ k \in keys[j] \intersect stored
  /\ keys' = [keys EXCEPT ![j] = @ \ {k}]
  /\ UNCHANGED <<db, lock, name, account, newName, key, snap, names>>

StaleMark(j, k) ==
  /\ Goto(j, "items", "stale")
  /\ k \in keys[j] \ stored
  /\ key' = [key EXCEPT ![j] = k]
  /\ keys' = [keys EXCEPT ![j] = @ \ {k}]
  /\ UNCHANGED <<db, lock, name, account, newName, snap, names>>

ReadStaleIndex(j) ==
  /\ Goto(j, "stale", "drop")
  /\ ReadIndexOf(j, name[j])
  /\ UNCHANGED <<db, lock, name, account, newName, key, names, keys>>

DropMark(j) ==
  /\ Goto(j, "drop", "items")
  /\ readIndex' = [readIndex EXCEPT ![name[j]] = snap[j] \ {key[j]}]
  /\ UNCHANGED <<users, userIndex, stored, lock, locals>>

ItemsDone(j) ==
  /\ Goto(j, "items", "users")
  /\ keys[j] = {}
  /\ UNCHANGED <<db, lock, locals>>

Collect(j) ==
  \/ \E n \in Names : CollectNext(j, n)
  \/ \E k \in Keys : KeepMark(j, k) \/ StaleMark(j, k)
  \/ ReadStaleIndex(j)
  \/ DropMark(j)
  \/ ItemsDone(j)
  \/ UsersDone(j)

-----------------------------------------------------------------------------
(* A client sends a request, or the ticker fires.                          *)
Start ==
  \/ \E j \in Settings, n, m \in Names : PostSettings(j, n, m)
  \/ \E j \in Viewers, n \in Names, k \in Keys, next \in {"get", "post"} :
       RequestItem(j, n, k, next)
  \/ \E j \in Unmarkers, k \in Keys : UnmarkForAll(j, k)
  \/ \E j \in Collectors : CollectMarks(j)

SettingsStep(j) == SaveUser(j) \/ ReloadUser(j) \/ ReloadGone(j) \/ RecoverPanic(j)

Next ==
  \/ Start
  \/ \E j \in Settings : SettingsStep(j)
  \/ \E j \in Viewers : ViewItem(j)
  \/ \E j \in Unmarkers : Unmark(j)
  \/ \E j \in Collectors : Collect(j)
  \/ \E k \in Keys : StoreItem(k) \/ ExpireItem(k)

Spec == Init /\ [][Next]_vars

(* A goroutine that can run is scheduled.  Waiting for the lock needs the  *)
(* strong form: the lock may be taken and freed again and again meanwhile, *)
(* but RWMutex starves nobody.  Requests need not come.                    *)
Fairness ==
  /\ \A j \in Settings : SF_vars(SettingsStep(j))
  /\ \A j \in Viewers : SF_vars(ViewItem(j))
  /\ \A j \in Unmarkers : WF_vars(Unmark(j))
  /\ \A j \in Collectors : WF_vars(Collect(j))

FairSpec == Spec /\ Fairness

-----------------------------------------------------------------------------
(* Properties.                                                             *)

SavePCs == {"unindex", "delete", "list", "move", "moving", "index", "put"}
ViewPCs == {"get", "found", "mark", "post", "unmark"}
PCs == SavePCs \union ViewPCs \union {"idle", "save", "lock", "reload",
  "users", "clear", "items", "stale", "drop", "panic"}

(* Every variable has its type; in particular nothing but a username gets  *)
(* into the index of users (SaveUser, user.go).                            *)
TypeOK ==
  /\ users \in [Names -> Accounts \union {None}]
  /\ userIndex \in SUBSET Names
  /\ readIndex \in [Names -> SUBSET Keys]
  /\ stored \in SUBSET Keys
  /\ readers \in SUBSET Jobs
  /\ writer \in Settings \union {None}
  /\ pc \in [Jobs -> PCs]
  /\ name \in [Jobs -> Names \union {None}]
  /\ account \in [Jobs -> Accounts \union {None}]
  /\ newName \in [Jobs -> Names \union {None}]
  /\ key \in [Jobs -> Keys \union {None}]
  /\ snap \in [Jobs -> SUBSET Keys]
  /\ names \in [Jobs -> SUBSET Names]
  /\ keys \in [Jobs -> SUBSET Keys]

(* Whoever gets the read lock finds exactly the stored users in the index, *)
(* however often users are renamed and saved from stale copies (SaveUser   *)
(* updates the index and the records separately).                          *)
UsersIndexed == writer = None => userIndex = Stored

(* Renaming carries every read mark over and leaves none behind, whatever  *)
(* marking goes on meanwhile (renameReadStatus moves them one by one).     *)
RenameMovesMarks ==
  \A j \in Settings :
    pc[j] \in {"index", "put"} /\ name[j] # newName[j] =>
      readIndex[name[j]] = {} /\ snap[j] \subseteq readIndex[newName[j]]

(* No save loses an account or leaves it under two names.                  *)
AccountsKept ==
  writer = None => \A a \in Registered : Cardinality({n \in Names : users[n] = a}) = 1

(* A call that marks one item read or unread leaves the marks of all other *)
(* items as they are (SetReadStatus writes the whole index back).          *)
MarkTouchesOnlyItsItem ==
  [][\A j \in Jobs : pc[j] \in {"mark", "unmark", "clear", "drop"} /\ pc'[j] # pc[j] =>
       \A n \in Names : readIndex'[n] \ {key[j]} = readIndex[n] \ {key[j]}]_vars

(* Why the invariants hold.  The lock: a save between unindex and put has  *)
(* it alone, and whoever has it is in the middle of a call under it.       *)
ReaderPCs == {"mark", "unmark", "users", "clear", "items", "stale", "drop"}

LockInv ==
  /\ writer # None => pc[writer] \in SavePCs \union {"lock"}
  /\ \A j \in Jobs : pc[j] \in SavePCs \union {"lock"} => writer = j
  /\ \A j \in Jobs : pc[j] \in SavePCs => readers = {}
  /\ \A j \in Jobs : pc[j] \in ReaderPCs <=> j \in readers

(* A goroutine has what it works on.                                       *)
LocalInv ==
  /\ \A j \in Jobs :
       pc[j] \in SavePCs \union ViewPCs \union {"save", "lock", "clear", "items", "stale", "drop"} =>
         name[j] \in Names
  /\ \A j \in Jobs : pc[j] \in ViewPCs \union {"moving"} => key[j] \in Keys
  /\ \A j \in Settings :
       pc[j] \in SavePCs \union {"save", "lock"} => newName[j] \in Names /\ account[j] \in Accounts
  /\ \A j \in Settings : pc[j] \in SavePCs \ {"index", "put"} => name[j] # newName[j]

(* How far the index of users is ahead of the records, and that a rename   *)
(* has deleted the old record before it moves the marks.                   *)
IndexInv ==
  /\ \A j \in Settings : pc[j] = "delete" => userIndex = Stored \ {name[j]}
  /\ \A j \in Settings : pc[j] = "put" => userIndex = Stored \union {newName[j]}
  /\ (\A j \in Settings : pc[j] \notin {"delete", "put"}) => userIndex = Stored
  /\ \A j \in Settings :
       pc[j] \in SavePCs \ {"unindex", "delete"} /\ name[j] # newName[j] => users[name[j]] = None

(* How far the marks have moved.                                           *)
MarksInv ==
  \A j \in Settings :
    /\ pc[j] = "move" =>
         readIndex[name[j]] = keys[j] /\ snap[j] \ keys[j] \subseteq readIndex[newName[j]]
    /\ pc[j] = "moving" =>
         /\ readIndex[name[j]] = keys[j]
         /\ snap[j] \ (keys[j] \union {key[j]}) \subseteq readIndex[newName[j]]

(* The conjunction that every step preserves; the two invariants above     *)
(* follow from it.                                                         *)
SaveInv == LockInv /\ LocalInv /\ IndexInv /\ MarksInv /\ RenameMovesMarks

(* SaveUser is atomic for everyone who takes the lock, and saves what was  *)
(* once stored.  While it runs, the abstract store is already the one it   *)
(* will leave behind.                                                      *)
Saving == writer # None /\ pc[writer] \in SavePCs

SavedUsers ==
  IF Saving THEN [users EXCEPT ![name[writer]] = None, ![newName[writer]] = account[writer]]
            ELSE users

InTransit == IF pc[writer] = "moving" THEN {key[writer]} ELSE {}

SavedMarks ==
  IF Saving /\ name[writer] # newName[writer]
  THEN [readIndex EXCEPT ![name[writer]] = {},
                         ![newName[writer]] = @ \union readIndex[name[writer]] \union InTransit]
  ELSE readIndex

Copies == {<<name[j], account[j]>> : j \in {i \in Settings : pc[i] # "idle"}}

Store == INSTANCE UserStore WITH users <- SavedUsers, marks <- SavedMarks, copies <- Copies

SavesAreAtomic == Store!Spec

(* A save is answered, whatever readers and other saves do.                *)
SaveCompletes == \A j \in Settings : pc[j] = "save" ~> pc[j] = "idle"

(* So is a request for an item.                                            *)
ViewCompletes == \A j \in Viewers : pc[j] \in {"get", "post"} ~> pc[j] = "idle"
=============================================================================
