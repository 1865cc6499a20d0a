---------------------------- MODULE BackupRestore ---------------------------
(***************************************************************************)
(* The directives backup and restore.  The program is alone with the       *)
(* database then, but the database may be one that a killed program left,  *)
(* a write may fail, and a restore may be killed and run again.  Restore   *)
(* adds to what is there; after it, and after a backup, main's GC runs.    *)
(*                                                                         *)
(* A database is a record; a write to it is a step of Restore.  Of times   *)
(* it is only told whether they are older than itemTTL.  A version of an   *)
(* item's record is its title, URL and date, which SaveFeeditems compares, *)
(* and not when it was fetched; the index of last seen times, which nobody *)
(* reads, is left out.                                                     *)
(***************************************************************************)
EXTENDS Naturals

CONSTANTS
  Names,
  Profiles,            \* the records of users
  FeedsOf, PagesOf,    \* [Profiles -> SUBSET Feeds], [Profiles -> SUBSET Pages]
  Broken,              \* profiles with feeds or pages that are no XML
  Feeds, Guids, Pages,
  Versions,            \* of an item's record, of the contents of an item or a page,
                       \* of a variable
  Empty,               \* the version of length 0
  Encoded,             \* [Versions -> Versions], what JSON makes of a text
  Vars,
  None,                \* no record
  Sources, Targets,    \* databases to back up and to restore into
  MaxStops             \* bound: how often a restore is killed or a write of it fails

Items == Feeds \X Guids
Keys == Items \union Pages

VARIABLES
  db,
  file,      \* nanorss.json
  pc,
  todoUsers, todoMarks, todoItems, todoPages, todoVars,
  name, item, var,  \* at hand
  failed,
  (* history *)
  fresh,     \* the restores began with an empty database
  lapsed,    \* pages whose fetch status was stale at the GC
  stops

todo == <<todoUsers, todoMarks, todoItems, todoPages, todoVars>>
vars == <<db, file, pc, todoUsers, todoMarks, todoItems, todoPages, todoVars,
          name, item, var, failed, fresh, lapsed, stops>>

Databases ==
  [users : [Names -> Profiles \union {None}], userIndex : SUBSET Names,
   marks : [Names -> SUBSET Keys],
   items : [Items -> Versions \union {None}], itemIndex : SUBSET Items,
   contents : [Items -> Versions \union {None}],
   pages : [Pages -> Versions \union {None}],
   vars : [Vars -> Versions \union {None}], varIndex : SUBSET Vars,
   stale : SUBSET (Feeds \union Pages),   \* a fetch status older than itemTTL
   unseen : SUBSET Items]                 \* no last seen time, or one older than itemTTL

NewDatabase ==
  [users |-> [n \in Names |-> None], userIndex |-> {},
   marks |-> [n \in Names |-> {}],
   items |-> [i \in Items |-> None], itemIndex |-> {},
   contents |-> [i \in Items |-> None],
   pages |-> [p \in Pages |-> None],
   vars |-> [v \in Vars |-> None], varIndex |-> {},
   stale |-> {}, unseen |-> Items]

ASSUME BackupAssumption ==
  /\ None \notin Profiles \union Versions \union Names \union Items \union Vars
  /\ Empty \in Versions
  /\ Encoded \in [Versions -> Versions]
  /\ \A v \in Versions : Encoded[Encoded[v]] = Encoded[v]
  /\ FeedsOf \in [Profiles -> SUBSET Feeds]
  /\ PagesOf \in [Profiles -> SUBSET Pages]
  /\ Items \intersect Pages = {}
  /\ Sources \subseteq Databases
  /\ Targets \subseteq Databases
  /\ MaxStops \in Nat

Init ==
  /\ db \in Sources
  /\ file = None
  /\ pc = "idle"
  /\ todoUsers = {}
  /\ todoMarks = {}
  /\ todoItems = {}
  /\ todoPages = {}
  /\ todoVars = {}
  /\ name = None
  /\ item = None
  /\ var = None
  /\ failed = FALSE
  /\ fresh = FALSE
  /\ lapsed = {}
  /\ stops = 0

-----------------------------------------------------------------------------
(* The GC (FeedStore and UserData have its steps).                         *)

Lapsed(d) == d.stale \intersect Pages

Expired(d) == {i \in d.unseen \intersect d.itemIndex : i[1] \in d.stale}

AfterGC(d) ==
  LET items == [i \in Items |-> IF i \in Expired(d) THEN None ELSE d.items[i]]
      contents == [i \in Items |-> IF i \in Expired(d) THEN None ELSE d.contents[i]]
      pages == [p \in Pages |-> IF p \in d.stale THEN None ELSE d.pages[p]]
      exists(k) == (k \in Items /\ items[k] # None) \/ (k \in Pages /\ pages[k] # None)
      marks == [n \in Names |-> IF n \in d.userIndex THEN {k \in d.marks[n] : exists(k)}
                                                     ELSE d.marks[n]]
  IN [d EXCEPT !.items = items, !.contents = contents, !.pages = pages,
               !.marks = marks, !.stale = {}]

-----------------------------------------------------------------------------
(* Backup.  What no user subscribes to and what has no record is left out; *)
(* a variable or contents without a value count as empty.  JSON is UTF-8,  *)
(* into which the XML decoder has turned items; a page is stored as the    *)
(* site sent it, and what is no UTF-8 in it is replaced.                   *)

Text(x) == IF x = None THEN Empty ELSE x

Owned(d, Of) == UNION {Of[d.users[n]] : n \in d.userIndex}

(* Mutant: what is listed is taken to exist.                               *)
BackupListed(d) ==
  [users |-> [n \in d.userIndex |-> d.users[n]],
   marks |-> [n \in d.userIndex |-> d.marks[n]],
   items |-> [i \in {j \in d.itemIndex : j[1] \in Owned(d, FeedsOf)} |-> d.items[i]],
   contents |-> [i \in {j \in d.itemIndex : j[1] \in Owned(d, FeedsOf)} |-> Text(d.contents[i])],
   pages |-> [p \in {q \in Owned(d, PagesOf) : d.pages[q] # None} |-> Encoded[d.pages[p]]],
   vars |-> [v \in d.varIndex |-> Text(d.vars[v])]]

BackedUpItems(d) == {i \in d.itemIndex : i[1] \in Owned(d, FeedsOf) /\ d.items[i] # None}

BackupOf(d) ==
  [users |-> [n \in d.userIndex |-> d.users[n]],
   marks |-> [n \in d.userIndex |-> d.marks[n]],
   items |-> [i \in BackedUpItems(d) |-> d.items[i]],
   contents |-> [i \in BackedUpItems(d) |-> Text(d.contents[i])],
   pages |-> [p \in {q \in Owned(d, PagesOf) : d.pages[q] # None} |-> Encoded[d.pages[p]]],
   vars |-> [v \in d.varIndex |-> Text(d.vars[v])]]

(* A user who is listed without a record is a nil pointer, and one whose   *)
(* feeds or pages are no XML an error: there is no backup for anybody.     *)
BackupPossible(d) == \A n \in d.userIndex : d.users[n] \in Profiles \ Broken

Backup ==
  /\ pc = "idle"
  /\ file = None
  /\ BackupPossible(db)
  /\ file' = BackupOf(db)
  /\ db' = AfterGC(db)
  /\ UNCHANGED <<pc, todo, name, item, var, failed, fresh, lapsed, stops>>

(* Backup ends in a panic, after which the GC runs, or in Fatal.           *)
BackupFails ==
  /\ pc = "idle"
  /\ file = None
  /\ ~BackupPossible(db)
  /\ pc' = "nobackup"
  /\ \/ (\E n \in db.userIndex : db.users[n] = None) /\ db' = AfterGC(db)
     \/ (\E n \in db.userIndex : db.users[n] \in Broken) /\ db' = db
  /\ UNCHANGED <<file, todo, name, item, var, failed, fresh, lapsed, stops>>

(* The database that the file is restored into: a new one, the same, or    *)
(* one that was used since.                                                *)
ChooseTarget ==
  /\ pc = "idle"
  /\ file # None
  /\ pc' = "down"
  /\ db' \in {NewDatabase, db} \union Targets
  /\ fresh' = (db' = NewDatabase)
  /\ UNCHANGED <<file, todo, name, item, var, failed, lapsed, stops>>

-----------------------------------------------------------------------------
(* Restore.                                                                *)

Goto(from, to) == pc = from /\ pc' = to

StartRestore ==
  /\ Goto("down", "users")
  /\ todoUsers' = DOMAIN file.users
  /\ todoItems' = DOMAIN file.items
  /\ todoPages' = DOMAIN file.pages
  /\ todoVars' = DOMAIN file.vars
  /\ failed' = FALSE
  /\ UNCHANGED <<db, file, todoMarks, name, item, var, fresh, lapsed, stops>>

(* SaveUser without a new name.                                            *)
IndexUser(n) ==
  /\ Goto("users", "putuser")
  /\ n \in todoUsers
  /\ todoUsers' = todoUsers \ {n}
  /\ name' = n
  /\ todoMarks' = file.marks[n]
  /\ db' = [db EXCEPT !.userIndex = @ \union {n}]
  /\ UNCHANGED <<file, todoItems, todoPages, todoVars, item, var, failed, fresh, lapsed, stops>>

PutUser ==
  /\ Goto("putuser", "marks")
  /\ db' = [db EXCEPT !.users[name] = file.users[name]]
  /\ UNCHANGED <<file, todo, name, item, var, failed, fresh, lapsed, stops>>

SetReadStatus(k) ==
  /\ Goto("marks", "marks")
  /\ k \in todoMarks
  /\ todoMarks' = todoMarks \ {k}
  /\ db' = [db EXCEPT !.marks[name] = @ \union {k}]
  /\ UNCHANGED <<file, todoUsers, todoItems, todoPages, todoVars, name, item, var, failed,
                 fresh, lapsed, stops>>

MarksDone ==
  /\ Goto("marks", "users")
  /\ todoMarks = {}
  /\ UNCHANGED <<db, file, todo, name, item, var, failed, fresh, lapsed, stops>>

UsersDone ==
  /\ Goto("users", "items")
  /\ todoUsers = {}
  /\ UNCHANGED <<db, file, todo, name, item, var, failed, fresh, lapsed, stops>>

(* Mutant: an item is not listed.                                          *)
IndexNoItem(i) ==
  /\ Goto("items", "seeitem")
  /\ i \in todoItems
  /\ todoItems' = todoItems \ {i}
  /\ item' = i
  /\ UNCHANGED <<db, file, todoUsers, todoMarks, todoPages, todoVars, name, var, failed,
                 fresh, lapsed, stops>>

(* SaveFeeditems.                                                          *)
IndexItem(i) ==
  /\ Goto("items", "seeitem")
  /\ i \in todoItems
  /\ todoItems' = todoItems \ {i}
  /\ item' = i
  /\ db' = [db EXCEPT !.itemIndex = @ \union {i}]
  /\ UNCHANGED <<file, todoUsers, todoMarks, todoPages, todoVars, name, var, failed,
                 fresh, lapsed, stops>>

(* SetLastSeen.                                                            *)
SeeItem ==
  /\ Goto("seeitem", "putitem")
  /\ db' = [db EXCEPT !.unseen = @ \ {item}]
  /\ UNCHANGED <<file, todo, name, item, var, failed, fresh, lapsed, stops>>

IsStored(i) ==
  /\ db.items[i] = file.items[i]
  /\ Text(db.contents[i]) = file.contents[i]

(* Mutant: an item is not written when its record is the same.             *)
SkipSameRecord ==
  /\ Goto("putitem", "items")
  /\ db.items[item] = file.items[item]
  /\ UNCHANGED <<db, file, todo, name, item, var, failed, fresh, lapsed, stops>>

(* Nothing is written when nothing has changed.                            *)
SkipItem ==
  /\ Goto("putitem", "items")
  /\ IsStored(item)
  /\ UNCHANGED <<db, file, todo, name, item, var, failed, fresh, lapsed, stops>>

PutItem ==
  /\ Goto("putitem", "putcontents")
  /\ ~IsStored(item)
  /\ db' = [db EXCEPT !.items[item] = file.items[item]]
  /\ UNCHANGED <<file, todo, name, item, var, failed, fresh, lapsed, stops>>

PutContents ==
  /\ Goto("putcontents", "items")
  /\ db' = [db EXCEPT !.contents[item] = file.contents[item]]
  /\ UNCHANGED <<file, todo, name, item, var, failed, fresh, lapsed, stops>>

ItemsDone ==
  /\ Goto("items", "pages")
  /\ todoItems = {}
  /\ UNCHANGED <<db, file, todo, name, item, var, failed, fresh, lapsed, stops>>

SavePage(p) ==
  /\ Goto("pages", "pages")
  /\ p \in todoPages
  /\ todoPages' = todoPages \ {p}
  /\ db' = [db EXCEPT !.pages[p] = file.pages[p]]
  /\ UNCHANGED <<file, todoUsers, todoMarks, todoItems, todoVars, name, item, var, failed,
                 fresh, lapsed, stops>>

PagesDone ==
  /\ Goto("pages", "vars")
  /\ todoPages = {}
  /\ UNCHANGED <<db, file, todo, name, item, var, failed, fresh, lapsed, stops>>

(* SetConfigVariable.                                                      *)
IndexVar(v) ==
  /\ Goto("vars", "putvar")
  /\ v \in todoVars
  /\ todoVars' = todoVars \ {v}
  /\ var' = v
  /\ db' = [db EXCEPT !.varIndex = @ \union {v}]
  /\ UNCHANGED <<file, todoUsers, todoMarks, todoItems, todoPages, name, item, failed,
                 fresh, lapsed, stops>>

PutVar ==
  /\ Goto("putvar", "vars")
  /\ db' = [db EXCEPT !.vars[var] = file.vars[var]]
  /\ UNCHANGED <<file, todo, name, item, var, failed, fresh, lapsed, stops>>

(* All is restored: the GC, and the end.  log.Fatal after a failure skips  *)
(* the GC.                                                                 *)
RestoreDone ==
  /\ pc = "vars"
  /\ todoVars = {}
  /\ ~failed
  /\ pc' = "restored"
  /\ db' = AfterGC(db)
  /\ lapsed' = Lapsed(db)
  /\ UNCHANGED <<file, todo, name, item, var, failed, fresh, stops>>

RestoreFatal ==
  /\ Goto("vars", "down")
  /\ todoVars = {}
  /\ failed
  /\ UNCHANGED <<db, file, todo, name, item, var, failed, fresh, lapsed, stops>>

-----------------------------------------------------------------------------
(* A write fails: Restore goes on with the next user, mark, page or        *)
(* variable, but not with the next item.                                   *)

MayStop ==
  /\ stops < MaxStops
  /\ stops' = stops + 1

WriteFails(to) ==
  /\ MayStop
  /\ pc' = to
  /\ failed' = TRUE
  /\ UNCHANGED <<db, file, item, var, fresh, lapsed>>

(* IndexUser or PutUser; the marks follow.                                 *)
UserFails(n) ==
  /\ \/ pc = "users" /\ n \in todoUsers
     \/ pc = "putuser" /\ n = name
  /\ name' = n
  /\ todoUsers' = todoUsers \ {n}
  /\ todoMarks' = file.marks[n]
  /\ WriteFails("marks")
  /\ UNCHANGED <<todoItems, todoPages, todoVars>>

MarkFails(k) ==
  /\ pc = "marks"
  /\ k \in todoMarks
  /\ todoMarks' = todoMarks \ {k}
  /\ WriteFails("marks")
  /\ UNCHANGED <<todoUsers, todoItems, todoPages, todoVars, name>>

ItemFails ==
  /\ \/ pc = "items" /\ todoItems # {}
     \/ pc \in {"seeitem", "putitem", "putcontents"}
  /\ todoItems' = {}
  /\ WriteFails("pages")
  /\ UNCHANGED <<todoUsers, todoMarks, todoPages, todoVars, name>>

PageFails(p) ==
  /\ pc = "pages"
  /\ p \in todoPages
  /\ todoPages' = todoPages \ {p}
  /\ WriteFails("pages")
  /\ UNCHANGED <<todoUsers, todoMarks, todoItems, todoVars, name>>

VarFails(v) ==
  /\ \/ pc = "vars" /\ v \in todoVars
     \/ pc = "putvar" /\ v = var
  /\ todoVars' = todoVars \ {v}
  /\ WriteFails("vars")
  /\ UNCHANGED <<todoUsers, todoMarks, todoItems, todoPages, name>>

Kill ==
  /\ pc \notin {"idle", "nobackup", "down", "restored"}
  /\ MayStop
  /\ pc' = "down"
  /\ UNCHANGED <<db, file, todo, name, item, var, failed, fresh, lapsed>>

-----------------------------------------------------------------------------
RestoreStep ==
  \/ StartRestore
  \/ \E n \in Names : IndexUser(n)
  \/ PutUser
  \/ \E k \in Keys : SetReadStatus(k)
  \/ MarksDone
  \/ UsersDone
  \/ \E i \in Items : IndexItem(i)
  \/ SeeItem
  \/ SkipItem
  \/ PutItem
  \/ PutContents
  \/ ItemsDone
  \/ \E p \in Pages : SavePage(p)
  \/ PagesDone
  \/ \E v \in Vars : IndexVar(v)
  \/ PutVar
  \/ RestoreDone
  \/ RestoreFatal

Fault ==
  \/ \E n \in Names : UserFails(n)
  \/ \E k \in Keys : MarkFails(k)
  \/ ItemFails
  \/ \E p \in Pages : PageFails(p)
  \/ \E v \in Vars : VarFails(v)
  \/ Kill

Done == pc \in {"nobackup", "restored"} /\ UNCHANGED vars

Next == Backup \/ BackupFails \/ ChooseTarget \/ RestoreStep \/ Fault \/ Done

Spec == Init /\ [][Next]_vars

-----------------------------------------------------------------------------
(* Properties.                                                             *)

(* Every variable has its type; no record is stored that is no record.     *)
TypeOK ==
  /\ db \in Databases
  /\ file # None => file.items \in [DOMAIN file.items -> Versions]
  /\ todoUsers \in SUBSET Names
  /\ todoMarks \in SUBSET Keys
  /\ todoItems \in SUBSET Items
  /\ todoPages \in SUBSET Pages
  /\ todoVars \in SUBSET Vars
  /\ name \in Names \union {None}
  /\ item \in Items \union {None}
  /\ var \in Vars \union {None}
  /\ failed \in BOOLEAN
  /\ fresh \in BOOLEAN
  /\ lapsed \in SUBSET Pages
  /\ stops \in 0..MaxStops

Exists(k) == (k \in Items /\ db.items[k] # None) \/ (k \in Pages /\ db.pages[k] # None)

(* When Restore reports no error, everything in the file is in the         *)
(* database, through whatever was there before, through earlier restores   *)
(* that were killed or failed, and through the GC that follows; except a   *)
(* page that the database had not fetched for long, and marks of what does *)
(* not exist.                                                              *)
RestoreComplete ==
  pc = "restored" =>
    /\ \A n \in DOMAIN file.users :
         /\ n \in db.userIndex
         /\ db.users[n] = file.users[n]
         /\ \A k \in file.marks[n] : Exists(k) => k \in db.marks[n]
    /\ \A i \in DOMAIN file.items : i \in db.itemIndex /\ IsStored(i)
    /\ \A p \in DOMAIN file.pages \ lapsed : db.pages[p] = file.pages[p]
    /\ \A v \in DOMAIN file.vars : v \in db.varIndex /\ db.vars[v] = file.vars[v]

Existing(f) ==
  [f EXCEPT !.marks = [n \in DOMAIN f.users |->
                         f.marks[n] \intersect (DOMAIN f.items \union DOMAIN f.pages)]]

(* A backup that is restored into a new database and backed up again is    *)
(* the same, but for marks of what it does not hold.                       *)
RoundTrip == pc = "restored" /\ fresh => BackupOf(db) = Existing(file)

(* What Restore is said to do, to replace the data: after it the accounts  *)
(* and their marks are those of the file.                                  *)
RestoreReplaces ==
  pc = "restored" =>
    /\ db.userIndex \subseteq DOMAIN file.users
    /\ \A n \in db.userIndex : db.marks[n] \subseteq file.marks[n]
=============================================================================
