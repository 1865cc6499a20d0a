------------------------- MODULE BackupRestoreProofs ------------------------
(***************************************************************************)
(* BackupRestore for every database and any number of kills and failing    *)
(* writes: the types, that what Restore reports as restored is there, and  *)
(* that a round trip changes nothing.                                      *)
(***************************************************************************)
EXTENDS BackupRestore, TLAPS

(* What is in the file are records.                                        *)
FileOK ==
  file # None =>
    /\ DOMAIN file.users \subseteq Names
    /\ \A n \in DOMAIN file.users : file.users[n] \in Profiles /\ file.marks[n] \subseteq Keys
    /\ DOMAIN file.items \subseteq Items
    /\ file.items \in [DOMAIN file.items -> Versions]
    /\ file.contents \in [DOMAIN file.items -> Versions]
    /\ DOMAIN file.pages \subseteq Pages
    /\ \A p \in DOMAIN file.pages : file.pages[p] \in Versions
    /\ DOMAIN file.vars \subseteq Vars
    /\ \A v \in DOMAIN file.vars : file.vars[v] \in Versions

AtItem == pc \in {"seeitem", "putitem", "putcontents"}

Restoring ==
  pc \in {"users", "putuser", "marks", "items", "pages", "vars", "putvar"} \/ AtItem

PcOK == pc \in {"idle", "nobackup", "down", "restored"} \/ Restoring

(* What is to be done or in hand is in the file.                           *)
HandOK ==
  /\ pc \notin {"idle", "nobackup"} => file # None
  /\ Restoring => /\ todoUsers \subseteq DOMAIN file.users
                  /\ todoItems \subseteq DOMAIN file.items
                  /\ todoPages \subseteq DOMAIN file.pages
                  /\ todoVars \subseteq DOMAIN file.vars
  /\ pc \in {"putuser", "marks"} => name \in DOMAIN file.users
  /\ AtItem => item \in DOMAIN file.items
  /\ pc = "putvar" => var \in DOMAIN file.vars

TypeInv == TypeOK /\ FileOK /\ PcOK /\ HandOK

-----------------------------------------------------------------------------
(* A record of the right fields is a database.                             *)
LEMMA Fields ==
  ASSUME NEW d
  PROVE  d \in Databases =>
           /\ d.users \in [Names -> Profiles \union {None}]
           /\ d.userIndex \subseteq Names
           /\ d.marks \in [Names -> SUBSET Keys]
           /\ d.items \in [Items -> Versions \union {None}]
           /\ d.itemIndex \subseteq Items
           /\ d.contents \in [Items -> Versions \union {None}]
           /\ d.pages \in [Pages -> Versions \union {None}]
           /\ d.vars \in [Vars -> Versions \union {None}]
           /\ d.varIndex \subseteq Vars
           /\ d.stale \subseteq Feeds \union Pages
           /\ d.unseen \subseteq Items
BY DEF Databases

LEMMA NewDatabaseType == NewDatabase \in Databases
BY DEF NewDatabase, Databases

(* The GC leaves a database, and keeps what it has no reason to delete.    *)
LEMMA AfterGCFields ==
  ASSUME NEW d \in Databases
  PROVE  /\ AfterGC(d) \in Databases
         /\ AfterGC(d).users = d.users
         /\ AfterGC(d).userIndex = d.userIndex
         /\ AfterGC(d).itemIndex = d.itemIndex
         /\ AfterGC(d).vars = d.vars
         /\ AfterGC(d).varIndex = d.varIndex
         /\ \A i \in Items \ d.unseen : /\ AfterGC(d).items[i] = d.items[i]
                                       /\ AfterGC(d).contents[i] = d.contents[i]
         /\ \A p \in Pages \ d.stale : AfterGC(d).pages[p] = d.pages[p]
         /\ \A n \in d.userIndex : \A k \in d.marks[n] :
              \/ k \in Items /\ AfterGC(d).items[k] # None
              \/ k \in Pages /\ AfterGC(d).pages[k] # None
              => k \in AfterGC(d).marks[n]
<1> DEFINE items == [i \in Items |-> IF i \in Expired(d) THEN None ELSE d.items[i]]
           contents == [i \in Items |-> IF i \in Expired(d) THEN None ELSE d.contents[i]]
           pages == [p \in Pages |-> IF p \in d.stale THEN None ELSE d.pages[p]]
           exists(k) == (k \in Items /\ items[k] # None) \/ (k \in Pages /\ pages[k] # None)
           marks == [n \in Names |-> IF n \in d.userIndex THEN {k \in d.marks[n] : exists(k)}
                                                          ELSE d.marks[n]]
<1>1. AfterGC(d) = [d EXCEPT !.items = items, !.contents = contents, !.pages = pages,
                             !.marks = marks, !.stale = {}]
  BY DEF AfterGC
<1>2. /\ items \in [Items -> Versions \union {None}]
      /\ contents \in [Items -> Versions \union {None}]
  BY Fields
<1>3. pages \in [Pages -> Versions \union {None}]
  BY Fields
<1>4. marks \in [Names -> SUBSET Keys]
  <2> SUFFICES ASSUME NEW n \in Names
               PROVE  (IF n \in d.userIndex THEN {k \in d.marks[n] : exists(k)}
                                            ELSE d.marks[n]) \in SUBSET Keys
    OBVIOUS
  <2>1. d.marks[n] \in SUBSET Keys
    BY Fields
  <2> HIDE DEF exists
  <2> QED BY <2>1
<1>5. \A i \in Expired(d) : i \in d.unseen
  BY DEF Expired
<1> HIDE DEF items, contents, pages, marks
<1>6. /\ AfterGC(d) \in Databases
      /\ AfterGC(d).users = d.users
      /\ AfterGC(d).userIndex = d.userIndex
      /\ AfterGC(d).itemIndex = d.itemIndex
      /\ AfterGC(d).vars = d.vars
      /\ AfterGC(d).varIndex = d.varIndex
      /\ AfterGC(d).items = items
      /\ AfterGC(d).contents = contents
      /\ AfterGC(d).pages = pages
      /\ AfterGC(d).marks = marks
  BY <1>1, <1>2, <1>3, <1>4 DEF Databases
<1>7. \A i \in Items \ d.unseen : items[i] = d.items[i] /\ contents[i] = d.contents[i]
  BY <1>5 DEF items, contents
<1>8. \A p \in Pages \ d.stale : pages[p] = d.pages[p]
  BY DEF pages
<1>9. \A n \in d.userIndex : \A k \in d.marks[n] : exists(k) => k \in marks[n]
  <2> HIDE DEF exists
  <2> QED BY Fields DEF marks
<1> QED BY <1>6, <1>7, <1>8, <1>9

(* What Backup writes are the records that it found.                       *)
LEMMA BackupType ==
  ASSUME db \in Databases, BackupPossible(db), file' = BackupOf(db)
  PROVE  FileOK'
<1> DEFINE it == BackedUpItems(db)
           pg == {q \in Owned(db, PagesOf) : db.pages[q] # None}
           vl(v) == Text(db.vars[v])
<1>1. /\ file'.users = [n \in db.userIndex |-> db.users[n]]
      /\ file'.marks = [n \in db.userIndex |-> db.marks[n]]
      /\ file'.items = [i \in it |-> db.items[i]]
      /\ file'.contents = [i \in it |-> Text(db.contents[i])]
      /\ file'.pages = [p \in pg |-> Encoded[db.pages[p]]]
      /\ file'.vars = [v \in db.varIndex |-> vl(v)]
  BY DEF BackupOf
<1>2. \A n \in db.userIndex : db.users[n] \in Profiles /\ db.marks[n] \subseteq Keys /\ n \in Names
  BY Fields DEF BackupPossible
<1>3. \A i \in it : i \in Items /\ db.items[i] \in Versions /\ Text(db.contents[i]) \in Versions
  BY Fields, BackupAssumption DEF BackedUpItems, Text
<1>4. pg \subseteq Pages
  BY <1>2, BackupAssumption DEF Owned
<1>5. \A p \in pg : Encoded[db.pages[p]] \in Versions
  BY <1>4, Fields, BackupAssumption
<1>6. \A v \in db.varIndex : v \in Vars /\ vl(v) \in Versions
  BY Fields, BackupAssumption DEF Text
<1> HIDE DEF it, pg, vl
<1>7. /\ DOMAIN file'.users \subseteq Names
      /\ \A n \in DOMAIN file'.users : file'.users[n] \in Profiles /\ file'.marks[n] \subseteq Keys
  BY <1>1, <1>2
<1>8. /\ DOMAIN file'.items \subseteq Items
      /\ file'.items \in [DOMAIN file'.items -> Versions]
      /\ file'.contents \in [DOMAIN file'.items -> Versions]
  BY <1>1, <1>3
<1>9. DOMAIN file'.pages \subseteq Pages /\ \A p \in DOMAIN file'.pages : file'.pages[p] \in Versions
  BY <1>1, <1>4, <1>5
<1>10. DOMAIN file'.vars \subseteq Vars /\ \A v \in DOMAIN file'.vars : file'.vars[v] \in Versions
  BY <1>1, <1>6
<1> QED BY <1>7, <1>8, <1>9, <1>10 DEF FileOK

(* A write to one field of a database leaves a database.                   *)
LEMMA Writes ==
  ASSUME NEW d \in Databases
  PROVE  /\ \A n \in Names : [d EXCEPT !.userIndex = @ \union {n}] \in Databases
         /\ \A n \in Names, x \in Profiles : [d EXCEPT !.users[n] = x] \in Databases
         /\ \A n \in Names, k \in Keys : [d EXCEPT !.marks[n] = @ \union {k}] \in Databases
         /\ \A i \in Items : [d EXCEPT !.itemIndex = @ \union {i}] \in Databases
         /\ \A i \in Items : [d EXCEPT !.unseen = @ \ {i}] \in Databases
         /\ \A i \in Items, v \in Versions : [d EXCEPT !.items[i] = v] \in Databases
         /\ \A i \in Items, v \in Versions : [d EXCEPT !.contents[i] = v] \in Databases
         /\ \A p \in Pages, v \in Versions : [d EXCEPT !.pages[p] = v] \in Databases
         /\ \A x \in Vars : [d EXCEPT !.varIndex = @ \union {x}] \in Databases
         /\ \A x \in Vars, v \in Versions : [d EXCEPT !.vars[x] = v] \in Databases
<1>1. \A n \in Names : [d EXCEPT !.userIndex = @ \union {n}] \in Databases
  BY DEF Databases
<1>2. \A n \in Names, x \in Profiles : [d EXCEPT !.users[n] = x] \in Databases
  BY DEF Databases
<1>3. \A n \in Names, k \in Keys : [d EXCEPT !.marks[n] = @ \union {k}] \in Databases
  BY DEF Databases
<1>4. \A i \in Items : [d EXCEPT !.itemIndex = @ \union {i}] \in Databases
  BY DEF Databases
<1>5. \A i \in Items : [d EXCEPT !.unseen = @ \ {i}] \in Databases
  BY DEF Databases
<1>9. \A i \in Items, v \in Versions : [d EXCEPT !.items[i] = v] \in Databases
  BY DEF Databases
<1>10. \A i \in Items, v \in Versions : [d EXCEPT !.contents[i] = v] \in Databases
  BY DEF Databases
<1>6. \A p \in Pages, v \in Versions : [d EXCEPT !.pages[p] = v] \in Databases
  BY DEF Databases
<1>7. \A x \in Vars : [d EXCEPT !.varIndex = @ \union {x}] \in Databases
  BY DEF Databases
<1>8. \A x \in Vars, v \in Versions : [d EXCEPT !.vars[x] = v] \in Databases
  BY DEF Databases
<1> QED BY <1>1, <1>2, <1>3, <1>4, <1>5, <1>6, <1>7, <1>8, <1>9, <1>10

-----------------------------------------------------------------------------
LEMMA TypeInit == Init => TypeInv
<1> SUFFICES ASSUME Init PROVE TypeInv
  OBVIOUS
<1>1. TypeOK
  <2>1. db \in Databases
    BY BackupAssumption DEF Init
  <2>2. stops \in 0..MaxStops
    BY BackupAssumption DEF Init
  <2> QED BY <2>1, <2>2 DEF Init, TypeOK
<1>2. FileOK
  BY DEF Init, FileOK
<1>3. PcOK /\ HandOK
  BY DEF Init, PcOK, HandOK, Restoring, AtItem
<1> QED BY <1>1, <1>2, <1>3 DEF TypeInv

LEMMA TypeNext == TypeInv /\ [Next]_vars => TypeInv'
<1> SUFFICES ASSUME TypeInv, [Next]_vars
             PROVE  TypeInv'
  OBVIOUS
<1> USE DEF TypeInv, TypeOK, FileOK, PcOK, HandOK, Restoring, AtItem, todo, Goto
<1>1. CASE Backup
  <2>1. AfterGC(db) \in Databases
    BY AfterGCFields
  <2>2. FileOK'
    BY <1>1, BackupType DEF Backup
  <2> QED BY <1>1, <2>1, <2>2 DEF Backup
<1>2. CASE BackupFails
  BY <1>2, AfterGCFields DEF BackupFails
<1>3. CASE ChooseTarget
  BY <1>3, NewDatabaseType, BackupAssumption DEF ChooseTarget
<1>4. CASE RestoreStep
  <2>1. CASE StartRestore
    BY <2>1 DEF StartRestore
  <2>2. ASSUME NEW n \in Names, IndexUser(n) PROVE TypeInv'
    BY <2>2, Writes DEF IndexUser
  <2>3. CASE PutUser
    BY <2>3, Writes DEF PutUser
  <2>4. ASSUME NEW k \in Keys, SetReadStatus(k) PROVE TypeInv'
    BY <2>4, Writes DEF SetReadStatus
  <2>5. CASE MarksDone
    BY <2>5 DEF MarksDone
  <2>6. CASE UsersDone
    BY <2>6 DEF UsersDone
  <2>7. ASSUME NEW i \in Items, IndexItem(i) PROVE TypeInv'
    BY <2>7, Writes DEF IndexItem
  <2>8. CASE PutItem
    BY <2>8, Writes DEF PutItem
  <2>16. CASE SeeItem
    BY <2>16, Writes DEF SeeItem
  <2>17. CASE SkipItem
    BY <2>17 DEF SkipItem
  <2>18. CASE PutContents
    BY <2>18, Writes DEF PutContents
  <2>9. CASE ItemsDone
    BY <2>9 DEF ItemsDone
  <2>10. ASSUME NEW p \in Pages, SavePage(p) PROVE TypeInv'
    BY <2>10, Writes DEF SavePage
  <2>11. CASE PagesDone
    BY <2>11 DEF PagesDone
  <2>12. ASSUME NEW v \in Vars, IndexVar(v) PROVE TypeInv'
    BY <2>12, Writes DEF IndexVar
  <2>13. CASE PutVar
    BY <2>13, Writes DEF PutVar
  <2>14. CASE RestoreDone
    BY <2>14, AfterGCFields DEF RestoreDone, Lapsed
  <2>15. CASE RestoreFatal
    BY <2>15 DEF RestoreFatal
  <2> QED BY <1>4, <2>1, <2>2, <2>3, <2>4, <2>5, <2>6, <2>7, <2>8, <2>9, <2>10, <2>11,
             <2>12, <2>13, <2>14, <2>15, <2>16, <2>17, <2>18 DEF RestoreStep
<1>5. CASE Fault
  <2> USE BackupAssumption DEF WriteFails, MayStop
  <2>1. ASSUME NEW n \in Names, UserFails(n) PROVE TypeInv'
    BY <2>1 DEF UserFails
  <2>2. ASSUME NEW k \in Keys, MarkFails(k) PROVE TypeInv'
    BY <2>2 DEF MarkFails
  <2>3. CASE ItemFails
    BY <2>3 DEF ItemFails
  <2>4. ASSUME NEW p \in Pages, PageFails(p) PROVE TypeInv'
    BY <2>4 DEF PageFails
  <2>5. ASSUME NEW v \in Vars, VarFails(v) PROVE TypeInv'
    BY <2>5 DEF VarFails
  <2>6. CASE Kill
    BY <2>6 DEF Kill
  <2> QED BY <1>5, <2>1, <2>2, <2>3, <2>4, <2>5, <2>6 DEF Fault
<1>6. CASE Done \/ UNCHANGED vars
  BY <1>6 DEF Done, vars
<1> QED BY <1>1, <1>2, <1>3, <1>4, <1>5, <1>6 DEF Next

(* Every variable keeps its type, whatever is backed up, restored, killed  *)
(* or fails.                                                               *)
THEOREM BackupTypes == Spec => []TypeOK
<1>1. TypeInv => TypeOK
  BY DEF TypeInv
<1> QED BY <1>1, TypeInit, TypeNext, PTL DEF Spec

-----------------------------------------------------------------------------
(* A restore without an error so far has in the database what it no longer *)
(* has to do.                                                              *)

UsersRestored ==
  \A n \in DOMAIN file.users \ todoUsers :
    /\ n \in db.userIndex
    /\ db.users[n] = file.users[n] \/ (pc = "putuser" /\ n = name)
    /\ \A k \in file.marks[n] :
         k \in db.marks[n] \/ (pc \in {"putuser", "marks"} /\ n = name /\ k \in todoMarks)

ItemsRestored ==
  \A i \in DOMAIN file.items \ todoItems :
    /\ i \in db.itemIndex
    /\ i \notin db.unseen \/ (pc = "seeitem" /\ i = item)
    /\ db.items[i] = file.items[i] \/ (pc \in {"seeitem", "putitem"} /\ i = item)
    /\ Text(db.contents[i]) = file.contents[i] \/ (AtItem /\ i = item)

PagesRestored ==
  \A p \in DOMAIN file.pages \ todoPages : db.pages[p] = file.pages[p]

VarsRestored ==
  \A v \in DOMAIN file.vars \ todoVars :
    /\ v \in db.varIndex
    /\ db.vars[v] = file.vars[v] \/ (pc = "putvar" /\ v = var)

(* What was to be done before is done.                                     *)
InOrder ==
  /\ pc \in {"items", "pages", "vars", "putvar"} \/ AtItem => todoUsers = {}
  /\ pc \in {"pages", "vars", "putvar"} => todoItems = {}
  /\ pc \in {"vars", "putvar"} => todoPages = {}

Progress == UsersRestored /\ ItemsRestored /\ PagesRestored /\ VarsRestored /\ InOrder

RestInv ==
  /\ Restoring /\ ~failed => Progress
  /\ RestoreComplete

LEMMA RestInit == Init => RestInv
BY DEF Init, RestInv, Restoring, AtItem, RestoreComplete

LEMMA RestNext == TypeInv /\ RestInv /\ [Next]_vars => RestInv'
<1> SUFFICES ASSUME TypeInv, RestInv, [Next]_vars
             PROVE  RestInv'
  OBVIOUS
<1> USE DEF RestInv, Restoring, AtItem, TypeInv, TypeOK, HandOK, FileOK, Goto
<1>1. pc' \notin {"restored"} => RestoreComplete'
  BY DEF RestoreComplete
<1>2. CASE RestoreStep
  <2>1. CASE StartRestore
    BY <1>1, <2>1 DEF StartRestore, Progress, UsersRestored, ItemsRestored, PagesRestored,
                      VarsRestored, InOrder
  <2>2. CASE failed /\ ~StartRestore
    BY <1>1, <1>2, <2>2 DEF RestoreStep, IndexUser, PutUser, SetReadStatus, MarksDone, UsersDone,
         IndexItem, SeeItem, SkipItem, PutItem, PutContents, ItemsDone, SavePage, PagesDone, IndexVar, PutVar, RestoreDone,
         RestoreFatal
  <2>3. ASSUME NEW n \in Names, IndexUser(n), ~failed PROVE RestInv'
    <3>1. Progress
      BY <2>3 DEF IndexUser
    <3>2. UsersRestored'
      BY <2>3, <3>1, Fields DEF IndexUser, Progress, UsersRestored
    <3> QED BY <1>1, <2>3, <3>1, <3>2, Fields DEF IndexUser, Progress, ItemsRestored,
              PagesRestored, VarsRestored, InOrder
  <2>4. ASSUME PutUser, ~failed PROVE RestInv'
    <3>1. Progress
      BY <2>4 DEF PutUser
    <3>2. UsersRestored'
      <4>1. /\ db'.users = [db.users EXCEPT ![name] = file.users[name]]
            /\ db'.userIndex = db.userIndex
            /\ db'.marks = db.marks
        BY <2>4, Fields DEF PutUser
      <4>2. name \in Names /\ db.users \in [Names -> Profiles \union {None}]
        BY <2>4, Fields DEF PutUser
      <4>3. \A n \in DOMAIN file.users \ todoUsers : n # name => db.users[n] = file.users[n]
        BY <3>1 DEF Progress, UsersRestored
      <4> QED BY <2>4, <3>1, <4>1, <4>2, <4>3 DEF PutUser, todo, Progress, UsersRestored
    <3> QED BY <1>1, <2>4, <3>1, <3>2, Fields DEF PutUser, todo, Progress, ItemsRestored,
              PagesRestored, VarsRestored, InOrder
  <2>5. ASSUME NEW k \in Keys, SetReadStatus(k), ~failed PROVE RestInv'
    <3>1. Progress
      BY <2>5 DEF SetReadStatus
    <3>2. UsersRestored'
      BY <2>5, <3>1, Fields DEF SetReadStatus, Progress, UsersRestored
    <3> QED BY <1>1, <2>5, <3>1, <3>2, Fields DEF SetReadStatus, Progress, ItemsRestored,
              PagesRestored, VarsRestored, InOrder
  <2>6. ASSUME MarksDone \/ UsersDone, ~failed PROVE RestInv'
    BY <1>1, <2>6 DEF MarksDone, UsersDone, todo, Progress, UsersRestored, ItemsRestored,
         PagesRestored, VarsRestored, InOrder
  <2>7. ASSUME NEW i \in Items, IndexItem(i), ~failed PROVE RestInv'
    <3>1. Progress
      BY <2>7 DEF IndexItem
    <3>2. ItemsRestored'
      BY <2>7, <3>1, Fields DEF IndexItem, Progress, ItemsRestored
    <3> QED BY <1>1, <2>7, <3>1, <3>2, Fields DEF IndexItem, Progress, UsersRestored,
              PagesRestored, VarsRestored, InOrder
  <2>8. ASSUME PutItem, ~failed PROVE RestInv'
    <3>1. Progress
      BY <2>8 DEF PutItem
    <3>2. ItemsRestored'
      BY <2>8, <3>1, Fields DEF PutItem, todo, Progress, ItemsRestored
    <3> QED BY <1>1, <2>8, <3>1, <3>2, Fields DEF PutItem, todo, Progress, UsersRestored,
              PagesRestored, VarsRestored, InOrder
  <2>15. ASSUME SeeItem, ~failed PROVE RestInv'
    <3>1. Progress
      BY <2>15 DEF SeeItem
    <3>2. ItemsRestored'
      BY <2>15, <3>1, Fields DEF SeeItem, todo, Progress, ItemsRestored
    <3> QED BY <1>1, <2>15, <3>1, <3>2, Fields DEF SeeItem, todo, Progress, UsersRestored,
              PagesRestored, VarsRestored, InOrder
  <2>16. ASSUME SkipItem, ~failed PROVE RestInv'
    BY <1>1, <2>16 DEF SkipItem, IsStored, todo, Progress, UsersRestored, ItemsRestored,
         PagesRestored, VarsRestored, InOrder
  <2>17. ASSUME PutContents, ~failed PROVE RestInv'
    <3>1. Progress
      BY <2>17 DEF PutContents
    <3>2. ItemsRestored'
      BY <2>17, <3>1, Fields, BackupAssumption DEF PutContents, Text, todo, Progress, ItemsRestored
    <3> QED BY <1>1, <2>17, <3>1, <3>2, Fields DEF PutContents, todo, Progress, UsersRestored,
              PagesRestored, VarsRestored, InOrder
  <2>9. ASSUME ItemsDone \/ PagesDone, ~failed PROVE RestInv'
    BY <1>1, <2>9 DEF ItemsDone, PagesDone, todo, Progress, UsersRestored, ItemsRestored,
         PagesRestored, VarsRestored, InOrder
  <2>10. ASSUME NEW p \in Pages, SavePage(p), ~failed PROVE RestInv'
    <3>1. Progress
      BY <2>10 DEF SavePage
    <3>2. PagesRestored'
      BY <2>10, <3>1, Fields DEF SavePage, Progress, PagesRestored
    <3> QED BY <1>1, <2>10, <3>1, <3>2, Fields DEF SavePage, Progress, UsersRestored,
              ItemsRestored, VarsRestored, InOrder
  <2>11. ASSUME NEW v \in Vars, IndexVar(v), ~failed PROVE RestInv'
    <3>1. Progress
      BY <2>11 DEF IndexVar
    <3>2. VarsRestored'
      BY <2>11, <3>1, Fields DEF IndexVar, Progress, VarsRestored
    <3> QED BY <1>1, <2>11, <3>1, <3>2, Fields DEF IndexVar, Progress, UsersRestored,
              ItemsRestored, PagesRestored, InOrder
  <2>12. ASSUME PutVar, ~failed PROVE RestInv'
    <3>1. Progress
      BY <2>12 DEF PutVar
    <3>2. VarsRestored'
      BY <2>12, <3>1, Fields DEF PutVar, todo, Progress, VarsRestored
    <3> QED BY <1>1, <2>12, <3>1, <3>2, Fields DEF PutVar, todo, Progress, UsersRestored,
              ItemsRestored, PagesRestored, InOrder
  <2>13. ASSUME RestoreDone PROVE RestInv'
    <3>1. Progress /\ todoUsers = {} /\ todoItems = {} /\ todoPages = {} /\ todoVars = {}
      BY <2>13 DEF RestoreDone, Progress, InOrder
    <3>2. db' = AfterGC(db) /\ db \in Databases /\ file' = file /\ lapsed' = db.stale \intersect Pages
      BY <2>13 DEF RestoreDone, Lapsed
    <3>3. \A n \in DOMAIN file.users :
            /\ n \in db'.userIndex
            /\ db'.users[n] = file.users[n]
            /\ \A k \in file.marks[n] : Exists(k)' => k \in db'.marks[n]
      <4>1. \A n \in DOMAIN file.users :
              /\ n \in db.userIndex
              /\ db.users[n] = file.users[n]
              /\ file.marks[n] \subseteq db.marks[n]
        BY <2>13, <3>1 DEF RestoreDone, Progress, UsersRestored
      <4> QED BY <3>2, <4>1, AfterGCFields DEF Exists
    <3>4. \A i \in DOMAIN file.items : i \in db'.itemIndex /\ IsStored(i)'
      BY <2>13, <3>1, <3>2, AfterGCFields DEF RestoreDone, Progress, ItemsRestored, IsStored
    <3>5. \A p \in DOMAIN file.pages \ lapsed' : db'.pages[p] = file.pages[p]
      BY <2>13, <3>1, <3>2, AfterGCFields DEF RestoreDone, Progress, PagesRestored
    <3>6. \A v \in DOMAIN file.vars : v \in db'.varIndex /\ db'.vars[v] = file.vars[v]
      BY <2>13, <3>1, <3>2, AfterGCFields DEF RestoreDone, Progress, VarsRestored
    <3>7. RestoreComplete'
      BY <3>2, <3>3, <3>4, <3>5, <3>6 DEF RestoreComplete
    <3> QED BY <2>13, <3>7 DEF RestoreDone
  <2>14. CASE RestoreFatal
    BY <1>1, <2>14 DEF RestoreFatal
  <2> QED BY <1>2, <2>1, <2>2, <2>3, <2>4, <2>5, <2>6, <2>7, <2>8, <2>9, <2>10, <2>11,
             <2>12, <2>13, <2>14, <2>15, <2>16, <2>17 DEF RestoreStep
<1>3. CASE Fault
  BY <1>1, <1>3 DEF Fault, UserFails, MarkFails, ItemFails, PageFails, VarFails, WriteFails, Kill
<1>4. CASE Backup \/ BackupFails \/ ChooseTarget
  BY <1>1, <1>4 DEF Backup, BackupFails, ChooseTarget
<1>5. CASE Done \/ UNCHANGED vars
  BY <1>5 DEF Done, vars, todo, Progress, UsersRestored, ItemsRestored, PagesRestored, VarsRestored,
              InOrder, RestoreComplete, IsStored, Exists
<1> QED BY <1>2, <1>3, <1>4, <1>5 DEF Next

(* What Restore reports as restored is in the database and outlives the    *)
(* GC, whatever was there before and however often it was cut short.       *)
THEOREM RestoredIsThere == Spec => []RestoreComplete
<1>1. RestInv => RestoreComplete
  BY DEF RestInv
<1> QED BY <1>1, RestInit, RestNext, TypeInit, TypeNext, PTL DEF Spec

-----------------------------------------------------------------------------
(* A round trip.  The file is what a backup writes; a database that was    *)
(* empty holds nothing but what is in the file, and nothing in it is       *)
(* stale.                                                                  *)

FileShape ==
  /\ file = [users |-> file.users, marks |-> file.marks, items |-> file.items,
              contents |-> file.contents, pages |-> file.pages, vars |-> file.vars]
  /\ file.users = [n \in DOMAIN file.users |-> file.users[n]]
  /\ file.items = [i \in DOMAIN file.items |-> file.items[i]]
  /\ file.contents = [i \in DOMAIN file.items |-> file.contents[i]]
  /\ file.pages = [q \in DOMAIN file.pages |-> file.pages[q]]
  /\ file.vars = [v \in DOMAIN file.vars |-> file.vars[v]]
  /\ \A i \in DOMAIN file.items : \E n \in DOMAIN file.users : i[1] \in FeedsOf[file.users[n]]
  /\ \A q \in DOMAIN file.pages : \E n \in DOMAIN file.users : q \in PagesOf[file.users[n]]
  /\ \A q \in DOMAIN file.pages : Encoded[file.pages[q]] = file.pages[q]

WithinFile ==
  /\ db.userIndex \subseteq DOMAIN file.users
  /\ \A n \in Names : \A k \in db.marks[n] : n \in DOMAIN file.users /\ k \in file.marks[n]
  /\ db.itemIndex \subseteq DOMAIN file.items
  /\ \A i \in Items : db.items[i] # None => i \in DOMAIN file.items
  /\ \A q \in Pages : db.pages[q] # None => q \in DOMAIN file.pages
  /\ db.varIndex \subseteq DOMAIN file.vars
  /\ db.stale = {}

RoundInv ==
  /\ file # None => FileShape
  /\ pc \in {"putuser", "marks"} => todoMarks \subseteq file.marks[name]
  /\ fresh /\ pc \notin {"idle", "nobackup"} => WithinFile
  /\ fresh /\ pc = "restored" =>
       lapsed = {} /\ \A n \in db.userIndex : \A k \in db.marks[n] : Exists(k)

LEMMA BackupShape ==
  ASSUME db \in Databases, BackupPossible(db), file' = BackupOf(db)
  PROVE  FileShape'
<1> DEFINE it == BackedUpItems(db)
           pg == {q \in Owned(db, PagesOf) : db.pages[q] # None}
           vl(v) == Text(db.vars[v])
           us == [n \in db.userIndex |-> db.users[n]]
           ms == [n \in db.userIndex |-> db.marks[n]]
           is == [i \in it |-> db.items[i]]
           cs == [i \in it |-> Text(db.contents[i])]
           ps == [q \in pg |-> Encoded[db.pages[q]]]
           vs == [v \in db.varIndex |-> vl(v)]
<1>1. file' = [users |-> us, marks |-> ms, items |-> is, contents |-> cs, pages |-> ps,
               vars |-> vs]
  BY DEF BackupOf
<1>2. /\ us = [n \in DOMAIN us |-> us[n]] /\ is = [i \in DOMAIN is |-> is[i]]
      /\ cs = [i \in DOMAIN is |-> cs[i]]
      /\ ps = [q \in DOMAIN ps |-> ps[q]] /\ vs = [v \in DOMAIN vs |-> vs[v]]
  <2> HIDE DEF it, pg, vl
  <2> QED OBVIOUS
<1>3. \A i \in DOMAIN is : \E n \in DOMAIN us : i[1] \in FeedsOf[us[n]]
  BY DEF Owned, BackedUpItems
<1>4. \A q \in DOMAIN ps : \E n \in DOMAIN us : q \in PagesOf[us[n]]
  BY DEF Owned
<1>5. \A q \in DOMAIN ps : Encoded[ps[q]] = ps[q]
  <2>1. pg \subseteq Pages
    BY Fields, BackupAssumption DEF Owned, BackupPossible
  <2>2. \A q \in pg : db.pages[q] \in Versions
    BY <2>1, Fields
  <2> QED BY <2>2, BackupAssumption
<1> HIDE DEF us, ms, is, cs, ps, vs
<1> QED BY <1>1, <1>2, <1>3, <1>4, <1>5 DEF FileShape

(* Where nothing is stale, the GC deletes marks and nothing else.          *)
LEMMA FreshGC ==
  ASSUME NEW d \in Databases, d.stale = {}
  PROVE  /\ AfterGC(d).items = d.items
         /\ AfterGC(d).contents = d.contents
         /\ AfterGC(d).pages = d.pages
         /\ AfterGC(d).stale = {}
         /\ \A n \in Names : AfterGC(d).marks[n] \subseteq d.marks[n]
         /\ \A n \in d.userIndex : \A k \in AfterGC(d).marks[n] :
              (k \in Items /\ d.items[k] # None) \/ (k \in Pages /\ d.pages[k] # None)
<1> DEFINE items == [i \in Items |-> IF i \in Expired(d) THEN None ELSE d.items[i]]
           contents == [i \in Items |-> IF i \in Expired(d) THEN None ELSE d.contents[i]]
           pages == [q \in Pages |-> IF q \in d.stale THEN None ELSE d.pages[q]]
           exists(k) == (k \in Items /\ items[k] # None) \/ (k \in Pages /\ pages[k] # None)
           marks == [n \in Names |-> IF n \in d.userIndex THEN {k \in d.marks[n] : exists(k)}
                                                          ELSE d.marks[n]]
<1>1. AfterGC(d) = [d EXCEPT !.items = items, !.contents = contents, !.pages = pages,
                             !.marks = marks, !.stale = {}]
  BY DEF AfterGC
<1>2. items = d.items /\ contents = d.contents
  BY Fields DEF Expired
<1>3. pages = d.pages
  BY Fields
<1>4. \A n \in Names : marks[n] \subseteq d.marks[n]
  <2> HIDE DEF exists
  <2> QED OBVIOUS
<1>5. \A n \in d.userIndex : \A k \in marks[n] : exists(k)
  <2>1. d.userIndex \subseteq Names
    BY Fields
  <2> HIDE DEF exists
  <2> QED BY <2>1
<1>6. \A k : exists(k) => (k \in Items /\ d.items[k] # None) \/ (k \in Pages /\ d.pages[k] # None)
  BY <1>2, <1>3
<1> HIDE DEF items, contents, pages, marks, exists
<1>7. /\ AfterGC(d).items = items /\ AfterGC(d).contents = contents /\ AfterGC(d).pages = pages
      /\ AfterGC(d).marks = marks /\ AfterGC(d).stale = {}
  BY <1>1 DEF Databases
<1> QED BY <1>2, <1>3, <1>4, <1>5, <1>6, <1>7

LEMMA RoundInit == Init => RoundInv
BY DEF Init, RoundInv

LEMMA RoundNext == TypeInv /\ RoundInv /\ [Next]_vars => RoundInv'
<1> SUFFICES ASSUME TypeInv, RoundInv, [Next]_vars
             PROVE  RoundInv'
  OBVIOUS
<1> USE DEF RoundInv, Restoring, AtItem, TypeInv, TypeOK, HandOK, FileOK, Goto
<1>1. UNCHANGED file => (file # None => FileShape)'
  BY DEF FileShape
<1>2. CASE RestoreStep
  <2>1. UNCHANGED file /\ pc' \notin {"idle", "nobackup"} /\ pc \notin {"idle", "nobackup"} /\ UNCHANGED fresh
    BY <1>2 DEF RestoreStep, StartRestore, IndexUser, PutUser, SetReadStatus, MarksDone, UsersDone,
         IndexItem, SeeItem, SkipItem, PutItem, PutContents, ItemsDone, SavePage, PagesDone, IndexVar, PutVar, RestoreDone, RestoreFatal
  <2>2. CASE StartRestore \/ MarksDone \/ UsersDone \/ ItemsDone \/ PagesDone \/ RestoreFatal
    <3>1. UNCHANGED db /\ pc' # "restored" /\ pc' # "putuser"
          /\ (pc' = "marks" => FALSE)
      BY <2>2 DEF StartRestore, MarksDone, UsersDone, ItemsDone, PagesDone, RestoreFatal
    <3> QED BY <1>1, <2>1, <3>1 DEF WithinFile
  <2>3. ASSUME NEW n \in Names, IndexUser(n) PROVE RoundInv'
    BY <1>1, <2>1, <2>3, Fields DEF IndexUser, WithinFile
  <2>4. ASSUME PutUser PROVE RoundInv'
    BY <1>1, <2>1, <2>4, Fields DEF PutUser, todo, WithinFile
  <2>5. ASSUME NEW k \in Keys, SetReadStatus(k) PROVE RoundInv'
    <3>1. fresh => WithinFile'
      BY <2>1, <2>5, Fields DEF SetReadStatus, WithinFile
    <3> QED BY <1>1, <2>1, <2>5, <3>1 DEF SetReadStatus
  <2>6. ASSUME NEW i \in Items, IndexItem(i) PROVE RoundInv'
    BY <1>1, <2>1, <2>6, Fields DEF IndexItem, WithinFile
  <2>7. ASSUME PutItem PROVE RoundInv'
    BY <1>1, <2>1, <2>7, Fields DEF PutItem, todo, WithinFile
  <2>12. ASSUME SeeItem PROVE RoundInv'
    BY <1>1, <2>1, <2>12, Fields DEF SeeItem, todo, WithinFile
  <2>13. ASSUME SkipItem PROVE RoundInv'
    BY <1>1, <2>1, <2>13 DEF SkipItem, todo, WithinFile
  <2>14. ASSUME PutContents PROVE RoundInv'
    BY <1>1, <2>1, <2>14, Fields DEF PutContents, todo, WithinFile
  <2>8. ASSUME NEW q \in Pages, SavePage(q) PROVE RoundInv'
    BY <1>1, <2>1, <2>8, Fields DEF SavePage, WithinFile
  <2>9. ASSUME NEW v \in Vars, IndexVar(v) PROVE RoundInv'
    BY <1>1, <2>1, <2>9, Fields DEF IndexVar, WithinFile
  <2>10. ASSUME PutVar PROVE RoundInv'
    BY <1>1, <2>1, <2>10, Fields DEF PutVar, todo, WithinFile
  <2>11. ASSUME RestoreDone PROVE RoundInv'
    <3>1. db' = AfterGC(db) /\ lapsed' = db.stale \intersect Pages /\ pc' = "restored"
      BY <2>11 DEF RestoreDone, Lapsed
    <3>2. ASSUME fresh PROVE WithinFile' /\ lapsed' = {} /\ \A n \in db'.userIndex : \A k \in db'.marks[n] : Exists(k)'
      <4>1. WithinFile
        BY <2>1, <3>2
      <4> QED BY <2>1, <3>1, <4>1, FreshGC, AfterGCFields DEF WithinFile, Exists
    <3> QED BY <1>1, <2>1, <3>1, <3>2
  <2> QED BY ONLY <1>2, <2>2, <2>3, <2>4, <2>5, <2>6, <2>7, <2>8, <2>9, <2>10, <2>11,
             <2>12, <2>13, <2>14 DEF RestoreStep
<1>3. CASE Fault
  BY <1>1, <1>3 DEF Fault, UserFails, MarkFails, ItemFails, PageFails, VarFails, WriteFails, Kill, todo, WithinFile
<1>4. CASE Backup
  BY <1>4, BackupShape DEF Backup
<1>5. CASE BackupFails
  BY <1>1, <1>5 DEF BackupFails
<1>6. CASE ChooseTarget
  <2>1. fresh' => db' = NewDatabase
    BY <1>6 DEF ChooseTarget
  <2>2. db' = NewDatabase => WithinFile'
    BY DEF NewDatabase, WithinFile
  <2> QED BY <1>1, <1>6, <2>1, <2>2 DEF ChooseTarget
<1>7. CASE Done \/ UNCHANGED vars
  BY <1>1, <1>7 DEF Done, vars, todo, WithinFile, Exists
<1> QED BY <1>2, <1>3, <1>4, <1>5, <1>6, <1>7 DEF Next

(* What is restored into a new database is, backed up again, the same.     *)
LEMMA RoundEnd == TypeInv /\ RoundInv /\ RestoreComplete => RoundTrip
<1> SUFFICES ASSUME TypeInv, RoundInv, RestoreComplete, pc = "restored", fresh
             PROVE  BackupOf(db) = Existing(file)
  BY DEF RoundTrip
<1>1. /\ db \in Databases /\ file # None /\ FileShape /\ WithinFile /\ lapsed = {} /\ FileOK
      /\ \A n \in db.userIndex : \A k \in db.marks[n] : Exists(k)
  BY DEF TypeInv, TypeOK, HandOK, RoundInv
<1> DEFINE it == BackedUpItems(db)
           pg == {q \in Owned(db, PagesOf) : db.pages[q] # None}
           vl(v) == Text(db.vars[v])
           us == [n \in db.userIndex |-> db.users[n]]
           ms == [n \in db.userIndex |-> db.marks[n]]
           is == [i \in it |-> db.items[i]]
           cs == [i \in it |-> Text(db.contents[i])]
           ps == [q \in pg |-> Encoded[db.pages[q]]]
           vs == [v \in db.varIndex |-> vl(v)]
           em == [n \in DOMAIN file.users |->
                    file.marks[n] \intersect (DOMAIN file.items \union DOMAIN file.pages)]
<1>2. BackupOf(db) = [users |-> us, marks |-> ms, items |-> is, contents |-> cs, pages |-> ps,
                      vars |-> vs]
  BY DEF BackupOf
<1>3. Existing(file) = [users |-> file.users, marks |-> em, items |-> file.items,
                        contents |-> file.contents, pages |-> file.pages, vars |-> file.vars]
  <2> DEFINE fu == file.users fm == file.marks fi == file.items fc == file.contents
             fp == file.pages fv == file.vars
  <2>1. file = [users |-> fu, marks |-> fm, items |-> fi, contents |-> fc, pages |-> fp, vars |-> fv]
    BY <1>1 DEF FileShape
  <2>2. Existing(file) = [file EXCEPT !.marks = em]
    BY DEF Existing
  <2> HIDE DEF fu, fm, fi, fc, fp, fv, em
  <2>3. [file EXCEPT !.marks = em] = [users |-> fu, marks |-> em, items |-> fi, contents |-> fc,
                                      pages |-> fp, vars |-> fv]
    BY <2>1
  <2> QED BY <2>2, <2>3 DEF fu, fi, fc, fp, fv
<1>4. db.userIndex = DOMAIN file.users /\ \A n \in DOMAIN file.users : db.users[n] = file.users[n]
  BY <1>1 DEF WithinFile, RestoreComplete
<1>5. us = file.users
  BY <1>1, <1>4 DEF FileShape
<1>6. \A k : Exists(k) <=> k \in DOMAIN file.items \union DOMAIN file.pages
  <2>1. \A k \in DOMAIN file.items : k \in Items /\ db.items[k] # None
    BY <1>1, BackupAssumption DEF RestoreComplete, IsStored, FileOK
  <2>2. \A k \in DOMAIN file.pages : k \in Pages /\ db.pages[k] # None
    BY <1>1, BackupAssumption DEF RestoreComplete, FileOK
  <2> QED BY <1>1, <2>1, <2>2 DEF Exists, WithinFile
<1>7. ms = em
  <2>1. \A n \in DOMAIN file.users : n \in Names
    BY <1>1 DEF FileOK
  <2>2. ASSUME NEW n \in DOMAIN file.users
        PROVE  db.marks[n] = file.marks[n] \intersect (DOMAIN file.items \union DOMAIN file.pages)
    <3>1. \A k \in db.marks[n] : k \in file.marks[n] /\ Exists(k)
      BY <1>1, <1>4, <2>1 DEF WithinFile
    <3>2. \A k \in file.marks[n] : Exists(k) => k \in db.marks[n]
      BY <1>1 DEF RestoreComplete
    <3> QED BY <1>6, <3>1, <3>2
  <2> QED BY <1>4, <2>2
<1>8. \A Of : Owned(db, Of) = UNION {Of[file.users[n]] : n \in DOMAIN file.users}
  BY <1>4 DEF Owned
<1>9. is = file.items /\ cs = file.contents
  <2>1. it = DOMAIN file.items
    <3>1. \A i \in DOMAIN file.items : i \in db.itemIndex /\ db.items[i] # None
      BY <1>1, BackupAssumption DEF RestoreComplete, IsStored, FileOK
    <3>2. \A i \in DOMAIN file.items : i[1] \in Owned(db, FeedsOf)
      BY <1>1, <1>8 DEF FileShape
    <3> QED BY <1>1, <3>1, <3>2 DEF WithinFile, BackedUpItems
  <2> HIDE DEF it
  <2>2. is = file.items
    BY <1>1, <2>1 DEF FileShape, RestoreComplete, IsStored
  <2>3. cs = file.contents
    BY <1>1, <2>1 DEF FileShape, RestoreComplete, IsStored
  <2> QED BY <2>2, <2>3
<1>10. ps = file.pages
  <2>0. \A q \in DOMAIN file.pages : db.pages[q] = file.pages[q]
    BY <1>1 DEF RestoreComplete
  <2>1. pg = DOMAIN file.pages
    <3>1. \A q \in DOMAIN file.pages : db.pages[q] # None
      BY <1>1, <2>0, BackupAssumption DEF FileOK
    <3>2. \A q \in DOMAIN file.pages : q \in Owned(db, PagesOf)
      BY <1>1, <1>8 DEF FileShape
    <3>3. Owned(db, PagesOf) \subseteq Pages
      BY <1>1, <1>8, BackupAssumption DEF FileOK
    <3> QED BY <1>1, <3>1, <3>2, <3>3 DEF WithinFile
  <2> HIDE DEF pg
  <2> QED BY <1>1, <2>0, <2>1 DEF FileShape
<1>11. vs = file.vars
  <2>1. db.varIndex = DOMAIN file.vars /\ \A v \in DOMAIN file.vars : db.vars[v] = file.vars[v] /\ file.vars[v] # None
    <3>1. \A v \in DOMAIN file.vars : v \in db.varIndex /\ db.vars[v] = file.vars[v]
      BY DEF RestoreComplete
    <3>2. \A v \in DOMAIN file.vars : file.vars[v] # None
      BY <1>1, BackupAssumption DEF FileOK
    <3> QED BY <1>1, <3>1, <3>2 DEF WithinFile
  <2>2. \A v \in DOMAIN file.vars : vl(v) = file.vars[v]
    BY <2>1 DEF Text
  <2> HIDE DEF vl
  <2> QED BY <1>1, <2>1, <2>2 DEF FileShape
<1> HIDE DEF us, ms, is, cs, ps, vs, em
<1> QED BY <1>2, <1>3, <1>5, <1>7, <1>9, <1>10, <1>11

(* A backup restored into an empty database and backed up again is the     *)
(* same but for the marks of what is not in it, however often the restore  *)
(* was killed or failed before it went through.                            *)
THEOREM RoundTripCorrect == Spec => []RoundTrip
<1> DEFINE Inv == TypeInv /\ RestInv /\ RoundInv
<1>1. Init => Inv
  BY TypeInit, RestInit, RoundInit
<1>2. Inv /\ [Next]_vars => Inv'
  BY TypeNext, RestNext, RoundNext
<1>3. Inv => RoundTrip
  BY RoundEnd DEF RestInv
<1> QED BY <1>1, <1>2, <1>3, PTL DEF Spec
=============================================================================
