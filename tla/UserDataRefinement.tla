------------------------- MODULE UserDataRefinement -------------------------
(***************************************************************************)
(* UserData implements UserStore: for everyone who takes the lock a user   *)
(* is saved and renamed in one step.                                       *)
(*                                                                         *)
(* The step is the one in which SaveUser starts to write (BeginSave,       *)
(* BeginRename).  From there on the abstract store is the one that the     *)
(* save will leave behind; the other steps of the save stutter.            *)
(***************************************************************************)
EXTENDS UserDataProofs

(* A goroutine that holds the read lock and one that waits or writes are   *)
(* never there together, and only one goroutine is in SaveUser.            *)
LEMMA SavingAlone ==
  ASSUME TypeOK, SaveInv
  PROVE  /\ \A j \in Jobs : pc[j] \in SavePCs => Saving /\ writer = j
         /\ Saving => /\ writer \in Settings
                      /\ name[writer] \in Names /\ newName[writer] \in Names
         /\ \A j \in Jobs : pc[j] \in ReaderPCs => ~Saving
         /\ writer = None => ~Saving
<1> USE NamesAssumption DEF TypeOK, SaveInv, LockInv, LocalInv, Saving, Jobs
<1>1. \A j \in Jobs : pc[j] \in SavePCs => Saving /\ writer = j
  OBVIOUS
<1>2. Saving => writer \in Settings
  OBVIOUS
<1>3. Saving => name[writer] \in Names /\ newName[writer] \in Names
  BY <1>2
<1>4. \A j \in Jobs : pc[j] \in ReaderPCs => ~Saving
  BY <1>2
<1> QED
  BY <1>1, <1>2, <1>3, <1>4

(* A step of a goroutine that is not saving leaves the abstract users and  *)
(* copies alone.                                                           *)
LEMMA BystanderStep ==
  ASSUME TypeOK, SaveInv, NEW j \in Jobs \ Settings,
         users' = users, writer' = writer, NEW next, pc' = [pc EXCEPT ![j] = next],
         \A s \in Settings : /\ name'[s] = name[s] /\ account'[s] = account[s]
                             /\ newName'[s] = newName[s] /\ key'[s] = key[s]
  PROVE  /\ SavedUsers' = SavedUsers /\ Copies' = Copies
         /\ (Saving <=> Saving')
         /\ readIndex' = readIndex => SavedMarks' = SavedMarks
<1>1. \A s \in Settings : pc'[s] = pc[s]
  BY DEF TypeOK, Jobs
<1>2. Saving <=> Saving'
  BY <1>1 DEF TypeOK, Saving
<1>3. Saving => writer \in Settings
  BY SavingAlone
<1>4. SavedUsers' = SavedUsers
  BY <1>2, <1>3 DEF SavedUsers
<1>5. Copies' = Copies
  BY <1>1 DEF Copies
<1>6. readIndex' = readIndex => SavedMarks' = SavedMarks
  <2>1. Saving => InTransit' = InTransit
    BY <1>1, <1>3 DEF InTransit
  <2> QED
    BY <1>2, <1>3, <2>1 DEF SavedMarks
<1> QED
  BY <1>2, <1>4, <1>5, <1>6

(* A return that writes nothing.                                           *)
LEMMA ForgetStep ==
  ASSUME TypeOK, SaveInv, NEW j \in Settings, NEW from, Return(j, from),
         SavedUsers' = SavedUsers, SavedMarks' = SavedMarks
  PROVE  Store!Next \/ UNCHANGED Store!vars
<1> DEFINE c == <<name[j], account[j]>>
<1>1. Copies' = Copies \/ Copies' = Copies \ {c}
  <2>1. \A s \in Settings \ {j} :
          pc'[s] = pc[s] /\ name'[s] = name[s] /\ account'[s] = account[s]
    BY DEF Return, Goto, TypeOK, Jobs
  <2>2. pc'[j] = "idle"
    BY DEF Return, Goto, TypeOK, Jobs
  <2>3. Copies' = {<<name[s], account[s]>> : s \in {i \in Settings \ {j} : pc[i] # "idle"}}
    BY <2>1, <2>2 DEF Copies
  <2>4. Copies \subseteq Copies' \union {c}
    BY <2>3 DEF Copies
  <2>5. Copies' \subseteq Copies
    BY <2>3 DEF Copies
  <2> QED
    BY <2>4, <2>5
<1>2. CASE Copies' = Copies
  BY <1>2 DEF Store!vars
<1>3. CASE Copies' # Copies
  <2>1. c \in Copies /\ Store!Forget(c)
    BY <1>1, <1>3 DEF Store!Forget
  <2> QED
    BY <2>1 DEF Store!Next
<1> QED
  BY <1>2, <1>3

(* A return at which nobody saves.                                         *)
LEMMA IdleReturn ==
  ASSUME TypeOK, SaveInv, NEW j \in Settings, NEW from, Return(j, from),
         from \notin SavePCs, UNCHANGED <<users, readIndex>>,
         writer = None \/ writer = j, writer' = None
  PROVE  Store!Next \/ UNCHANGED Store!vars
<1>1. ~Saving /\ ~Saving'
  BY NamesAssumption DEF Saving, Return, Goto
<1>2. SavedUsers' = SavedUsers /\ SavedMarks' = SavedMarks
  BY <1>1 DEF SavedUsers, SavedMarks
<1> QED
  BY <1>2, ForgetStep

(* Requests, and the goroutines that read or mark: the users stay, and the *)
(* marks of one name change at most.                                       *)
LEMMA MarksStep ==
  ASSUME TypeOK, SaveInv, NEW j \in Jobs, pc[j] \in ReaderPCs, j \notin Settings,
         UNCHANGED <<users, writer>>, NEW next, pc' = [pc EXCEPT ![j] = next],
         \A s \in Settings : /\ name'[s] = name[s] /\ account'[s] = account[s]
                             /\ newName'[s] = newName[s] /\ key'[s] = key[s],
         NEW n \in Names, NEW M \in SUBSET Keys, readIndex' = [readIndex EXCEPT ![n] = M]
  PROVE  Store!Next
<1>1. SavedUsers' = SavedUsers /\ Copies' = Copies /\ (Saving <=> Saving')
  BY BystanderStep
<1>2. ~Saving
  BY SavingAlone
<1>3. SavedMarks' = [SavedMarks EXCEPT ![n] = M]
  BY <1>1, <1>2 DEF SavedMarks
<1>4. Store!ChangeMarks(n, M)
  BY <1>1, <1>3 DEF Store!ChangeMarks
<1> QED
  BY <1>4 DEF Store!Next

LEMMA StartRefines ==
  ASSUME TypeOK, SaveInv, Start
  PROVE  Store!Next \/ UNCHANGED Store!vars
<1>1. ASSUME NEW j \in Settings, NEW n \in Names, NEW m \in Names, PostSettings(j, n, m)
      PROVE  Store!Next
  <2>1. ~Saving /\ ~Saving'
    BY <1>1 DEF PostSettings, LoadUser, CanRLock, lock, Saving
  <2>2. SavedUsers = users /\ SavedUsers' = users /\ SavedMarks' = SavedMarks
    BY <1>1, <2>1 DEF PostSettings, db, SavedUsers, SavedMarks
  <2>3. Copies' = Copies \union {<<n, users[n]>>}
    <3>1. /\ pc[j] = "idle" /\ pc'[j] = "save" /\ name'[j] = n /\ account'[j] = users[n]
          /\ \A s \in Settings \ {j} :
               pc'[s] = pc[s] /\ name'[s] = name[s] /\ account'[s] = account[s]
      BY <1>1 DEF PostSettings, LoadUser, Goto, TypeOK, Jobs
    <3> QED
      BY <3>1 DEF Copies
  <2>4. users[n] # None
    BY <1>1 DEF PostSettings, LoadUser
  <2>5. Store!Load(n)
    BY <2>2, <2>3, <2>4 DEF Store!Load
  <2> QED
    BY <2>5 DEF Store!Next
<1>2. ASSUME NEW j \in Jobs \ Settings, NEW next,
             UNCHANGED <<db, writer, newName>>, pc' = [pc EXCEPT ![j] = next],
             \A s \in Settings : name'[s] = name[s] /\ account'[s] = account[s] /\ key'[s] = key[s]
      PROVE  UNCHANGED Store!vars
  BY <1>2, BystanderStep DEF db, Store!vars
<1>3. ASSUME NEW j \in Viewers, NEW n \in Names, NEW k \in Keys, NEW next \in {"get", "post"},
             RequestItem(j, n, k, next)
      PROVE  UNCHANGED Store!vars
  BY <1>2, <1>3, JobsAssumption DEF RequestItem, LoadUser, Goto, lock, Jobs, TypeOK
<1>4. ASSUME NEW j \in Unmarkers, NEW k \in Keys, UnmarkForAll(j, k)
      PROVE  UNCHANGED Store!vars
  BY <1>2, <1>4, JobsAssumption DEF UnmarkForAll, Goto, Jobs, TypeOK
<1>5. ASSUME NEW j \in Collectors, CollectMarks(j)
      PROVE  UNCHANGED Store!vars
  BY <1>2, <1>5, JobsAssumption DEF CollectMarks, Goto, Jobs, TypeOK
<1> QED
  BY <1>1, <1>3, <1>4, <1>5 DEF Start

(* The steps of the goroutines that do not save.                           *)
LEMMA BystandersRefine ==
  ASSUME TypeOK, SaveInv, NEW j \in Jobs \ Settings,
         ViewItem(j) \/ Unmark(j) \/ Collect(j)
  PROVE  Store!Next \/ UNCHANGED Store!vars
<1>1. ASSUME NEW next, UNCHANGED <<users, readIndex, writer>>, pc' = [pc EXCEPT ![j] = next],
             \A s \in Settings : /\ name'[s] = name[s] /\ account'[s] = account[s]
                                 /\ newName'[s] = newName[s] /\ key'[s] = key[s]
      PROVE  UNCHANGED Store!vars
  BY <1>1, BystanderStep DEF Store!vars
<1>2. ASSUME NEW from, Return(j, from), UNCHANGED <<users, readIndex, writer>>
      PROVE  UNCHANGED Store!vars
  BY <1>1, <1>2 DEF Return, Goto, TypeOK, Jobs
<1>3. CASE ItemFound(j) \/ ItemNotFound(j) \/ MarkRead(j) \/ MarkUnread(j)
  BY <1>1, <1>2, <1>3
     DEF ItemFound, ItemNotFound, MarkRead, MarkUnread, Goto, db, lock, locals
<1>4. CASE PutMark(j)
  <2>1. key[j] \in Keys /\ name[j] \in Names
    BY <1>4 DEF PutMark, Return, Goto, SaveInv, LocalInv, ViewPCs
  <2>2. CASE key[j] \in snap[j]
    BY <1>2, <1>4, <2>2 DEF PutMark
  <2>3. CASE key[j] \notin snap[j]
    <3>1. (snap[j] \union {key[j]}) \in SUBSET Keys
      BY <2>1 DEF TypeOK, Jobs
    <3>2. readIndex' = [readIndex EXCEPT ![name[j]] = (snap[j] \union {key[j]})]
      BY <1>4, <2>3 DEF PutMark
    <3>3. pc[j] \in ReaderPCs /\ pc' = [pc EXCEPT ![j] = "idle"] /\ UNCHANGED <<users, writer>>
      BY <1>4, <2>3 DEF PutMark, Return, Goto, ReaderPCs
    <3>4. \A s \in Settings : /\ name'[s] = name[s] /\ account'[s] = account[s]
                              /\ newName'[s] = newName[s] /\ key'[s] = key[s]
      BY <1>4, <2>3 DEF PutMark, Return, Goto, TypeOK, Jobs
    <3> QED
      BY <2>1, <3>1, <3>2, <3>3, <3>4, MarksStep
  <2> QED
    BY <2>2, <2>3
<1>5. CASE PutUnmark(j)
  <2>1. name[j] \in Names
    BY <1>5 DEF PutUnmark, Return, Goto, SaveInv, LocalInv, ViewPCs
  <2> QED
    <3>1. (snap[j] \ {key[j]}) \in SUBSET Keys
      BY DEF TypeOK, Jobs
    <3>2. readIndex' = [readIndex EXCEPT ![name[j]] = (snap[j] \ {key[j]})]
      BY <1>5 DEF PutUnmark
    <3>3. pc[j] \in ReaderPCs /\ pc' = [pc EXCEPT ![j] = "idle"] /\ UNCHANGED <<users, writer>>
      BY <1>5 DEF PutUnmark, Return, Goto, ReaderPCs
    <3>4. \A s \in Settings : /\ name'[s] = name[s] /\ account'[s] = account[s]
                              /\ newName'[s] = newName[s] /\ key'[s] = key[s]
      BY <1>5 DEF PutUnmark, Return, Goto, TypeOK, Jobs
    <3> QED
      BY <2>1, <3>1, <3>2, <3>3, <3>4, MarksStep
<1>6. CASE ClearMark(j)
  <2>1. name[j] \in Names
    BY <1>6 DEF ClearMark, Goto, SaveInv, LocalInv
  <2> QED
    <3>1. (snap[j] \ {key[j]}) \in SUBSET Keys
      BY DEF TypeOK, Jobs
    <3>2. readIndex' = [readIndex EXCEPT ![name[j]] = (snap[j] \ {key[j]})]
      BY <1>6 DEF ClearMark
    <3>3. pc[j] \in ReaderPCs /\ pc' = [pc EXCEPT ![j] = "users"] /\ UNCHANGED <<users, writer>>
      BY <1>6 DEF ClearMark, Goto, ReaderPCs, lock
    <3>4. \A s \in Settings : /\ name'[s] = name[s] /\ account'[s] = account[s]
                              /\ newName'[s] = newName[s] /\ key'[s] = key[s]
      BY <1>6 DEF ClearMark, Goto, lock, locals, TypeOK
    <3> QED
      BY <2>1, <3>1, <3>2, <3>3, <3>4, MarksStep
<1>7. CASE DropMark(j)
  <2>1. name[j] \in Names
    BY <1>7 DEF DropMark, Goto, SaveInv, LocalInv
  <2> QED
    <3>1. (snap[j] \ {key[j]}) \in SUBSET Keys
      BY DEF TypeOK, Jobs
    <3>2. readIndex' = [readIndex EXCEPT ![name[j]] = (snap[j] \ {key[j]})]
      BY <1>7 DEF DropMark
    <3>3. pc[j] \in ReaderPCs /\ pc' = [pc EXCEPT ![j] = "items"] /\ UNCHANGED <<users, writer>>
      BY <1>7 DEF DropMark, Goto, ReaderPCs, lock
    <3>4. \A s \in Settings : /\ name'[s] = name[s] /\ account'[s] = account[s]
                              /\ newName'[s] = newName[s] /\ key'[s] = key[s]
      BY <1>7 DEF DropMark, Goto, lock, locals, TypeOK
    <3> QED
      BY <2>1, <3>1, <3>2, <3>3, <3>4, MarksStep
<1>8. CASE \E n \in Names : UnmarkNext(j, n) \/ CollectNext(j, n)
  BY <1>1, <1>8 DEF UnmarkNext, CollectNext, Goto, db, lock, TypeOK, Jobs
<1>9. CASE \E k \in Keys : KeepMark(j, k) \/ StaleMark(j, k)
  BY <1>1, <1>9 DEF KeepMark, StaleMark, Goto, db, lock, TypeOK, Jobs
<1>10. CASE ReadStaleIndex(j) \/ ItemsDone(j)
  BY <1>1, <1>10 DEF ReadStaleIndex, ItemsDone, Goto, db, lock, locals
<1>11. CASE UsersDone(j)
  BY <1>2, <1>11 DEF UsersDone, db, lock
<1> QED
  BY <1>3, <1>4, <1>5, <1>6, <1>7, <1>8, <1>9, <1>10, <1>11 DEF ViewItem, Unmark, Collect

(* The steps of a save.                                                    *)
LEMMA SettingsRefine ==
  ASSUME TypeOK, SaveInv, NEW j \in Settings, SettingsStep(j)
  PROVE  Store!Next \/ UNCHANGED Store!vars
<1>1. ASSUME NEW to, Goto(j, pc[j], to), pc[j] # "idle", to # "idle",
             UNCHANGED <<name, account>>
      PROVE  Copies' = Copies
  <2>1. \A s \in Settings : (pc[s] # "idle") <=> (pc'[s] # "idle")
    BY <1>1 DEF Goto, TypeOK, Jobs
  <2> QED
    BY <1>1, <2>1 DEF Copies
<1>2. ASSUME NEW to \in SavePCs, pc[j] \in SavePCs, Goto(j, pc[j], to), writer' = writer
      PROVE  Saving /\ Saving' /\ writer = j
  BY <1>2, SavingAlone, NamesAssumption DEF Saving, Goto, TypeOK, Jobs
<1>3. CASE CallLock(j)
  <2>1. ~Saving /\ ~Saving'
    BY <1>3 DEF CallLock, Goto, Saving, SavePCs, TypeOK, Jobs
  <2>2. Copies' = Copies
    BY <1>1, <1>3 DEF CallLock, Goto, locals
  <2> QED
    BY <1>3, <2>1, <2>2 DEF CallLock, db, SavedUsers, SavedMarks, Store!vars
<1>4. CASE RefuseRename(j)
  <2>1. writer = j /\ Return(j, "lock") /\ writer' = None /\ UNCHANGED <<users, readIndex>>
    BY <1>4 DEF RefuseRename, Return, Goto, SaveInv, LockInv, db, Jobs
  <2> QED
    BY <2>1, IdleReturn DEF SavePCs
<1>5. CASE BeginRename(j) \/ BeginSave(j)
  <2>1. /\ writer = j /\ writer' = j /\ pc[j] = "lock"
        /\ name[j] \in Names /\ newName[j] \in Names /\ account[j] \in Names
        /\ UNCHANGED <<users, readIndex, name, account, newName>>
    BY <1>5 DEF BeginRename, BeginSave, Goto, SaveInv, LockInv, LocalInv, Accounts, Jobs,
                db, lock, locals
  <2>2. ~Saving
    BY <2>1 DEF Saving, SavePCs
  <2>3. Saving' /\ pc'[j] # "moving"
    BY <1>5, <2>1, NamesAssumption DEF BeginRename, BeginSave, Goto, Saving, SavePCs, TypeOK, Jobs
  <2>4. SavedUsers = users /\ SavedMarks = readIndex
    BY <2>2 DEF SavedUsers, SavedMarks
  <2>5. SavedUsers' = [users EXCEPT ![name[j]] = None, ![newName[j]] = account[j]]
    BY <2>1, <2>3 DEF SavedUsers
  <2>6. Copies' = Copies
    BY <1>1, <1>5, <2>1 DEF BeginRename, BeginSave, Goto
  <2>7. <<name[j], account[j]>> \in Copies
    BY <2>1 DEF Copies
  <2>8. CASE BeginRename(j)
    <3>1. name[j] # newName[j] /\ users[newName[j]] = None
      BY <2>8 DEF BeginRename
    <3>2. SavedMarks' = [readIndex EXCEPT ![name[j]] = {}, ![newName[j]] = @ \union readIndex[name[j]]]
      BY <2>1, <2>3, <3>1 DEF SavedMarks, InTransit
    <3>3. Store!Rename(name[j], newName[j], account[j])
      BY <2>4, <2>5, <2>6, <2>7, <3>1, <3>2 DEF Store!Rename
    <3> QED
      BY <2>1, <3>3 DEF Store!Next
  <2>9. CASE BeginSave(j)
    <3>1. name[j] = newName[j]
      BY <2>9 DEF BeginSave
    <3>2. SavedMarks' = SavedMarks
      BY <2>1, <2>4, <3>1 DEF SavedMarks
    <3>3. SavedUsers' = [users EXCEPT ![name[j]] = account[j]]
      BY <2>5, <3>1 DEF TypeOK
    <3>4. Store!Save(name[j], account[j])
      BY <2>4, <2>6, <2>7, <3>2, <3>3 DEF Store!Save
    <3> QED
      BY <2>1, <3>4 DEF Store!Next
  <2> QED
    BY <1>5, <2>8, <2>9
<1>6. ASSUME NEW to \in SavePCs, pc[j] \in SavePCs, Goto(j, pc[j], to),
             UNCHANGED <<writer, name, account, newName>>,
             SavedUsers' = SavedUsers, SavedMarks' = SavedMarks
      PROVE  UNCHANGED Store!vars
  BY <1>1, <1>6 DEF Store!vars, SavePCs
<1>7. CASE UnindexOldName(j) \/ DeleteOldUser(j) \/ IndexName(j)
  <2>1. PICK to \in SavePCs : Goto(j, pc[j], to)
    BY <1>7 DEF UnindexOldName, DeleteOldUser, IndexName, Goto, SavePCs
  <2>2. /\ pc[j] \in SavePCs /\ pc[j] # "moving" /\ to # "moving"
        /\ UNCHANGED <<writer, name, account, newName, key, readIndex>>
        /\ users' = users \/ users' = [users EXCEPT ![name[j]] = None]
    BY <1>7, <2>1 DEF UnindexOldName, DeleteOldUser, IndexName, Goto, SavePCs, lock, locals, TypeOK, Jobs
  <2>3. Saving /\ Saving' /\ writer = j /\ name[j] \in Names /\ newName[j] \in Names
    BY <1>2, <2>1, <2>2, SavingAlone
  <2>4. pc'[j] # "moving"
    BY <2>1, <2>2 DEF Goto, TypeOK, Jobs
  <2>5. SavedUsers' = SavedUsers
    BY <2>2, <2>3 DEF SavedUsers, TypeOK
  <2>6. SavedMarks' = SavedMarks
    BY <2>2, <2>3, <2>4 DEF SavedMarks, InTransit
  <2> QED
    BY <1>6, <2>1, <2>2, <2>5, <2>6
<1>8. CASE ListMarks(j) \/ MarksMoved(j)
  <2>1. PICK to \in SavePCs : Goto(j, pc[j], to)
    BY <1>8 DEF ListMarks, MarksMoved, Goto, SavePCs
  <2>2. /\ pc[j] \in SavePCs /\ pc[j] # "moving" /\ to # "moving"
        /\ UNCHANGED <<writer, name, account, newName, key, readIndex, users>>
    BY <1>8, <2>1 DEF ListMarks, MarksMoved, Goto, SavePCs, db, lock, locals, TypeOK, Jobs
  <2>3. Saving /\ Saving' /\ writer = j
    BY <1>2, <2>1, <2>2
  <2>4. pc'[j] # "moving"
    BY <2>1, <2>2 DEF Goto, TypeOK, Jobs
  <2>5. SavedUsers' = SavedUsers /\ SavedMarks' = SavedMarks
    BY <2>2, <2>3, <2>4 DEF SavedUsers, SavedMarks, InTransit
  <2> QED
    BY <1>6, <2>1, <2>2, <2>5
<1>9. ASSUME NEW k \in Keys, MoveMarkFrom(j, k)
      PROVE  UNCHANGED Store!vars
  <2>1. /\ Goto(j, pc[j], "moving") /\ pc[j] = "move"
        /\ UNCHANGED <<writer, name, account, newName, users>>
        /\ readIndex' = [readIndex EXCEPT ![name[j]] = @ \ {k}]
        /\ key'[j] = k /\ pc'[j] = "moving" /\ k \in readIndex[name[j]]
    BY <1>9 DEF MoveMarkFrom, Goto, lock, TypeOK, SaveInv, MarksInv, Jobs
  <2>2. Saving /\ Saving' /\ writer = j /\ name[j] \in Names /\ newName[j] \in Names
    BY <1>2, <2>1, SavingAlone DEF SavePCs
  <2>3. name[j] # newName[j]
    BY <2>1 DEF SaveInv, LocalInv, SavePCs
  <2>4. SavedMarks' = SavedMarks
    <3> DEFINE old == name[j]
               new == newName[j]
    <3>1. SavedMarks' = [readIndex' EXCEPT ![old] = {},
                                           ![new] = @ \union readIndex'[old] \union {k}]
      BY <2>1, <2>2, <2>3 DEF SavedMarks, InTransit
    <3>2. SavedMarks = [readIndex EXCEPT ![old] = {}, ![new] = @ \union readIndex[old]]
      BY <2>1, <2>2, <2>3 DEF SavedMarks, InTransit
    <3>3. readIndex'[old] \union {k} = readIndex[old] /\ readIndex'[new] = readIndex[new]
      BY <2>1, <2>2, <2>3 DEF TypeOK
    <3> QED
      BY <2>1, <2>2, <2>3, <3>1, <3>2, <3>3 DEF TypeOK
  <2>5. SavedUsers' = SavedUsers
    BY <2>1, <2>2 DEF SavedUsers
  <2> QED
    BY <1>6, <2>1, <2>4, <2>5 DEF SavePCs
<1>10. CASE MoveMarkTo(j)
  <2>1. /\ Goto(j, pc[j], "move") /\ pc[j] = "moving"
        /\ UNCHANGED <<writer, name, account, newName, key, users>>
        /\ readIndex' = [readIndex EXCEPT ![newName[j]] = @ \union {key[j]}]
        /\ pc'[j] = "move"
    BY <1>10 DEF MoveMarkTo, Goto, lock, locals, TypeOK, Jobs
  <2>2. Saving /\ Saving' /\ writer = j /\ name[j] \in Names /\ newName[j] \in Names
    BY <1>2, <2>1, SavingAlone DEF SavePCs
  <2>3. name[j] # newName[j]
    BY <2>1 DEF SaveInv, LocalInv, SavePCs
  <2>4. SavedMarks' = SavedMarks
    BY <2>1, <2>2, <2>3 DEF SavedMarks, InTransit, TypeOK
  <2>5. SavedUsers' = SavedUsers
    BY <2>1, <2>2 DEF SavedUsers
  <2> QED
    BY <1>6, <2>1, <2>4, <2>5 DEF SavePCs
<1>11. CASE PutUser(j)
  <2>1. /\ Goto(j, "put", "reload") /\ writer' = None
        /\ UNCHANGED <<name, account, newName, readIndex>>
        /\ users' = [users EXCEPT ![newName[j]] = account[j]]
    BY <1>11 DEF PutUser, locals
  <2>2. Saving /\ writer = j /\ ~Saving' /\ name[j] \in Names /\ newName[j] \in Names
    BY <2>1, SavingAlone DEF Saving, Goto, SavePCs, Jobs
  <2>3. Copies' = Copies
    BY <1>1, <2>1 DEF Goto
  <2>4. SavedMarks' = SavedMarks
    <3>1. CASE name[j] = newName[j]
      BY <2>1, <2>2, <3>1 DEF SavedMarks
    <3>2. CASE name[j] # newName[j]
      <4>1. readIndex[name[j]] = {} /\ pc[j] = "put"
        BY <2>1, <3>2 DEF Goto, SaveInv, RenameMovesMarks
      <4> QED
        BY <2>1, <2>2, <4>1 DEF SavedMarks, InTransit, TypeOK
    <3> QED
      BY <3>1, <3>2
  <2>5. name[j] # newName[j] => users[name[j]] = None
    BY <2>1 DEF Goto, SaveInv, IndexInv, SavePCs
  <2>6. SavedUsers' = SavedUsers
    BY <2>1, <2>2, <2>5 DEF SavedUsers, TypeOK
  <2> QED
    BY <2>3, <2>4, <2>6 DEF Store!vars
<1>12. CASE ReloadUser(j)
  <2>1. writer = None /\ writer' = None /\ Return(j, "reload") /\ UNCHANGED <<users, readIndex>>
    BY <1>12 DEF ReloadUser, CanRLock, db, lock
  <2> QED
    BY <2>1, IdleReturn DEF SavePCs
<1>13. CASE ReloadGone(j)
  <2>1. ~Saving /\ ~Saving'
    BY <1>13, SavingAlone DEF ReloadGone, CanRLock, lock, Saving
  <2>2. Copies' = Copies
    BY <1>1, <1>13 DEF ReloadGone, Goto, locals
  <2> QED
    BY <1>13, <2>1, <2>2 DEF ReloadGone, db, SavedUsers, SavedMarks, Store!vars
<1>14. CASE RecoverPanic(j)
  <2>1. pc[j] = "panic" /\ Return(j, "panic") /\ UNCHANGED <<users, readIndex, writer>>
    BY <1>14 DEF RecoverPanic, Return, Goto, db, lock
  <2>2. \A s \in Settings \ {j} : /\ pc'[s] = pc[s] /\ name'[s] = name[s] /\ key'[s] = key[s]
                                  /\ account'[s] = account[s] /\ newName'[s] = newName[s]
    BY <2>1 DEF Return, Goto, TypeOK, Jobs
  <2>3. writer # j
    BY <2>1, NamesAssumption DEF SaveInv, LockInv, SavePCs, Jobs
  <2>4. /\ Saving <=> Saving'
        /\ Saving => writer \in Settings \ {j}
    BY <2>1, <2>2, <2>3 DEF Saving, TypeOK
  <2>5. SavedUsers' = SavedUsers
    BY <2>1, <2>2, <2>4 DEF SavedUsers
  <2>6. SavedMarks' = SavedMarks
    <3>1. Saving => InTransit' = InTransit
      BY <2>1, <2>2, <2>4 DEF InTransit
    <3> QED
      BY <2>1, <2>2, <2>4, <3>1 DEF SavedMarks
  <2> QED
    BY <2>1, <2>5, <2>6, ForgetStep
<1> QED
  BY <1>3, <1>4, <1>5, <1>7, <1>8, <1>9, <1>10, <1>11, <1>12, <1>13, <1>14 DEF SettingsStep, SaveUser

LEMMA InitRefines ==
  Init => Store!Init
<1> SUFFICES ASSUME Init PROVE Store!Init
  OBVIOUS
<1>1. ~Saving
  BY DEF Init, Saving
<1>2. SavedUsers = users /\ SavedMarks = readIndex
  BY <1>1 DEF SavedUsers, SavedMarks
<1>3. Copies = {}
  BY DEF Init, Copies, Jobs
<1> QED
  BY <1>2, <1>3 DEF Init, Store!Init

LEMMA NextRefines ==
  TypeOK /\ SaveInv /\ [Next]_vars => [Store!Next]_Store!vars
<1> SUFFICES ASSUME TypeOK, SaveInv, [Next]_vars
             PROVE  Store!Next \/ UNCHANGED Store!vars
  OBVIOUS
<1>1. CASE Start
  BY <1>1, StartRefines
<1>2. ASSUME NEW j \in Settings, SettingsStep(j)
      PROVE  Store!Next \/ UNCHANGED Store!vars
  BY <1>2, SettingsRefine
<1>3. ASSUME NEW j \in Viewers \union Unmarkers \union Collectors,
             ViewItem(j) \/ Unmark(j) \/ Collect(j)
      PROVE  Store!Next \/ UNCHANGED Store!vars
  <2>1. j \in Jobs \ Settings
    BY JobsAssumption DEF Jobs
  <2> QED
    BY <1>3, <2>1, BystandersRefine
<1>4. ASSUME UNCHANGED <<users, readIndex, writer, pc, name, account, newName, key>>
      PROVE  UNCHANGED Store!vars
  <2>1. UNCHANGED <<Saving, Copies>>
    BY <1>4 DEF Saving, Copies
  <2>2. UNCHANGED <<SavedUsers, SavedMarks>>
    BY <1>4, <2>1 DEF SavedUsers, SavedMarks, InTransit
  <2> QED
    BY <2>1, <2>2 DEF Store!vars
<1>5. CASE \E k \in Keys : StoreItem(k) \/ ExpireItem(k)
  BY <1>4, <1>5 DEF StoreItem, ExpireItem, lock, locals
<1>6. CASE UNCHANGED vars
  BY <1>4, <1>6 DEF vars
<1> QED
  BY <1>1, <1>2, <1>3, <1>5, <1>6 DEF Next

(* Everyone who takes the lock sees users saved and renamed in one step.   *)
THEOREM AtomicSaves == Spec => SavesAreAtomic
<1>1. Spec => [](TypeOK /\ SaveInv)
  BY TypeCorrect, SaveInvariant, PTL
<1> QED
  BY <1>1, InitRefines, NextRefines, PTL DEF Spec, SavesAreAtomic, Store!Spec
=============================================================================
