--------------------------- MODULE UserDataProofs ---------------------------
(***************************************************************************)
(* What UserData guarantees for any number of users, items and goroutines. *)
(***************************************************************************)
EXTENDS UserHistory, FiniteSetTheorems, TLAPS

(* The variables of a goroutine that returns.                              *)
LEMMA ReturnTypes ==
  ASSUME TypeOK, NEW j \in Jobs, NEW from, Return(j, from)
  PROVE  /\ pc' \in [Jobs -> PCs]
         /\ name' \in [Jobs -> Names \union {None}]
         /\ account' \in [Jobs -> Accounts \union {None}]
         /\ newName' \in [Jobs -> Names \union {None}]
         /\ key' \in [Jobs -> Keys \union {None}]
         /\ snap' \in [Jobs -> SUBSET Keys]
         /\ names' \in [Jobs -> SUBSET Names]
         /\ keys' \in [Jobs -> SUBSET Keys]
  BY DEF TypeOK, Return, Goto, PCs

LEMMA StartTypes ==
  ASSUME TypeOK, Start
  PROVE  TypeOK'
<1>1. ASSUME NEW j \in Settings, NEW n \in Names, NEW m \in Names, PostSettings(j, n, m)
      PROVE  TypeOK'
  BY <1>1 DEF TypeOK, PCs, SavePCs, ViewPCs, PostSettings, LoadUser, Goto, db, lock, Jobs
<1>2. ASSUME NEW j \in Viewers, NEW n \in Names, NEW k \in Keys, NEW next \in {"get", "post"},
             RequestItem(j, n, k, next)
      PROVE  TypeOK'
  BY <1>2 DEF TypeOK, PCs, SavePCs, ViewPCs, RequestItem, LoadUser, Goto, db, lock, Jobs
<1>3. ASSUME NEW j \in Unmarkers, NEW k \in Keys, UnmarkForAll(j, k)
      PROVE  TypeOK'
  BY <1>3 DEF TypeOK, PCs, SavePCs, ViewPCs, UnmarkForAll, Goto, db, Jobs
<1>4. ASSUME NEW j \in Collectors, CollectMarks(j)
      PROVE  TypeOK'
  BY <1>4 DEF TypeOK, PCs, SavePCs, ViewPCs, CollectMarks, Goto, db, Jobs
<1> QED
  BY <1>1, <1>2, <1>3, <1>4 DEF Start

LEMMA SettingsTypes ==
  ASSUME TypeOK, SaveInv, NEW j \in Settings, SettingsStep(j)
  PROVE  TypeOK'
<1>1. ASSUME CallLock(j)
      PROVE  TypeOK'
  BY <1>1 DEF TypeOK, PCs, SavePCs, ViewPCs, CallLock, Goto, db, locals, Jobs
<1>2. ASSUME RefuseRename(j)
      PROVE  TypeOK'
  BY <1>2, ReturnTypes DEF TypeOK, PCs, SavePCs, ViewPCs, RefuseRename, db, Jobs
<1>3. ASSUME BeginRename(j)
      PROVE  TypeOK'
  BY <1>3 DEF TypeOK, PCs, SavePCs, ViewPCs, BeginRename, Goto, db, lock, locals, Jobs
<1>4. ASSUME BeginSave(j)
      PROVE  TypeOK'
  BY <1>4 DEF TypeOK, PCs, SavePCs, ViewPCs, BeginSave, Goto, db, lock, locals, Jobs
<1>5. ASSUME UnindexOldName(j)
      PROVE  TypeOK'
  BY <1>5 DEF TypeOK, PCs, SavePCs, ViewPCs, UnindexOldName, Goto, lock, locals, Jobs
<1>6. ASSUME DeleteOldUser(j)
      PROVE  TypeOK'
  BY <1>6 DEF TypeOK, PCs, SavePCs, ViewPCs, DeleteOldUser, Goto, lock, locals, Jobs
<1>7. ASSUME ListMarks(j)
      PROVE  TypeOK'
  BY <1>7 DEF TypeOK, PCs, SavePCs, ViewPCs, ListMarks, Goto, db, lock, SaveInv, LocalInv, Jobs
<1>8. ASSUME NEW k \in Keys, MoveMarkFrom(j, k)
      PROVE  TypeOK'
  BY <1>8 DEF TypeOK, PCs, SavePCs, ViewPCs, MoveMarkFrom, Goto, lock, Jobs
<1>9. ASSUME MoveMarkTo(j)
      PROVE  TypeOK'
  BY <1>9 DEF TypeOK, PCs, SavePCs, ViewPCs, MoveMarkTo, Goto, lock, locals, SaveInv, LocalInv, Jobs
<1>10. ASSUME MarksMoved(j)
      PROVE  TypeOK'
  BY <1>10 DEF TypeOK, PCs, SavePCs, ViewPCs, MarksMoved, Goto, db, lock, locals, Jobs
<1>11. ASSUME IndexName(j)
      PROVE  TypeOK'
  BY <1>11 DEF TypeOK, PCs, SavePCs, ViewPCs, IndexName, Goto, lock, locals, SaveInv, LocalInv, Jobs
<1>12. ASSUME PutUser(j)
      PROVE  TypeOK'
  BY <1>12 DEF TypeOK, PCs, SavePCs, ViewPCs, PutUser, Goto, locals, Jobs
<1>13. ASSUME ReloadUser(j)
      PROVE  TypeOK'
  BY <1>13, ReturnTypes DEF TypeOK, PCs, SavePCs, ViewPCs, ReloadUser, db, lock, Jobs
<1>14. ASSUME ReloadGone(j)
      PROVE  TypeOK'
  BY <1>14 DEF TypeOK, PCs, SavePCs, ViewPCs, ReloadGone, Goto, db, lock, locals, Jobs
<1>15. ASSUME RecoverPanic(j)
      PROVE  TypeOK'
  BY <1>15, ReturnTypes DEF TypeOK, PCs, SavePCs, ViewPCs, RecoverPanic, db, lock, Jobs
<1> QED
  BY <1>1, <1>2, <1>3, <1>4, <1>5, <1>6, <1>7, <1>8, <1>9, <1>10, <1>11, <1>12, <1>13, <1>14, <1>15 DEF SettingsStep, SaveUser

LEMMA ViewTypes ==
  ASSUME TypeOK, SaveInv, NEW j \in Viewers, ViewItem(j)
  PROVE  TypeOK'
<1>1. ASSUME ItemFound(j)
      PROVE  TypeOK'
  BY <1>1 DEF TypeOK, PCs, SavePCs, ViewPCs, ItemFound, Goto, db, lock, locals, Jobs
<1>2. ASSUME ItemNotFound(j)
      PROVE  TypeOK'
  BY <1>2, ReturnTypes DEF TypeOK, PCs, SavePCs, ViewPCs, ItemNotFound, db, lock, Jobs
<1>3. ASSUME MarkRead(j)
      PROVE  TypeOK'
  BY <1>3 DEF TypeOK, PCs, SavePCs, ViewPCs, MarkRead, Goto, db, ReadIndexOf, SaveInv, LocalInv, Jobs
<1>4. ASSUME PutMark(j)
      PROVE  TypeOK'
  BY <1>4, ReturnTypes DEF TypeOK, PCs, SavePCs, ViewPCs, PutMark, Return, Goto, SaveInv, LocalInv, Jobs
<1>5. ASSUME MarkUnread(j)
      PROVE  TypeOK'
  BY <1>5 DEF TypeOK, PCs, SavePCs, ViewPCs, MarkUnread, Goto, db, ReadIndexOf, SaveInv, LocalInv, Jobs
<1>6. ASSUME PutUnmark(j)
      PROVE  TypeOK'
  BY <1>6, ReturnTypes DEF TypeOK, PCs, SavePCs, ViewPCs, PutUnmark, Jobs
<1> QED
  BY <1>1, <1>2, <1>3, <1>4, <1>5, <1>6 DEF ViewItem

LEMMA UnmarkTypes ==
  ASSUME TypeOK, SaveInv, NEW j \in Unmarkers, Unmark(j)
  PROVE  TypeOK'
<1>1. ASSUME NEW n \in Names, UnmarkNext(j, n)
      PROVE  TypeOK'
  BY <1>1 DEF TypeOK, PCs, SavePCs, ViewPCs, UnmarkNext, Goto, db, lock, ReadIndexOf, Jobs
<1>2. ASSUME ClearMark(j)
      PROVE  TypeOK'
  BY <1>2 DEF TypeOK, PCs, SavePCs, ViewPCs, ClearMark, Goto, lock, locals, Jobs
<1>3. ASSUME UsersDone(j)
      PROVE  TypeOK'
  BY <1>3, ReturnTypes DEF TypeOK, PCs, SavePCs, ViewPCs, UsersDone, db, Jobs
<1> QED
  BY <1>1, <1>2, <1>3 DEF Unmark

LEMMA CollectTypes ==
  ASSUME TypeOK, SaveInv, NEW j \in Collectors, Collect(j)
  PROVE  TypeOK'
<1>1. ASSUME NEW n \in Names, CollectNext(j, n)
      PROVE  TypeOK'
  BY <1>1 DEF TypeOK, PCs, SavePCs, ViewPCs, CollectNext, Goto, db, lock, Jobs
<1>2. ASSUME NEW k \in Keys, KeepMark(j, k)
      PROVE  TypeOK'
  BY <1>2 DEF TypeOK, PCs, SavePCs, ViewPCs, KeepMark, Goto, db, lock, Jobs
<1>3. ASSUME NEW k \in Keys, StaleMark(j, k)
      PROVE  TypeOK'
  BY <1>3 DEF TypeOK, PCs, SavePCs, ViewPCs, StaleMark, Goto, db, lock, Jobs
<1>4. ASSUME ReadStaleIndex(j)
      PROVE  TypeOK'
  BY <1>4 DEF TypeOK, PCs, SavePCs, ViewPCs, ReadStaleIndex, Goto, db, lock, ReadIndexOf, SaveInv, LocalInv, Jobs
<1>5. ASSUME DropMark(j)
      PROVE  TypeOK'
  BY <1>5 DEF TypeOK, PCs, SavePCs, ViewPCs, DropMark, Goto, lock, locals, Jobs
<1>6. ASSUME ItemsDone(j)
      PROVE  TypeOK'
  BY <1>6 DEF TypeOK, PCs, SavePCs, ViewPCs, ItemsDone, Goto, db, lock, locals, Jobs
<1>7. ASSUME UsersDone(j)
      PROVE  TypeOK'
  BY <1>7, ReturnTypes DEF TypeOK, PCs, SavePCs, ViewPCs, UsersDone, db, Jobs
<1> QED
  BY <1>1, <1>2, <1>3, <1>4, <1>5, <1>6, <1>7 DEF Collect

LEMMA StartSaveInv ==
  ASSUME TypeOK, SaveInv, Start
  PROVE  SaveInv'
<1> USE NamesAssumption, JobsAssumption DEF TypeOK, SaveInv, LockInv, LocalInv, IndexInv, MarksInv, RenameMovesMarks, Stored,
       PCs, SavePCs, ViewPCs, ReaderPCs, Jobs, db, lock, locals, Goto
<1>1. ASSUME NEW j \in Settings, NEW n \in Names, NEW m \in Names, PostSettings(j, n, m)
      PROVE  SaveInv'
  BY <1>1 DEF PostSettings, LoadUser, CanRLock
<1>2. ASSUME NEW j \in Viewers, NEW n \in Names, NEW k \in Keys, NEW next \in {"get", "post"}, RequestItem(j, n, k, next)
      PROVE  SaveInv'
  BY <1>2 DEF RequestItem, LoadUser, CanRLock
<1>3. ASSUME NEW j \in Unmarkers, NEW k \in Keys, UnmarkForAll(j, k)
      PROVE  SaveInv'
  BY <1>3 DEF UnmarkForAll, CanRLock
<1>4. ASSUME NEW j \in Collectors, CollectMarks(j)
      PROVE  SaveInv'
  BY <1>4 DEF CollectMarks, CanRLock
<1> QED
  BY ONLY Start, <1>1, <1>2, <1>3, <1>4 DEF Start

LEMMA SettingsSaveInv ==
  ASSUME TypeOK, SaveInv, NEW j \in Settings, SettingsStep(j)
  PROVE  SaveInv'
<1> USE NamesAssumption, JobsAssumption DEF TypeOK, SaveInv, LockInv, LocalInv, IndexInv, MarksInv, RenameMovesMarks, Stored,
       PCs, SavePCs, ViewPCs, ReaderPCs, Jobs, db, lock, locals, Goto
<1>1. ASSUME CallLock(j)
      PROVE  SaveInv'
  BY <1>1 DEF CallLock, CanRLock
<1>2. ASSUME RefuseRename(j)
      PROVE  SaveInv'
  BY <1>2 DEF RefuseRename, Return
<1>3. ASSUME BeginRename(j)
      PROVE  SaveInv'
  BY <1>3 DEF BeginRename
<1>4. ASSUME BeginSave(j)
      PROVE  SaveInv'
  BY <1>4 DEF BeginSave
<1>5. ASSUME UnindexOldName(j)
      PROVE  SaveInv'
  BY <1>5 DEF UnindexOldName
<1>6. ASSUME DeleteOldUser(j)
      PROVE  SaveInv'
  BY <1>6 DEF DeleteOldUser
<1>7. ASSUME ListMarks(j)
      PROVE  SaveInv'
  BY <1>7 DEF ListMarks
<1>8. ASSUME NEW k \in Keys, MoveMarkFrom(j, k)
      PROVE  SaveInv'
  BY <1>8 DEF MoveMarkFrom
<1>9. ASSUME MoveMarkTo(j)
      PROVE  SaveInv'
  BY <1>9 DEF MoveMarkTo
<1>10. ASSUME MarksMoved(j)
      PROVE  SaveInv'
  BY <1>10 DEF MarksMoved
<1>11. ASSUME IndexName(j)
      PROVE  SaveInv'
  BY <1>11 DEF IndexName
<1>12. ASSUME PutUser(j)
      PROVE  SaveInv'
  <2>1. Stored' = Stored \union {newName[j]}
    <3>1. /\ newName[j] \in Names /\ account[j] # None
          /\ users' = [users EXCEPT ![newName[j]] = account[j]]
      BY <1>12 DEF PutUser, Accounts
    <3> QED
      BY <3>1
  <2>2. LockInv' /\ LocalInv'
    BY <1>12 DEF PutUser
  <2>3. \A i \in Settings : pc'[i] \notin {"delete", "put"}
    BY <1>12 DEF PutUser
  <2>4. IndexInv'
    BY <1>12, <2>1, <2>3 DEF PutUser
  <2>5. MarksInv' /\ RenameMovesMarks'
    BY <1>12 DEF PutUser
  <2> QED
    BY <2>2, <2>4, <2>5
<1>13. ASSUME ReloadUser(j)
      PROVE  SaveInv'
  BY <1>13 DEF ReloadUser, Return, CanRLock
<1>14. ASSUME ReloadGone(j)
      PROVE  SaveInv'
  BY <1>14 DEF ReloadGone, CanRLock
<1>15. ASSUME RecoverPanic(j)
      PROVE  SaveInv'
  BY <1>15 DEF RecoverPanic, Return
<1> QED
  BY <1>1, <1>2, <1>3, <1>4, <1>5, <1>6, <1>7, <1>8, <1>9, <1>10, <1>11, <1>12, <1>13, <1>14, <1>15 DEF SettingsStep, SaveUser

LEMMA ViewSaveInv ==
  ASSUME TypeOK, SaveInv, NEW j \in Viewers, ViewItem(j)
  PROVE  SaveInv'
<1> USE NamesAssumption, JobsAssumption DEF TypeOK, SaveInv, LockInv, LocalInv, IndexInv, MarksInv, RenameMovesMarks, Stored,
       PCs, SavePCs, ViewPCs, ReaderPCs, Jobs, db, lock, locals, Goto
<1>1. ASSUME ItemFound(j)
      PROVE  SaveInv'
  BY <1>1 DEF ItemFound
<1>2. ASSUME ItemNotFound(j)
      PROVE  SaveInv'
  BY <1>2 DEF ItemNotFound, Return
<1>3. ASSUME MarkRead(j)
      PROVE  SaveInv'
  BY <1>3 DEF MarkRead, ReadIndexOf, CanRLock
<1>4. ASSUME PutMark(j)
      PROVE  SaveInv'
  BY <1>4 DEF PutMark, Return
<1>5. ASSUME MarkUnread(j)
      PROVE  SaveInv'
  BY <1>5 DEF MarkUnread, ReadIndexOf, CanRLock
<1>6. ASSUME PutUnmark(j)
      PROVE  SaveInv'
  BY <1>6 DEF PutUnmark, Return
<1> QED
  BY <1>1, <1>2, <1>3, <1>4, <1>5, <1>6 DEF ViewItem

LEMMA UnmarkSaveInv ==
  ASSUME TypeOK, SaveInv, NEW j \in Unmarkers, Unmark(j)
  PROVE  SaveInv'
<1> USE NamesAssumption, JobsAssumption DEF TypeOK, SaveInv, LockInv, LocalInv, IndexInv, MarksInv, RenameMovesMarks, Stored,
       PCs, SavePCs, ViewPCs, ReaderPCs, Jobs, db, lock, locals, Goto
<1>1. ASSUME NEW n \in Names, UnmarkNext(j, n)
      PROVE  SaveInv'
  BY <1>1 DEF UnmarkNext, ReadIndexOf
<1>2. ASSUME ClearMark(j)
      PROVE  SaveInv'
  BY <1>2 DEF ClearMark
<1>3. ASSUME UsersDone(j)
      PROVE  SaveInv'
  BY <1>3 DEF UsersDone, Return
<1> QED
  BY <1>1, <1>2, <1>3 DEF Unmark

LEMMA CollectSaveInv ==
  ASSUME TypeOK, SaveInv, NEW j \in Collectors, Collect(j)
  PROVE  SaveInv'
<1> USE NamesAssumption, JobsAssumption DEF TypeOK, SaveInv, LockInv, LocalInv, IndexInv, MarksInv, RenameMovesMarks, Stored,
       PCs, SavePCs, ViewPCs, ReaderPCs, Jobs, db, lock, locals, Goto
<1>1. ASSUME NEW n \in Names, CollectNext(j, n)
      PROVE  SaveInv'
  BY <1>1 DEF CollectNext
<1>2. ASSUME NEW k \in Keys, KeepMark(j, k)
      PROVE  SaveInv'
  BY <1>2 DEF KeepMark
<1>3. ASSUME NEW k \in Keys, StaleMark(j, k)
      PROVE  SaveInv'
  BY <1>3 DEF StaleMark
<1>4. ASSUME ReadStaleIndex(j)
      PROVE  SaveInv'
  BY <1>4 DEF ReadStaleIndex, ReadIndexOf
<1>5. ASSUME DropMark(j)
      PROVE  SaveInv'
  BY <1>5 DEF DropMark
<1>6. ASSUME ItemsDone(j)
      PROVE  SaveInv'
  BY <1>6 DEF ItemsDone
<1>7. ASSUME UsersDone(j)
      PROVE  SaveInv'
  BY <1>7 DEF UsersDone, Return
<1> QED
  BY <1>1, <1>2, <1>3, <1>4, <1>5, <1>6, <1>7 DEF Collect

-----------------------------------------------------------------------------
(* The inductive invariant.                                                *)

LEMMA InitInv ==
  Init => TypeOK /\ SaveInv
<1> SUFFICES ASSUME Init PROVE TypeOK /\ SaveInv
  OBVIOUS
<1>1. TypeOK
  BY NamesAssumption DEF Init, TypeOK, PCs, Accounts
<1>2. LockInv /\ LocalInv /\ MarksInv /\ RenameMovesMarks
  BY DEF Init, LockInv, LocalInv, MarksInv, RenameMovesMarks, SavePCs, ViewPCs, ReaderPCs, Jobs
<1>3. IndexInv
  BY NamesAssumption DEF Init, IndexInv, Stored, Jobs
<1> QED
  BY <1>1, <1>2, <1>3 DEF SaveInv

(* The items come and go without touching users or marks.                  *)
LEMMA StoreInv ==
  ASSUME TypeOK, SaveInv, NEW k \in Keys, StoreItem(k) \/ ExpireItem(k)
  PROVE  TypeOK' /\ SaveInv'
<1>1. stored' \in SUBSET Keys /\ UNCHANGED <<users, userIndex, readIndex, lock, pc, locals>>
  BY DEF StoreItem, ExpireItem, TypeOK
<1>2. TypeOK'
  BY <1>1 DEF TypeOK, lock, locals
<1>3. SaveInv'
  BY <1>1 DEF SaveInv, LockInv, LocalInv, IndexInv, MarksInv, RenameMovesMarks, Stored, lock, locals
<1> QED
  BY <1>2, <1>3

LEMMA NextInv ==
  TypeOK /\ SaveInv /\ [Next]_vars => TypeOK' /\ SaveInv'
<1> SUFFICES ASSUME TypeOK, SaveInv, [Next]_vars
             PROVE  TypeOK' /\ SaveInv'
  OBVIOUS
<1>1. CASE Start
  BY <1>1, StartTypes, StartSaveInv
<1>2. ASSUME NEW j \in Settings, SettingsStep(j)
      PROVE  TypeOK' /\ SaveInv'
  BY <1>2, SettingsTypes, SettingsSaveInv
<1>3. ASSUME NEW j \in Viewers, ViewItem(j)
      PROVE  TypeOK' /\ SaveInv'
  BY <1>3, ViewTypes, ViewSaveInv
<1>4. ASSUME NEW j \in Unmarkers, Unmark(j)
      PROVE  TypeOK' /\ SaveInv'
  BY <1>4, UnmarkTypes, UnmarkSaveInv
<1>5. ASSUME NEW j \in Collectors, Collect(j)
      PROVE  TypeOK' /\ SaveInv'
  BY <1>5, CollectTypes, CollectSaveInv
<1>7. ASSUME NEW k \in Keys, StoreItem(k) \/ ExpireItem(k)
      PROVE  TypeOK' /\ SaveInv'
  BY <1>7, StoreInv
<1>8. CASE UNCHANGED vars
  <2>1. TypeOK'
    BY <1>8 DEF TypeOK, vars
  <2>2. SaveInv'
    BY <1>8 DEF SaveInv, LockInv, LocalInv, IndexInv, MarksInv, RenameMovesMarks, Stored, vars
  <2> QED
    BY <2>1, <2>2
<1> QED
  BY <1>1, <1>2, <1>3, <1>4, <1>5, <1>7, <1>8 DEF Next

(* Every variable keeps its type, however many goroutines there are.       *)
THEOREM TypeCorrect == Spec => []TypeOK
<1>1. Spec => [](TypeOK /\ SaveInv)
  BY InitInv, NextInv, PTL DEF Spec
<1> QED
  BY <1>1, PTL

(* A save has the lock alone, and index and marks are as far as it is.     *)
THEOREM SaveInvariant == Spec => []SaveInv
<1>1. Spec => [](TypeOK /\ SaveInv)
  BY InitInv, NextInv, PTL DEF Spec
<1> QED
  BY <1>1, PTL

LEMMA IndexFromSaveInv ==
  ASSUME TypeOK, SaveInv
  PROVE  UsersIndexed
<1>1. ASSUME writer = None, NEW j \in Settings PROVE pc[j] \notin {"delete", "put"}
  BY <1>1, NamesAssumption DEF SaveInv, LockInv, SavePCs, Jobs
<1> QED
  BY <1>1 DEF SaveInv, IndexInv, UsersIndexed

(* Who takes the read lock finds exactly the stored users in the index.    *)
THEOREM IndexCorrect == Spec => []UsersIndexed
<1>1. TypeOK /\ SaveInv => UsersIndexed
  BY IndexFromSaveInv
<1> QED
  BY <1>1, TypeCorrect, SaveInvariant, PTL

(* A rename carries all read marks over, whatever runs beside it.          *)
THEOREM RenameCorrect == Spec => []RenameMovesMarks
<1>1. SaveInv => RenameMovesMarks
  BY DEF SaveInv
<1> QED
  BY <1>1, SaveInvariant, PTL

(* Who waits for userLock: for its writer, or as its writer for readers.   *)
Waits(j) ==
  \/ pc[j] \in {"save", "reload", "found", "post"} /\ writer # None
  \/ pc[j] = "lock" /\ readers # {}

HoldersWork ==
  \A j \in Jobs : Waits(j) => \E h \in Jobs : h \in readers \union {writer} /\ ~ Waits(h)

(* Nobody waits for a goroutine that waits itself, or for one that has     *)
(* returned or panicked: whoever waits for userLock waits for a goroutine  *)
(* in the middle of a call under it, which needs no other lock.            *)
THEOREM LockHoldersWork == Spec => []HoldersWork
<1>1. TypeOK /\ SaveInv => HoldersWork
  <2> SUFFICES ASSUME TypeOK, SaveInv, NEW j \in Jobs, Waits(j)
               PROVE  \E h \in Jobs : h \in readers \union {writer} /\ ~ Waits(h)
    BY DEF HoldersWork
  <2>1. CASE readers # {}
    <3>1. PICK h \in readers : TRUE
      BY <2>1
    <3>2. h \in Jobs /\ pc[h] \in ReaderPCs
      BY <3>1 DEF TypeOK, SaveInv, LockInv
    <3>3. ~ Waits(h)
      BY <3>2 DEF Waits, ReaderPCs
    <3> QED
      BY <3>1, <3>2, <3>3
  <2>2. CASE readers = {}
    <3>1. writer # None
      BY <2>2 DEF Waits
    <3>2. writer \in Jobs /\ pc[writer] \in SavePCs \union {"lock"}
      BY <3>1 DEF TypeOK, SaveInv, LockInv, Jobs
    <3>3. ~ Waits(writer)
      BY <2>2, <3>2 DEF Waits, SavePCs
    <3> QED
      BY <3>2, <3>3
  <2> QED
    BY <2>1, <2>2
<1> QED
  BY <1>1, TypeCorrect, SaveInvariant, PTL

-----------------------------------------------------------------------------
(* A step with history is a step of UserData.                              *)
LEMMA HistoryStep == [HNext]_allVars => [Next]_vars
  BY DEF HNext, allVars

LEMMA HistoryInv == HSpec => [](TypeOK /\ SaveInv)
<1>1. HInit => TypeOK /\ SaveInv
  BY InitInv DEF HInit
<1>2. TypeOK /\ SaveInv /\ [HNext]_allVars => (TypeOK /\ SaveInv)'
  BY NextInv, HistoryStep
<1> QED
  BY <1>1, <1>2, PTL DEF HSpec

(* Everyone but the settings requests leaves the records, and the settings *)
(* requests, alone.                                                        *)
LEMMA OthersAccounts ==
  ASSUME NEW j \in Jobs \ Settings, TypeOK,
         \/ \E n \in Names, k \in Keys, next \in {"get", "post"} : RequestItem(j, n, k, next)
         \/ \E k \in Keys : UnmarkForAll(j, k)
         \/ CollectMarks(j)
         \/ ViewItem(j) \/ Unmark(j) \/ Collect(j)
  PROVE  /\ UNCHANGED users
         /\ \A i \in Settings : pc'[i] = pc[i] /\ name'[i] = name[i]
                                /\ newName'[i] = newName[i] /\ account'[i] = account[i]
<1> USE JobsAssumption DEF TypeOK, Jobs, Goto, Return, db, lock, locals
<1>1. CASE \/ \E n \in Names, k \in Keys, next \in {"get", "post"} : RequestItem(j, n, k, next)
           \/ \E k \in Keys : UnmarkForAll(j, k)
           \/ CollectMarks(j)
  BY <1>1 DEF RequestItem, LoadUser, UnmarkForAll, CollectMarks
<1>2. CASE ViewItem(j)
  BY <1>2 DEF ViewItem, ItemFound, ItemNotFound, MarkRead, PutMark, MarkUnread, PutUnmark
<1>3. CASE Unmark(j)
  BY <1>3 DEF Unmark, UnmarkNext, ClearMark, UsersDone
<1>4. CASE Collect(j)
  BY <1>4 DEF Collect, CollectNext, KeepMark, StaleMark, ReadStaleIndex, DropMark, ItemsDone, UsersDone
<1> QED
  BY ONLY <1>1, <1>2, <1>3, <1>4,
          \/ \E n \in Names, k \in Keys, next \in {"get", "post"} : RequestItem(j, n, k, next)
          \/ \E k \in Keys : UnmarkForAll(j, k)
          \/ CollectMarks(j)
          \/ ViewItem(j) \/ Unmark(j) \/ Collect(j)

-----------------------------------------------------------------------------
(* Accounts.  The copy that a request carries may be older than what is    *)
(* stored, and saving it brings an account back under a second name, or    *)
(* puts it in the place of another one: these are the endangered ones.     *)

(* A rename has deleted the record of its account and not yet put it back. *)
Homeless(j) ==
  \/ pc[j] \in {"list", "move", "moving"}
  \/ pc[j] \in {"index", "put"} /\ name[j] # newName[j]

(* Where the account is that a save carries; if the save is of a stale     *)
(* copy, then what it overwrites or deletes is endangered as well.         *)
CarriedInv ==
  \A j \in Settings :
    /\ pc[j] \in SavePCs /\ ~ Homeless(j) =>
         \/ users[name[j]] = account[j]
         \/ account[j] \in endangered /\ users[name[j]] \in endangered \union {None}
    /\ Homeless(j) /\ account[j] \in Registered \ endangered =>
         \A n \in Names : users[n] # account[j]
    /\ Homeless(j) \/ pc[j] \in {"unindex", "delete"} => users[newName[j]] = None

(* No account that is not endangered is stored twice, and one that is not  *)
(* stored is carried.                                                      *)
HomeInv ==
  \A a \in Registered \ endangered :
    /\ \A m, n \in Names : users[m] = a /\ users[n] = a => m = n
    /\ \/ \E n \in Names : users[n] = a
       \/ \E j \in Settings : Homeless(j) /\ account[j] = a

AccountInv == CarriedInv /\ HomeInv

LEMMA InitAccountInv ==
  HInit => AccountInv
  BY NamesAssumption DEF HInit, Init, AccountInv, CarriedInv, HomeInv, Homeless, SavePCs, Jobs

(* Only the step that begins a save endangers an account.                  *)
LEMMA NothingEndangered ==
  ASSUME Endanger, \A j \in Settings : pc[j] = "lock" => pc'[j] \notin {"index", "unindex"}
  PROVE  endangered' = endangered
  BY DEF Endanger, SavesStale

(* Who is not a settings request writes no record.                         *)
LEMMA AccountsElsewhere ==
  ASSUME TypeOK, AccountInv, Endanger, UNCHANGED users,
         \A j \in Settings : pc'[j] = pc[j] /\ name'[j] = name[j]
                             /\ newName'[j] = newName[j] /\ account'[j] = account[j]
  PROVE  AccountInv'
<1>1. endangered' = endangered
  BY NothingEndangered
<1> QED
  BY <1>1 DEF TypeOK, AccountInv, CarriedInv, HomeInv, Homeless

(* The step in which a save begins.                                        *)
LEMMA BeginAccountInv ==
  ASSUME TypeOK, SaveInv, AccountInv, Endanger, NEW j \in Settings, BeginRename(j) \/ BeginSave(j)
  PROVE  AccountInv'
<1> USE NamesAssumption DEF TypeOK, Jobs, db, lock, locals, Goto
<1>1. /\ pc[j] = "lock" /\ UNCHANGED <<users, name, newName, account>>
      /\ \/ pc' = [pc EXCEPT ![j] = "unindex"] /\ users[newName[j]] = None
         \/ pc' = [pc EXCEPT ![j] = "index"] /\ name[j] = newName[j]
  BY DEF BeginRename, BeginSave
<1>2. name[j] \in Names /\ account[j] \in Accounts /\ \A i \in Settings \ {j} : pc[i] \notin SavePCs
  BY <1>1 DEF SaveInv, LockInv, LocalInv, SavePCs
<1>3. pc'[j] \in {"index", "unindex"} /\ \A i \in Settings \ {j} : pc'[i] = pc[i]
  BY <1>1
<1>4. endangered \subseteq endangered'
  BY DEF Endanger
<1>5. \/ users[name[j]] = account[j]
      \/ account[j] \in endangered' /\ users[name[j]] \in endangered' \union {None}
  <2>1. CASE users[name[j]] # account[j]
    <3>1. SavesStale(j)
      BY <1>1, <1>3, <2>1 DEF SavesStale
    <3> QED
      BY <1>2, <3>1 DEF Endanger
  <2> QED
    BY <2>1
<1>6. CarriedInv'
  BY <1>1, <1>2, <1>3, <1>5 DEF CarriedInv, Homeless, SavePCs
<1>7. \A i \in Settings : ~ Homeless(i)
  BY <1>1, <1>2 DEF Homeless, SavePCs
<1>8. HomeInv'
  BY <1>1, <1>4, <1>7 DEF AccountInv, HomeInv
<1> QED
  BY <1>6, <1>8 DEF AccountInv

LEMMA SettingsAccountInv ==
  ASSUME TypeOK, SaveInv, AccountInv, Endanger, NEW j \in Settings, SettingsStep(j)
  PROVE  AccountInv'
<1> USE NamesAssumption, JobsAssumption DEF TypeOK, LocalInv, AccountInv, CarriedInv,
       HomeInv, Homeless, PCs, SavePCs, Accounts, Jobs, db, lock, locals, Goto
<1>1. ASSUME pc[j] # "lock" \/ pc'[j] \notin {"index", "unindex"},
             \A i \in Settings \ {j} : pc'[i] = pc[i]
      PROVE  endangered' = endangered
  BY <1>1, NothingEndangered
<1>2. CASE BeginRename(j) \/ BeginSave(j)
  BY ONLY <1>2, TypeOK, SaveInv, AccountInv, Endanger, j \in Settings, BeginAccountInv
<1>3. CASE CallLock(j) \/ ReloadGone(j)
  BY <1>1, <1>3 DEF CallLock, ReloadGone
<1>4. CASE RefuseRename(j) \/ ReloadUser(j) \/ RecoverPanic(j)
  BY <1>1, <1>4 DEF RefuseRename, ReloadUser, RecoverPanic, Return
<1>5. ASSUME pc[j] \in SavePCs
      PROVE  \A i \in Settings \ {j} : pc[i] \notin SavePCs
  BY <1>5 DEF SaveInv, LockInv
<1>6. CASE UnindexOldName(j)
  BY <1>1, <1>6 DEF UnindexOldName
<1>7. CASE DeleteOldUser(j)
  BY <1>1, <1>5, <1>7 DEF DeleteOldUser, SaveInv
<1>8. CASE ListMarks(j) \/ MoveMarkTo(j)
  BY <1>1, <1>8 DEF ListMarks, MoveMarkTo
<1>9. ASSUME NEW k \in Keys, MoveMarkFrom(j, k)
      PROVE  AccountInv'
  BY <1>1, <1>9 DEF MoveMarkFrom
<1>10. CASE MarksMoved(j)
  BY <1>1, <1>10 DEF MarksMoved, SaveInv
<1>11. CASE IndexName(j)
  BY <1>1, <1>11 DEF IndexName
<1>12. CASE PutUser(j)
  BY <1>1, <1>5, <1>12 DEF PutUser, SaveInv
<1> QED
  BY ONLY SettingsStep(j), <1>2, <1>3, <1>4, <1>6, <1>7, <1>8, <1>9, <1>10, <1>11, <1>12 DEF SettingsStep, SaveUser

LEMMA LoadAccountInv ==
  ASSUME TypeOK, SaveInv, AccountInv, Endanger,
         NEW j \in Settings, NEW n \in Names, NEW m \in Names, PostSettings(j, n, m)
  PROVE  AccountInv'
<1>1. endangered' = endangered
  BY NothingEndangered DEF TypeOK, Jobs, PostSettings, LoadUser, Goto
<1> QED
  BY <1>1, NamesAssumption DEF TypeOK, AccountInv, CarriedInv, HomeInv, Homeless, PCs, SavePCs,
     Jobs, PostSettings, LoadUser, Goto, db

LEMMA NextAccountInv ==
  ASSUME TypeOK, SaveInv, AccountInv, [HNext]_allVars
  PROVE  AccountInv'
<1>1. ASSUME Endanger, NEW j \in Settings, NEW n \in Names, NEW m \in Names, PostSettings(j, n, m)
      PROVE  AccountInv'
  BY <1>1, LoadAccountInv
<1>2. ASSUME Endanger, NEW j \in Settings, SettingsStep(j)
      PROVE  AccountInv'
  BY <1>2, SettingsAccountInv
<1>3. ASSUME Endanger, NEW j \in Viewers \union Unmarkers \union Collectors,
             \/ \E n \in Names, k \in Keys, next \in {"get", "post"} : RequestItem(j, n, k, next)
             \/ \E k \in Keys : UnmarkForAll(j, k)
             \/ CollectMarks(j)
             \/ ViewItem(j) \/ Unmark(j) \/ Collect(j)
      PROVE  AccountInv'
  <2>1. j \in Jobs \ Settings
    BY JobsAssumption DEF Jobs
  <2> QED
    BY <1>3, <2>1, OthersAccounts, AccountsElsewhere
<1>4. ASSUME Endanger, NEW k \in Keys, StoreItem(k) \/ ExpireItem(k)
      PROVE  AccountInv'
  BY <1>4, AccountsElsewhere DEF StoreItem, ExpireItem, locals
<1>5. CASE UNCHANGED allVars
  BY <1>5 DEF allVars, historyVars, vars, AccountInv, CarriedInv, HomeInv, Homeless
<1> QED
  BY <1>1, <1>2, <1>3, <1>4, <1>5 DEF HNext, Next, Start

(* However many settings requests run side by side, no save loses an       *)
(* account or leaves it under two names, but one that a save of a stale    *)
(* copy has hit: whoever gets the read lock finds every other one once.    *)
THEOREM AccountsCorrect == HSpec => []FreshSavesKeepAccounts
<1>1. HInit => AccountInv
  BY InitAccountInv
<1>2. TypeOK /\ SaveInv /\ AccountInv /\ [HNext]_allVars => AccountInv'
  BY NextAccountInv
<1>3. ASSUME TypeOK, SaveInv, AccountInv PROVE FreshSavesKeepAccounts
  <2> SUFFICES ASSUME writer = None, NEW a \in Registered \ endangered
               PROVE  Cardinality({n \in Names : users[n] = a}) = 1
    BY DEF FreshSavesKeepAccounts
  <2>1. \A j \in Settings : ~ Homeless(j)
    BY <1>3, NamesAssumption DEF SaveInv, LockInv, Homeless, SavePCs, Jobs
  <2>2. PICK n \in Names : users[n] = a
    BY <1>3, <2>1 DEF AccountInv, HomeInv
  <2>3. {m \in Names : users[m] = a} = {n}
    BY <1>3, <2>2 DEF AccountInv, HomeInv
  <2> QED
    BY <2>3, FS_Singleton
<1>4. TypeOK /\ SaveInv /\ AccountInv => FreshSavesKeepAccounts
  BY <1>3
<1> QED
  BY <1>1, <1>2, <1>4, HistoryInv, PTL DEF HSpec

-----------------------------------------------------------------------------
(* Marks.  An unmarker that has passed a user left it clean: the item is   *)
(* not marked, and nobody is about to write the mark back.                 *)
Clean(n, k) ==
  /\ k \notin readIndex[n]
  /\ \A i \in Jobs : ~ WritesBack(i, n, k)

PassedInv ==
  \A j \in Unmarkers :
    pc[j] \in {"users", "clear"} =>
      \A n \in Stored \ excused[j] :
        \/ n \in names[j]
        \/ pc[j] = "clear" /\ name[j] = n
        \/ Clean(n, key[j])

(* What goroutine i can do.                                                *)
StepOf(i) ==
  \/ i \in Settings /\ \E n, m \in Names : PostSettings(i, n, m)
  \/ i \in Settings /\ SettingsStep(i)
  \/ i \in Viewers /\ \E n \in Names, k \in Keys, next \in {"get", "post"} : RequestItem(i, n, k, next)
  \/ i \in Viewers /\ ViewItem(i)
  \/ i \in Unmarkers /\ \E k \in Keys : UnmarkForAll(i, k)
  \/ i \in Unmarkers /\ Unmark(i)
  \/ i \in Collectors /\ CollectMarks(i)
  \/ i \in Collectors /\ Collect(i)

(* The variables of one goroutine are its own.                             *)
LEMMA StepFrame ==
  ASSUME TypeOK, NEW i \in Jobs, StepOf(i), NEW x \in Jobs \ {i}
  PROVE  /\ pc'[x] = pc[x] /\ name'[x] = name[x] /\ key'[x] = key[x]
         /\ snap'[x] = snap[x] /\ names'[x] = names[x]
<1> USE DEF TypeOK, Goto, Return, db, lock, locals, ReadIndexOf
<1>1. CASE \/ \E n, m \in Names : PostSettings(i, n, m)
           \/ \E n \in Names, k \in Keys, next \in {"get", "post"} : RequestItem(i, n, k, next)
           \/ \E k \in Keys : UnmarkForAll(i, k)
           \/ CollectMarks(i)
  BY <1>1 DEF PostSettings, RequestItem, LoadUser, UnmarkForAll, CollectMarks
<1>2. CASE SettingsStep(i)
  <2>1. CASE \E k \in Keys : MoveMarkFrom(i, k)
    BY <2>1 DEF MoveMarkFrom
  <2>2. CASE ListMarks(i) \/ MoveMarkTo(i) \/ MarksMoved(i) \/ UnindexOldName(i) \/ DeleteOldUser(i)
    BY <2>2 DEF ListMarks, MoveMarkTo, MarksMoved, UnindexOldName, DeleteOldUser
  <2>3. CASE CallLock(i) \/ BeginRename(i) \/ BeginSave(i) \/ IndexName(i) \/ PutUser(i)
             \/ ReloadGone(i)
    BY <2>3 DEF CallLock, BeginRename, BeginSave, IndexName, PutUser, ReloadGone
  <2>4. CASE RefuseRename(i) \/ ReloadUser(i) \/ RecoverPanic(i)
    BY <2>4 DEF RefuseRename, ReloadUser, RecoverPanic
  <2> QED
    BY ONLY <1>2, <2>1, <2>2, <2>3, <2>4 DEF SettingsStep, SaveUser
<1>3. CASE ViewItem(i)
  BY <1>3 DEF ViewItem, ItemFound, ItemNotFound, MarkRead, PutMark, MarkUnread, PutUnmark
<1>4. CASE Unmark(i)
  BY <1>4 DEF Unmark, UnmarkNext, ClearMark, UsersDone
<1>5. CASE Collect(i)
  BY <1>5 DEF Collect, CollectNext, KeepMark, StaleMark, ReadStaleIndex, DropMark, ItemsDone, UsersDone
<1> QED
  BY ONLY <1>1, <1>2, <1>3, <1>4, <1>5, StepOf(i) DEF StepOf

(* While an unmarker holds the read lock, nobody saves.                    *)
LEMMA NobodySaves ==
  ASSUME TypeOK, SaveInv, NEW i \in Jobs, StepOf(i), NEW j \in Unmarkers, pc[j] \in {"users", "clear"}
  PROVE  UNCHANGED users
<1> USE JobsAssumption DEF TypeOK, Jobs, Goto, Return, db, lock, locals
<1>1. readers # {} /\ \A x \in Settings : pc[x] \notin SavePCs
  BY DEF SaveInv, LockInv, ReaderPCs
<1>2. CASE i \in Settings /\ SettingsStep(i)
  BY <1>1, <1>2 DEF SettingsStep, SaveUser, CallLock, RefuseRename, BeginRename, BeginSave,
    UnindexOldName, DeleteOldUser, ListMarks, MoveMarkFrom, MoveMarkTo, MarksMoved, IndexName, PutUser,
    ReloadUser, ReloadGone, RecoverPanic, SavePCs
<1>3. CASE i \in Settings /\ \E n, m \in Names : PostSettings(i, n, m)
  BY <1>3 DEF PostSettings
<1>4. CASE i \in Jobs \ Settings
  BY <1>4, OthersAccounts DEF StepOf
<1> QED
  BY <1>2, <1>3, <1>4 DEF StepOf

(* The goroutine that moves writes no mark back that it did not read, and  *)
(* marks nothing but its item.                                             *)
LEMMA SettingsClean ==
  ASSUME TypeOK, SaveInv, NEW i \in Settings, SettingsStep(i) \/ \E n, m \in Names : PostSettings(i, n, m),
         NEW j \in Unmarkers, pc[j] \in {"users", "clear"}
  PROVE  UNCHANGED readIndex /\ pc'[i] \notin {"mark", "unmark", "clear", "drop"}
<1> USE JobsAssumption DEF TypeOK, Jobs, Goto, Return, db, lock, locals
<1>1. readers # {} /\ pc[i] \notin SavePCs
  BY DEF SaveInv, LockInv, ReaderPCs
<1>2. CASE SettingsStep(i)
  BY <1>1, <1>2 DEF SettingsStep, SaveUser, CallLock, RefuseRename, BeginRename, BeginSave,
    UnindexOldName, DeleteOldUser, ListMarks, MoveMarkFrom, MoveMarkTo, MarksMoved, IndexName, PutUser,
    ReloadUser, ReloadGone, RecoverPanic, SavePCs
<1>3. CASE \E n, m \in Names : PostSettings(i, n, m)
  BY <1>3 DEF PostSettings, LoadUser
<1> QED
  BY <1>2, <1>3

LEMMA ViewClean ==
  ASSUME TypeOK, NEW i \in Viewers, NEW n \in Names, NEW k, Clean(n, k),
         \/ ViewItem(i)
         \/ \E m \in Names, l \in Keys, next \in {"get", "post"} : RequestItem(i, m, l, next),
         ~ (pc[i] = "mark" /\ pc'[i] = "idle" /\ name[i] = n /\ key[i] = k /\ key[i] \notin snap[i])
  PROVE  k \notin readIndex'[n] /\ ~ WritesBack(i, n, k)'
<1> USE DEF TypeOK, Jobs, Goto, Return, db, lock, locals, Clean, WritesBack, ReadIndexOf
<1>1. CASE ItemFound(i) \/ ItemNotFound(i)
  BY <1>1 DEF ItemFound, ItemNotFound
<1>2. CASE MarkRead(i) \/ MarkUnread(i)
  BY <1>2 DEF MarkRead, MarkUnread
<1>3. CASE PutMark(i)
  <2>1. ~ WritesBack(i, n, k)'
    BY <1>3 DEF PutMark
  <2>2. CASE key[i] \in snap[i] \/ name[i] # n
    BY <1>3, <2>1, <2>2 DEF PutMark
  <2>3. CASE key[i] \notin snap[i] /\ name[i] = n
    BY <1>3, <2>1, <2>3 DEF PutMark
  <2> QED
    BY <2>2, <2>3
<1>4. CASE PutUnmark(i)
  <2>1. ~ WritesBack(i, n, k)'
    BY <1>4 DEF PutUnmark
  <2>2. k \notin readIndex'[n]
    BY <1>4 DEF PutUnmark
  <2> QED
    BY <2>1, <2>2
<1>5. CASE \E m \in Names, l \in Keys, next \in {"get", "post"} : RequestItem(i, m, l, next)
  BY <1>5 DEF RequestItem, LoadUser
<1> QED
  BY ONLY <1>1, <1>2, <1>3, <1>4, <1>5,
    \/ ViewItem(i)
    \/ \E m \in Names, l \in Keys, next \in {"get", "post"} : RequestItem(i, m, l, next) DEF ViewItem

LEMMA UnmarkClean ==
  ASSUME TypeOK, NEW i \in Unmarkers, NEW n \in Names, NEW k, Clean(n, k),
         Unmark(i) \/ \E l \in Keys : UnmarkForAll(i, l)
  PROVE  k \notin readIndex'[n] /\ ~ WritesBack(i, n, k)'
<1> USE DEF TypeOK, Jobs, Goto, Return, db, lock, locals, Clean, WritesBack, ReadIndexOf
<1>1. CASE \E m \in Names : UnmarkNext(i, m)
  BY <1>1 DEF UnmarkNext
<1>2. CASE ClearMark(i)
  BY <1>2 DEF ClearMark
<1>3. CASE UsersDone(i) \/ \E l \in Keys : UnmarkForAll(i, l)
  BY <1>3 DEF UsersDone, UnmarkForAll
<1> QED
  BY <1>1, <1>2, <1>3 DEF Unmark

LEMMA CollectClean ==
  ASSUME TypeOK, NEW i \in Collectors, NEW n \in Names, NEW k, Clean(n, k),
         Collect(i) \/ CollectMarks(i)
  PROVE  k \notin readIndex'[n] /\ ~ WritesBack(i, n, k)'
<1> USE DEF TypeOK, Jobs, Goto, Return, db, lock, locals, Clean, WritesBack, ReadIndexOf
<1>1. CASE CollectMarks(i) \/ UsersDone(i) \/ ItemsDone(i) \/ \E m \in Names : CollectNext(i, m)
  BY <1>1 DEF CollectMarks, UsersDone, ItemsDone, CollectNext
<1>2. CASE ReadStaleIndex(i) \/ \E l \in Keys : KeepMark(i, l) \/ StaleMark(i, l)
  BY <1>2 DEF ReadStaleIndex, KeepMark, StaleMark
<1>3. CASE DropMark(i)
  BY <1>3 DEF DropMark
<1> QED
  BY <1>1, <1>2, <1>3 DEF Collect

(* Together: who is clean stays so, but when the item is marked again.     *)
LEMMA CleanStays ==
  ASSUME TypeOK, SaveInv, NEW i \in Jobs, StepOf(i), NEW j \in Unmarkers, pc[j] \in {"users", "clear"},
         NEW n \in Names, ~ MarkedNow(j, n), NEW k, k = key[j], Clean(n, k)
  PROVE  Clean(n, k)'
<1>1. k \notin readIndex'[n] /\ ~ WritesBack(i, n, k)'
  <2>1. CASE i \in Settings /\ (SettingsStep(i) \/ \E m, p \in Names : PostSettings(i, m, p))
    BY <2>1, SettingsClean DEF Clean, WritesBack
  <2>2. CASE /\ i \in Viewers
             /\ \/ ViewItem(i)
                \/ \E m \in Names, l \in Keys, next \in {"get", "post"} : RequestItem(i, m, l, next)
    BY <2>2, ViewClean DEF MarkedNow
  <2>3. CASE i \in Unmarkers /\ (Unmark(i) \/ \E l \in Keys : UnmarkForAll(i, l))
    BY <2>3, UnmarkClean
  <2>4. CASE i \in Collectors /\ (Collect(i) \/ CollectMarks(i))
    BY <2>4, CollectClean
  <2> QED
    BY ONLY StepOf(i), <2>1, <2>2, <2>3, <2>4 DEF StepOf
<1>2. ASSUME NEW x \in Jobs \ {i} PROVE ~ WritesBack(x, n, k)'
  BY <1>2, StepFrame DEF Clean, WritesBack
<1> QED
  BY <1>1, <1>2 DEF Clean

LEMMA InitPassedInv == HInit => PassedInv
  BY DEF HInit, Init, PassedInv, Jobs

(* The list of users to visit is read under the lock, so it is complete.   *)
LEMMA StepPassedInv ==
  ASSUME TypeOK, SaveInv, PassedInv, Excuse, NEW i \in Jobs, StepOf(i)
  PROVE  PassedInv'
<1> SUFFICES ASSUME NEW j \in Unmarkers, pc'[j] \in {"users", "clear"},
                    NEW n \in Stored' \ excused'[j],
                    n \notin names'[j], ~ (pc'[j] = "clear" /\ name'[j] = n)
             PROVE  Clean(n, key[j])'
  BY DEF PassedInv
<1> USE JobsAssumption DEF Jobs, TypeOK
<1>1. CASE pc[j] \notin {"users", "clear"}
  <2>1. i = j
    BY <1>1, StepFrame
  <2>2. PICK k \in Keys : UnmarkForAll(j, k)
    BY <1>1, <2>1 DEF StepOf, Unmark, UnmarkNext, ClearMark, UsersDone, Return, Goto
  <2>3. Stored' = Stored /\ writer = None /\ names'[j] = userIndex
    BY <2>2 DEF UnmarkForAll, Stored, CanRLock, db
  <2>4. n \in names'[j]
    BY <2>3, IndexFromSaveInv DEF UsersIndexed
  <2> QED
    BY <2>4
<1>2. CASE pc[j] \in {"users", "clear"}
  <2>1. /\ excused'[j] = excused[j] \union {m \in Names : Overlapped(j, m) \/ MarkedNow(j, m)}
        /\ Stored' = Stored
    BY <1>2, NobodySaves DEF Excuse, Stored
  <2>2. n \in Stored \ excused[j] /\ n \in Names /\ ~ Overlapped(j, n) /\ ~ MarkedNow(j, n)
    BY <2>1 DEF Stored
  <2>3. key'[j] = key[j]
    <3>1. CASE i # j
      BY <3>1, StepFrame
    <3>2. CASE i = j
      BY <1>2, <3>2 DEF StepOf, Unmark, UnmarkNext, ClearMark, UsersDone, UnmarkForAll, Return, Goto, locals
    <3> QED
      BY <3>1, <3>2
  <2>4. CASE Clean(n, key[j])
    <3>1. PICK k : k = key[j]
      OBVIOUS
    <3>2. Clean(n, k)'
      BY <1>2, <2>2, <2>4, <3>1, CleanStays
    <3> QED
      BY <2>3, <3>1, <3>2 DEF Clean, WritesBack
  <2>5. CASE ~ Clean(n, key[j])
    <3>1. n \in names[j] \/ (pc[j] = "clear" /\ name[j] = n)
      BY <1>2, <2>2, <2>5 DEF PassedInv
    <3>2. i = j
      BY <3>1, StepFrame
    <3>3. Unmark(j)
      BY <1>2, <3>2 DEF StepOf, UnmarkForAll, Goto
    <3>4. CASE \E m \in Names : UnmarkNext(j, m)
      BY <3>1, <3>4 DEF UnmarkNext, Goto
    <3>5. CASE UsersDone(j)
      BY <3>5 DEF UsersDone, Return, Goto
    <3>6. CASE ClearMark(j)
      <4>1. pc[j] = "clear" /\ pc'[j] = "users" /\ name[j] = n
        BY <3>1, <3>6 DEF ClearMark, Goto, locals
      <4>2. \A x \in Jobs : ~ WritesBack(x, n, key[j])
        BY <2>2, <4>1 DEF Overlapped
      <4>3. ASSUME NEW x \in Jobs PROVE ~ WritesBack(x, n, key[j])'
        <5>1. CASE x = j
          BY <2>3, <4>1, <5>1 DEF WritesBack
        <5>2. CASE x # j
          BY <2>3, <3>2, <4>2, <5>2, StepFrame DEF WritesBack
        <5> QED
          BY <5>1, <5>2
      <4>4. key'[j] \notin readIndex'[n]
        BY <2>2, <2>3, <3>6, <4>1 DEF ClearMark
      <4> QED
        BY <2>3, <4>3, <4>4 DEF Clean
    <3> QED
      BY <3>3, <3>4, <3>5, <3>6 DEF Unmark
  <2> QED
    BY <2>4, <2>5
<1> QED
  BY <1>1, <1>2

LEMMA NextPassedInv ==
  ASSUME TypeOK, SaveInv, PassedInv, [HNext]_allVars
  PROVE  PassedInv'
<1>1. CASE UNCHANGED allVars
  BY <1>1 DEF allVars, historyVars, vars, PassedInv, Stored, Clean, WritesBack
<1>2. ASSUME Excuse, NEW k \in Keys, StoreItem(k) \/ ExpireItem(k)
      PROVE  PassedInv'
  <2>1. UNCHANGED <<users, readIndex, pc, name, key, snap, names>>
    BY <1>2 DEF StoreItem, ExpireItem, locals
  <2>2. ASSUME NEW j \in Unmarkers, pc'[j] \in {"users", "clear"} PROVE excused[j] \subseteq excused'[j]
    BY <1>2, <2>2 DEF Excuse
  <2> QED
    BY <2>1, <2>2 DEF PassedInv, Stored, Clean, WritesBack
<1>3. ASSUME Excuse, NEW i \in Jobs, StepOf(i)
      PROVE  PassedInv'
  BY <1>3, StepPassedInv
<1>4. ASSUME HNext
      PROVE  Excuse /\ ((\E i \in Jobs : StepOf(i)) \/ \E k \in Keys : StoreItem(k) \/ ExpireItem(k))
  BY <1>4 DEF HNext, Next, Start, StepOf, Jobs
<1> QED
  BY <1>1, <1>2, <1>3, <1>4

(* SetReadStatusForAll unmarks the item for every user, renamed before or  *)
(* not, among any number of requests, fetches and collectors: whom it has  *)
(* passed has the mark no longer, but who marked the item again or whose   *)
(* marks another goroutine was about to write back.                        *)
THEOREM UnmarkReaches == HSpec => []UnmarkReachesAll
<1>1. HInit => PassedInv
  BY InitPassedInv
<1>2. TypeOK /\ SaveInv /\ PassedInv /\ [HNext]_allVars => PassedInv'
  BY NextPassedInv
<1>3. PassedInv => UnmarkReachesAll
  BY DEF PassedInv, UnmarkReachesAll, Clean
<1> QED
  BY <1>1, <1>2, <1>3, HistoryInv, PTL DEF HSpec
=============================================================================
