--------------------------- MODULE RestartsProofs ---------------------------
(***************************************************************************)
(* What Restarts keeps true for any number of names, accounts, items,      *)
(* browsers and stops.                                                     *)
(***************************************************************************)
EXTENDS Restarts, FiniteSetTheorems, TLAPS

-----------------------------------------------------------------------------
(* Types and the signing key.                                              *)
Locals ==
  /\ pc \in SavePCs => account \in AllAccounts /\ name \in Names /\ newName \in Names
  /\ pc \in SavePCs \ {"index", "put"} => Renaming
  /\ pc = "moving" => key \in Keys

KeyInv ==
  /\ signKey # 0 => keyListed
  /\ runKey # 0 => signKey = runKey
  /\ pc = "serving" => runKey # 0
  /\ pc \in {"down", "config", "putkey"} => runKey = 0
  /\ pc = "putkey" => keyListed /\ signKey = 0
  /\ \A b \in Browsers : cookie[b] # None => signKey # 0 /\ cookie[b].key = signKey

Typed == TypeOK /\ Locals /\ KeyInv

(* A cookie is a record and no None.                                       *)
LEMMA CookieTypes ==
  ASSUME Typed, NEW b \in Browsers, cookie[b] # None
  PROVE  cookie[b] \in Cookies /\ cookie[b].name \in Names
BY DEF Typed, TypeOK, Cookies

(* At the start nothing is at hand and no cookie is out.                   *)
LEMMA TypeInit == Init => Typed
<1> SUFFICES ASSUME Init
             PROVE  Typed
  OBVIOUS
<1>1. PICK R \in {{}, Registered} : users = [n \in Names |-> IF n \in R THEN n ELSE None]
                                    /\ userIndex = R /\ known = R
  BY DEF Init
<1>2. TypeOK
  <2>1. R \subseteq AllAccounts /\ R \subseteq Names
    BY <1>1, RestartsAssumption DEF AllAccounts
  <2>2. users \in [Names -> AllAccounts \union {None}]
    BY <1>1, <2>1
  <2>3. readIndex \in [Names -> SUBSET Keys] /\ marked \in [AllAccounts -> SUBSET Keys]
        /\ cookie \in [Browsers -> Cookies \union {None}]
    BY DEF Init
  <2>4. stops \in 0..MaxStops /\ signKey \in 0..MaxStops + 1 /\ runKey \in 0..MaxStops + 1
    BY RestartsAssumption DEF Init
  <2> QED
    BY <1>1, <2>1, <2>2, <2>3, <2>4 DEF Init, TypeOK, PCs, SavePCs
<1> QED
  BY <1>2 DEF Init, Typed, Locals, KeyInv, SavePCs

(* Stops, failing writes and the start keep the types.                     *)
LEMMA StartTypes ==
  ASSUME Typed, Stop \/ WriteFails \/ Startup
  PROVE  Typed'
<1> USE RestartsAssumption
        DEF Typed, TypeOK, Locals, KeyInv, PCs, SavePCs, AllAccounts, Goto, EndSave, Renaming,
            db, request, history
<1>0. ASSUME CutShort
      PROVE  /\ stops' \in 0..MaxStops
             /\ torn' \in SUBSET AllAccounts
             /\ UNCHANGED <<db, cookie, known, marked>>
  <2>1. Tearing => pc \in SavePCs
    BY DEF Tearing
  <2>2. stops + 1 \in 0..MaxStops
    BY <1>0 DEF CutShort
  <2> QED
    BY <1>0, <2>1, <2>2 DEF CutShort
<1>1. ASSUME Stop
      PROVE  Typed'
  <2>1. /\ stops' \in 0..MaxStops
        /\ torn' \in SUBSET AllAccounts
        /\ UNCHANGED <<db, cookie, known, marked>>
    BY <1>0, <1>1 DEF Stop
  <2>2. 0 \in 0..MaxStops + 1
    OBVIOUS
  <2>3. TypeOK'
    BY <1>1, <2>1, <2>2 DEF Stop
  <2>4. Locals' /\ KeyInv'
    BY <1>1, <2>1 DEF Stop
  <2> QED
    BY <2>3, <2>4
<1>2. ASSUME WriteFails
      PROVE  Typed'
  <2>1. CutShort
    BY <1>2 DEF WriteFails
  <2>2. pc' \in {"config", "serving"} /\ (pc' = "config" => runKey = 0) /\ (pc' = "serving" => runKey # 0)
    BY <1>2 DEF WriteFails, Resume
  <2>3. TypeOK'
    BY <1>0, <1>2, <2>1, <2>2 DEF WriteFails
  <2>4. Locals' /\ KeyInv'
    BY <1>0, <1>2, <2>1, <2>2 DEF WriteFails
  <2> QED
    BY <2>3, <2>4
<1>3. ASSUME FindUsers \/ CreateDefaultUser
      PROVE  Typed'
  BY <1>3 DEF FindUsers, CreateDefaultUser
<1>4. ASSUME GetSignKey \/ ListSignKey
      PROVE  Typed'
  BY <1>4 DEF GetSignKey, ListSignKey
<1>5. ASSUME PutSignKey
      PROVE  Typed'
  BY <1>5 DEF PutSignKey, NewKey
<1> QED
  BY <1>1, <1>2, <1>3, <1>4, <1>5 DEF Startup

(* So do requests.                                                         *)
LEMMA RequestTypes ==
  ASSUME Typed, NEW b \in Browsers, Request(b)
  PROVE  Typed'
<1> USE DEF Goto, db, request, history
<1>1. ASSUME NEW n \in Names, Login(b, n)
      PROVE  Typed'
  <2>1. runKey \in 1..MaxStops + 1
    BY <1>1, RestartsAssumption DEF Login, Typed, TypeOK, KeyInv
  <2>2. [name |-> n, key |-> runKey] \in Cookies
    BY <2>1 DEF Cookies
  <2> QED
    BY <1>1, <2>1, <2>2 DEF Login, Typed, TypeOK, Locals, KeyInv, SavePCs, PCs
<1>2. ASSUME Logout(b) \/ Expire(b)
      PROVE  Typed'
  BY <1>2 DEF Logout, Expire, Typed, TypeOK, Locals, KeyInv, SavePCs, PCs
<1>3. ASSUME NEW k \in Keys, NEW read \in BOOLEAN, SetReadStatus(b, k, read)
      PROVE  Typed'
  BY <1>3 DEF SetReadStatus, Typed, TypeOK, Locals, KeyInv, SavePCs, PCs
<1>4. ASSUME NEW n \in Names, NEW spaces \in BOOLEAN, SaveSettings(b, n, spaces)
      PROVE  Typed'
  <2>1. cookie[b] # None /\ UserOf(b) = users[cookie[b].name] /\ UserOf(b) # None
    BY <1>4 DEF SaveSettings, UserOf
  <2>2. cookie[b].name \in Names /\ UserOf(b) \in AllAccounts
    BY <2>1, CookieTypes DEF Typed, TypeOK
  <2> QED
    BY <1>4, <2>2 DEF SaveSettings, Typed, TypeOK, Locals, KeyInv, SavePCs, PCs, Renaming
<1> QED
  BY <1>1, <1>2, <1>3, <1>4 DEF Request

(* So do the writes of a save.                                             *)
LEMMA SaveTypes ==
  ASSUME Typed, SaveStep
  PROVE  Typed'
<1> USE DEF Typed, TypeOK, Locals, KeyInv, SavePCs, PCs, Goto, Renaming, db, request, history
<1>1. ASSUME UnindexOldName \/ DeleteOldUser \/ ListMarks
      PROVE  Typed'
  BY <1>1 DEF UnindexOldName, DeleteOldUser, ListMarks
<1>2. ASSUME NEW k \in Keys, MoveMarkFrom(k)
      PROVE  Typed'
  BY <1>2 DEF MoveMarkFrom
<1>3. ASSUME MoveMarkTo \/ MarksMoved
      PROVE  Typed'
  BY <1>3 DEF MoveMarkTo, MarksMoved
<1>4. ASSUME IndexName
      PROVE  Typed'
  BY <1>4 DEF IndexName
<1>5. ASSUME PutUser
      PROVE  Typed'
  <2>1. pc' \in PCs /\ (pc' = "config" => runKey = 0) /\ (pc' = "serving" => runKey # 0)
        /\ pc' \in {"config", "serving"}
    BY <1>5 DEF PutUser, Resume
  <2> QED
    BY <1>5, <2>1 DEF PutUser, EndSave
<1> QED
  BY <1>1, <1>2, <1>3, <1>4, <1>5 DEF SaveStep

(* Every step keeps the types.                                             *)
LEMMA TypeStep == Typed /\ [Next]_vars => Typed'
<1>1. ASSUME Typed, UNCHANGED vars
      PROVE  Typed'
  BY <1>1 DEF vars, Typed, TypeOK, Locals, KeyInv, SavePCs, Renaming
<1> QED
  BY <1>1, StartTypes, RequestTypes, SaveTypes DEF Next

(* Every variable has its type.                                            *)
THEOREM RestartTypes == Spec => []TypeOK
<1>1. Typed => TypeOK
  BY DEF Typed
<1> QED
  BY <1>1, TypeInit, TypeStep, PTL DEF Spec

(* No start replaces the key that cookies out there are signed with.       *)
THEOREM CookiesKept == Spec => []CookiesStayValid
<1>1. Typed => CookiesStayValid
  BY DEF Typed, KeyInv, CookiesStayValid
<1> QED
  BY <1>1, TypeInit, TypeStep, PTL DEF Spec

-----------------------------------------------------------------------------
(* Accounts.  Whoever is not being saved and was not torn has one name,    *)
(* which is listed; and a save touches no other record than its own.       *)

Settled(a) == \E n \in userIndex : \A m \in Names : users[m] = a <=> m = n

Moving == pc \in {"list", "move", "moving"} \/ (pc \in {"index", "put"} /\ Renaming)

(* The save at hand: createDefaultUser finds nobody who could be hurt.     *)
SaveInv ==
  /\ pc \in {"unindex", "delete"} => users[name] = account
  /\ pc \in {"list", "move", "moving"} => users[name] = None
  /\ pc \in SavePCs /\ Renaming => users[newName] = None
  /\ pc \in {"index", "put"} /\ ~Renaming => users[newName] = account \/ known \ torn = {}
  /\ pc = "put" => newName \in userIndex

(* What is left of its account.                                            *)
OwnInv ==
  pc \in SavePCs /\ account \in known \ torn =>
    IF pc = "delete" THEN \A m \in Names : users[m] = account <=> m = name
    ELSE IF Moving THEN \A m \in Names : users[m] # account
    ELSE Settled(account)

AccInv ==
  /\ \A m \in Names : users[m] # None => users[m] \in known
  /\ \A a \in known \ torn : (pc \in SavePCs /\ a = account) \/ Settled(a)
  /\ SaveInv
  /\ OwnInv

LEMMA AccInit == Init => AccInv
<1> SUFFICES ASSUME Init
             PROVE  AccInv
  OBVIOUS
<1>1. PICK R \in {{}, Registered} : users = [n \in Names |-> IF n \in R THEN n ELSE None]
                                    /\ userIndex = R /\ known = R
  BY DEF Init
<1>2. R \subseteq Names /\ None \notin R
  BY RestartsAssumption
<1>3. \A a \in R : \A m \in Names : users[m] = a <=> m = a
  BY <1>1, <1>2
<1>4. \A a \in R : Settled(a)
  BY <1>1, <1>3 DEF Settled
<1>5. \A m \in Names : users[m] # None => users[m] \in known
  BY <1>1
<1> QED
  BY <1>1, <1>4, <1>5 DEF Init, AccInv, SaveInv, OwnInv, SavePCs

(* A step that leaves the accounts alone, and no save at hand.             *)
LEMMA AccUnchanged ==
  ASSUME AccInv, UNCHANGED <<users, userIndex, known>>, torn \subseteq torn',
         pc' \notin SavePCs, pc \in SavePCs => account \notin known \ torn' \/ Settled(account)
  PROVE  AccInv'
<1>1. \A a \in known' \ torn' : Settled(a)
  BY DEF AccInv
<1>2. \A a : Settled(a) => Settled(a)'
  BY DEF Settled
<1> QED
  BY <1>1, <1>2 DEF AccInv, SaveInv, OwnInv, SavePCs

(* Stops and failing writes tear the account that has lost its record.     *)
LEMMA AccCut ==
  ASSUME Typed, AccInv, Stop \/ WriteFails
  PROVE  AccInv'
<1>1. CutShort /\ pc' \notin SavePCs
  BY DEF Stop, WriteFails, Resume, SavePCs
<1>2. UNCHANGED <<users, userIndex, known>> /\ torn \subseteq torn'
  BY <1>1 DEF CutShort, db
<1>3. ASSUME pc \in SavePCs, account \in known \ torn'
      PROVE  Settled(account)
  <2>1. ~Tearing /\ account \notin torn
    BY <1>1, <1>3 DEF CutShort
  <2>2. pc # "delete" /\ ~Moving
    BY <2>1 DEF Tearing, Moving
  <2> QED
    BY <1>3, <2>1, <2>2 DEF AccInv, OwnInv
<1> QED
  BY <1>1, <1>2, <1>3, AccUnchanged

LEMMA AccStartup ==
  ASSUME Typed, AccInv, Startup
  PROVE  AccInv'
<1> USE DEF Goto, db, request, history
<1>1. CASE CreateDefaultUser
  <2>1. known \ torn = {}
    BY <1>1 DEF CreateDefaultUser, AccInv, Settled, SavePCs
  <2> QED
    BY <1>1, <2>1 DEF CreateDefaultUser, AccInv, SaveInv, OwnInv, SavePCs, Renaming
<1>2. CASE FindUsers \/ GetSignKey \/ ListSignKey \/ PutSignKey
  <2>1. pc \notin SavePCs /\ pc' \notin SavePCs /\ UNCHANGED <<users, userIndex, known, torn>>
    BY <1>2 DEF FindUsers, GetSignKey, ListSignKey, PutSignKey, SavePCs
  <2> QED
    BY <2>1, AccUnchanged
<1> QED
  BY <1>1, <1>2 DEF Startup

LEMMA AccRequest ==
  ASSUME Typed, AccInv, NEW b \in Browsers, Request(b)
  PROVE  AccInv'
<1> USE DEF Goto, db, request, history
<1>1. ASSUME NEW n \in Names, NEW spaces \in BOOLEAN, SaveSettings(b, n, spaces)
      PROVE  AccInv'
  <2>1. cookie[b] # None /\ UserOf(b) = users[cookie[b].name] /\ UserOf(b) # None
    BY <1>1 DEF SaveSettings, UserOf
  <2>2. name' \in Names /\ account' = users[name'] /\ account' \in known /\ newName' = n
    BY <1>1, <2>1, CookieTypes DEF SaveSettings, AccInv
  <2>3. /\ UNCHANGED <<users, userIndex, known, torn>>
        /\ pc = "serving"
        /\ pc' = IF n = name' THEN "index" ELSE "unindex"
        /\ n # name' => users[n] = None
    BY <1>1 DEF SaveSettings
  <2>4. \A a \in known' \ torn' : Settled(a)'
    BY <2>3 DEF AccInv, Settled, SavePCs
  <2>5. SaveInv'
    BY <2>2, <2>3 DEF SaveInv, Renaming
  <2>6. OwnInv'
    BY <2>2, <2>3, <2>4 DEF OwnInv, Moving, Renaming
  <2>7. \A m \in Names : users'[m] # None => users'[m] \in known'
    BY <2>3 DEF AccInv
  <2> QED
    BY <2>4, <2>5, <2>6, <2>7 DEF AccInv
<1>2. ASSUME ~\E n \in Names, spaces \in BOOLEAN : SaveSettings(b, n, spaces)
      PROVE  AccInv'
  <2>1. pc \notin SavePCs /\ pc' \notin SavePCs /\ UNCHANGED <<users, userIndex, known, torn>>
    BY <1>2 DEF Request, Login, Logout, Expire, SetReadStatus, SavePCs
  <2> QED
    BY <2>1, AccUnchanged
<1> QED
  BY <1>1, <1>2

LEMMA AccSave ==
  ASSUME Typed, AccInv, SaveStep
  PROVE  AccInv'
<1> USE DEF Goto, db, request, history
<1>1. /\ account \in AllAccounts /\ account # None
      /\ name \in Names /\ newName \in Names
      /\ pc \in SavePCs
  BY RestartsAssumption DEF Typed, Locals, SaveStep, UnindexOldName, DeleteOldUser, ListMarks,
     MoveMarkFrom, MoveMarkTo, MarksMoved, IndexName, PutUser, SavePCs, AllAccounts
<1>2. pc \in SavePCs \ {"index", "put"} => Renaming
  BY DEF Typed, Locals
<1>3. CASE UnindexOldName
  <2>1. /\ pc = "unindex" /\ pc' = "delete"
        /\ userIndex' = userIndex \ {name}
        /\ UNCHANGED <<users, account, name, newName, known, torn>>
    BY <1>3 DEF UnindexOldName
  <2>2. users[name] = account
    BY <2>1 DEF AccInv, SaveInv
  <2>3. \A a \in known \ torn : a = account \/ Settled(a)'
    BY <1>1, <2>1, <2>2 DEF AccInv, Settled
  <2>4. OwnInv'
    BY <1>1, <2>1, <2>2 DEF AccInv, OwnInv, Moving, Settled, SavePCs
  <2>5. SaveInv'
    BY <2>1, <2>2 DEF AccInv, SaveInv, SavePCs, Renaming
  <2> QED
    BY <2>1, <2>3, <2>4, <2>5 DEF AccInv, SavePCs
<1>4. CASE DeleteOldUser
  <2>1. /\ pc = "delete" /\ pc' = "list"
        /\ users' = [users EXCEPT ![name] = None]
        /\ UNCHANGED <<userIndex, account, name, newName, known, torn>>
    BY <1>4 DEF DeleteOldUser
  <2>2. users[name] = account
    BY <2>1 DEF AccInv, SaveInv
  <2>3. \A m \in Names : users'[m] = IF m = name THEN None ELSE users[m]
    BY <1>1, <2>1 DEF Typed, TypeOK
  <2>4. \A a \in known \ torn : a # None
    BY RestartsAssumption DEF Typed, TypeOK, AllAccounts
  <2>5. \A a \in known \ torn : a = account \/ Settled(a)'
    BY <1>1, <2>1, <2>2, <2>3, <2>4 DEF AccInv, Settled
  <2>6. OwnInv'
    BY <1>1, <2>1, <2>2, <2>3 DEF AccInv, OwnInv, Moving, SavePCs
  <2>7. SaveInv'
    BY <1>1, <1>2, <2>1, <2>3 DEF AccInv, SaveInv, SavePCs, Renaming
  <2> QED
    BY <2>1, <2>3, <2>5, <2>6, <2>7 DEF AccInv, SavePCs
<1>5. CASE ListMarks \/ (\E k \in Keys : MoveMarkFrom(k)) \/ MoveMarkTo \/ MarksMoved
  <2>1. /\ pc \in {"list", "move", "moving"} /\ pc' \in {"move", "moving", "index"}
        /\ UNCHANGED <<users, userIndex, account, name, newName, known, torn>>
    BY <1>5 DEF ListMarks, MoveMarkFrom, MoveMarkTo, MarksMoved
  <2>2. Renaming /\ Renaming'
    BY <1>2, <2>1 DEF SavePCs, Renaming
  <2> QED
    BY <2>1, <2>2 DEF AccInv, SaveInv, OwnInv, Moving, SavePCs, Settled
<1>6. CASE IndexName
  <2>1. /\ pc = "index" /\ pc' = "put"
        /\ userIndex' = userIndex \union {newName}
        /\ UNCHANGED <<users, account, name, newName, known, torn>>
    BY <1>6 DEF IndexName
  <2>2. \A a : Settled(a) => Settled(a)'
    BY <2>1 DEF Settled
  <2> QED
    BY <1>1, <2>1, <2>2 DEF AccInv, SaveInv, OwnInv, Moving, SavePCs, Renaming
<1>7. CASE PutUser
  <2>1. /\ pc = "put" /\ pc' \notin SavePCs
        /\ users' = [users EXCEPT ![newName] = account]
        /\ known' = known \union {account}
        /\ UNCHANGED <<userIndex, torn>>
    BY <1>7 DEF PutUser, Resume, SavePCs
  <2>2. \A m \in Names : users'[m] = IF m = newName THEN account ELSE users[m]
    BY <1>1, <2>1 DEF Typed, TypeOK
  <2>3. newName \in userIndex
    BY <2>1 DEF AccInv, SaveInv
  <2>4. ASSUME NEW a \in known \ torn, a # account
        PROVE  Settled(a)'
    <3>1. a # None
      BY RestartsAssumption DEF Typed, TypeOK, AllAccounts
    <3>2. users[newName] # a
      BY <2>1, <2>4, <3>1 DEF AccInv, SaveInv, SavePCs
    <3>3. PICK n \in userIndex : \A m \in Names : users[m] = a <=> m = n
      BY <2>4 DEF AccInv, Settled
    <3> QED
      BY <1>1, <2>1, <2>2, <2>4, <3>2, <3>3 DEF Settled
  <2>5. ASSUME NEW a, a = account, account \notin torn
        PROVE  Settled(a)'
    <3>1. ASSUME NEW m \in Names, users[m] = account
          PROVE  m = newName
      <4>1. account \in known \ torn
        BY <1>1, <2>5, <3>1 DEF AccInv
      <4>2. ~Renaming
        BY <2>1, <3>1, <4>1 DEF AccInv, OwnInv, Moving, SavePCs
      <4>3. users[newName] = account
        BY <2>1, <4>1, <4>2 DEF AccInv, SaveInv
      <4>4. Settled(account)
        BY <2>1, <4>1, <4>2 DEF AccInv, OwnInv, Moving, SavePCs
      <4> QED
        BY <1>1, <3>1, <4>3, <4>4 DEF Settled
    <3> QED
      BY <1>1, <2>1, <2>2, <2>3, <2>5, <3>1 DEF Settled
  <2>6. \A a \in known' \ torn' : Settled(a)'
    BY <2>1, <2>4, <2>5
  <2>7. \A m \in Names : users'[m] # None => users'[m] \in known'
    BY <2>1, <2>2 DEF AccInv
  <2> QED
    BY <2>1, <2>6, <2>7 DEF AccInv, SaveInv, OwnInv, SavePCs
<1> QED
  BY <1>3, <1>4, <1>5, <1>6, <1>7 DEF SaveStep

LEMMA AccStep == Typed /\ AccInv /\ [Next]_vars => AccInv'
<1>1. ASSUME AccInv, UNCHANGED vars
      PROVE  AccInv'
  BY <1>1 DEF vars, AccInv, SaveInv, OwnInv, Moving, Settled, SavePCs, Renaming
<1> QED
  BY <1>1, AccCut, AccStartup, AccRequest, AccSave DEF Next

(* However often the program is cut short, an account that was not being   *)
(* saved then keeps one name, which is listed.                             *)
THEOREM NoAccountIsLost == Spec => []AccountsSurvive
<1>1. AccInv => AccountsSurvive
  BY DEF AccInv, AccountsSurvive, Idle, Settled
<1> QED
  BY <1>1, TypeInit, TypeStep, AccInit, AccStep, PTL DEF Spec

-----------------------------------------------------------------------------
(* Marks.  Those of an account are under its name, or under the two names  *)
(* and in the hands of its rename.                                         *)

OwnMarks ==
  pc \in SavePCs /\ account \in known \ torn =>
    /\ pc = "list" => marked[account] \subseteq readIndex[name]
    /\ pc = "move" => marked[account] \subseteq readIndex[newName] \union keys
    /\ pc = "moving" => marked[account] \subseteq readIndex[newName] \union keys \union {key}
    /\ pc \in {"index", "put"} /\ Renaming => marked[account] \subseteq readIndex[newName]

MarksInv ==
  /\ \A n \in Names : users[n] \in known \ torn => marked[users[n]] \subseteq readIndex[n]
  /\ \A a \in AllAccounts \ known : marked[a] = {}
  /\ pc \in {"move", "moving"} => keys \subseteq readIndex[name]
  /\ OwnMarks

LEMMA MarksInit == Init => MarksInv
<1> SUFFICES ASSUME Init
             PROVE  MarksInv
  OBVIOUS
<1>1. /\ marked = [a \in AllAccounts |-> {}]
      /\ pc = "down"
  BY DEF Init
<1>2. known \subseteq AllAccounts
  BY DEF Init, AllAccounts
<1> QED
  BY <1>1, <1>2 DEF MarksInv, OwnMarks, SavePCs

LEMMA MarksUnchanged ==
  ASSUME MarksInv, UNCHANGED <<users, readIndex, marked, known>>, torn \subseteq torn',
         pc' \notin SavePCs
  PROVE  MarksInv'
BY DEF MarksInv, OwnMarks, SavePCs

LEMMA MarksCut ==
  ASSUME MarksInv, Stop \/ WriteFails
  PROVE  MarksInv'
<1>1. CutShort /\ pc' \notin SavePCs
  BY DEF Stop, WriteFails, Resume, SavePCs
<1>2. UNCHANGED <<users, readIndex, marked, known>> /\ torn \subseteq torn'
  BY <1>1 DEF CutShort, db
<1> QED
  BY <1>1, <1>2, MarksUnchanged

LEMMA MarksStartup ==
  ASSUME AccInv, MarksInv, Startup
  PROVE  MarksInv'
<1> USE DEF Goto, db, request, history
<1>1. CASE CreateDefaultUser
  BY <1>1 DEF CreateDefaultUser, MarksInv, OwnMarks, SavePCs, Renaming
<1>2. CASE FindUsers \/ GetSignKey \/ ListSignKey \/ PutSignKey
  <2>1. pc' \notin SavePCs /\ UNCHANGED <<users, readIndex, marked, known, torn>>
    BY <1>2 DEF FindUsers, GetSignKey, ListSignKey, PutSignKey, SavePCs
  <2> QED
    BY <2>1, MarksUnchanged
<1> QED
  BY <1>1, <1>2 DEF Startup

LEMMA MarksRequest ==
  ASSUME Typed, AccInv, MarksInv, NEW b \in Browsers, Request(b)
  PROVE  MarksInv'
<1> USE DEF Goto, db, request, history
<1>1. ASSUME NEW n \in Names, NEW spaces \in BOOLEAN, SaveSettings(b, n, spaces)
      PROVE  MarksInv'
  <2>1. /\ UNCHANGED <<users, readIndex, marked, known, torn>>
        /\ pc' = "unindex" \/ (pc' = "index" /\ ~Renaming')
    BY <1>1 DEF SaveSettings, Renaming
  <2> QED
    BY <2>1 DEF MarksInv, OwnMarks
<1>2. ASSUME NEW k \in Keys, NEW read \in BOOLEAN, SetReadStatus(b, k, read)
      PROVE  MarksInv'
  <2> DEFINE set(S) == IF read THEN S \union {k} ELSE S \ {k}
             n == cookie[b].name
             a == users[n]
  <2>1. cookie[b] # None /\ UserOf(b) = a /\ a # None
    BY <1>2 DEF SetReadStatus, UserOf
  <2>2. n \in Names /\ a \in known /\ a \in AllAccounts
    BY <2>1, CookieTypes DEF AccInv, Typed, TypeOK
  <2>3. /\ pc = "serving" /\ pc' = "serving"
        /\ readIndex' = [readIndex EXCEPT ![n] = set(@)]
        /\ marked' = [marked EXCEPT ![a] = set(@)]
        /\ UNCHANGED <<users, known, torn>>
    BY <1>2, <2>1 DEF SetReadStatus
  <2> HIDE DEF n, a
  <2>4. \A m \in Names : readIndex'[m] = IF m = n THEN set(readIndex[m]) ELSE readIndex[m]
    BY <2>2, <2>3 DEF Typed, TypeOK
  <2>5. \A c \in AllAccounts : marked'[c] = IF c = a THEN set(marked[c]) ELSE marked[c]
    BY <2>2, <2>3 DEF Typed, TypeOK
  <2>6. ASSUME NEW m \in Names, users[m] \in known \ torn
        PROVE  marked'[users[m]] \subseteq readIndex'[m]
    <3>1. users[m] \in AllAccounts /\ marked[users[m]] \subseteq readIndex[m]
      BY <2>6 DEF Typed, TypeOK, MarksInv
    <3>2. users[m] = a => m = n
      BY <2>2, <2>3, <2>6 DEF AccInv, Settled, SavePCs, a
    <3>3. m = n => users[m] = a
      BY DEF a
    <3> QED
      BY <2>4, <2>5, <3>1, <3>2, <3>3
  <2> QED
    BY <2>2, <2>3, <2>5, <2>6 DEF MarksInv, OwnMarks, SavePCs
<1>3. CASE (\E n \in Names : Login(b, n)) \/ Logout(b) \/ Expire(b)
  <2>1. pc' \notin SavePCs /\ UNCHANGED <<users, readIndex, marked, known, torn>>
    BY <1>3 DEF Login, Logout, Expire, SavePCs
  <2> QED
    BY <2>1, MarksUnchanged
<1> QED
  BY <1>1, <1>2, <1>3 DEF Request

LEMMA MarksSave ==
  ASSUME Typed, AccInv, MarksInv, SaveStep
  PROVE  MarksInv'
<1> USE DEF Goto, db, request, history
<1>1. /\ account \in AllAccounts /\ name \in Names /\ newName \in Names
      /\ pc \in SavePCs
  BY DEF Typed, Locals, SaveStep, UnindexOldName, DeleteOldUser, ListMarks,
     MoveMarkFrom, MoveMarkTo, MarksMoved, IndexName, PutUser, SavePCs
<1>2. pc \in SavePCs \ {"index", "put"} => name # newName
  BY DEF Typed, Locals, Renaming
<1>3. None \notin known
  BY RestartsAssumption DEF Typed, TypeOK, AllAccounts
<1>4. CASE UnindexOldName
  BY <1>4 DEF UnindexOldName, MarksInv, OwnMarks, SavePCs
<1>5. CASE DeleteOldUser
  <2>1. /\ pc = "delete" /\ pc' = "list"
        /\ users' = [users EXCEPT ![name] = None]
        /\ UNCHANGED <<readIndex, account, name, newName, known, torn, marked>>
    BY <1>5 DEF DeleteOldUser
  <2>2. users[name] = account
    BY <2>1 DEF AccInv, SaveInv
  <2>3. \A m \in Names : users'[m] = IF m = name THEN None ELSE users[m]
    BY <1>1, <2>1 DEF Typed, TypeOK
  <2> QED
    BY <1>1, <1>3, <2>1, <2>2, <2>3 DEF MarksInv, OwnMarks
<1>6. CASE ListMarks
  BY <1>6 DEF ListMarks, MarksInv, OwnMarks, SavePCs
<1>7. ASSUME NEW k \in Keys, MoveMarkFrom(k)
      PROVE  MarksInv'
  <2>1. /\ pc = "move" /\ pc' = "moving"
        /\ keys' = keys \ {k} /\ key' = k /\ k \in keys
        /\ readIndex' = [readIndex EXCEPT ![name] = @ \ {k}]
        /\ UNCHANGED <<users, account, name, newName, known, torn, marked>>
    BY <1>7 DEF MoveMarkFrom
  <2>2. \A m \in Names : readIndex'[m] = IF m = name THEN readIndex[m] \ {k} ELSE readIndex[m]
    BY <1>1, <2>1 DEF Typed, TypeOK
  <2>3. users[name] = None /\ name # newName
    BY <1>2, <2>1 DEF AccInv, SaveInv, SavePCs
  <2> QED
    BY <1>1, <1>3, <2>1, <2>2, <2>3 DEF MarksInv, OwnMarks, SavePCs
<1>8. CASE MoveMarkTo
  <2>1. /\ pc = "moving" /\ pc' = "move"
        /\ readIndex' = [readIndex EXCEPT ![newName] = @ \union {key}]
        /\ UNCHANGED <<users, account, name, newName, keys, key, known, torn, marked>>
    BY <1>8 DEF MoveMarkTo
  <2>2. \A m \in Names :
          readIndex'[m] = IF m = newName THEN readIndex[m] \union {key} ELSE readIndex[m]
    BY <1>1, <2>1 DEF Typed, TypeOK
  <2> QED
    BY <1>1, <1>2, <2>1, <2>2 DEF MarksInv, OwnMarks, SavePCs
<1>9. CASE MarksMoved \/ IndexName
  <2>1. /\ pc \in {"move", "index"} /\ pc' \in {"index", "put"}
        /\ pc = "move" => keys = {}
        /\ UNCHANGED <<users, readIndex, account, name, newName, known, torn, marked>>
    BY <1>9 DEF MarksMoved, IndexName
  <2> QED
    BY <1>1, <2>1 DEF MarksInv, OwnMarks, SavePCs, Renaming
<1>10. CASE PutUser
  <2>1. /\ pc = "put" /\ pc' \notin SavePCs
        /\ users' = [users EXCEPT ![newName] = account]
        /\ known' = known \union {account}
        /\ UNCHANGED <<readIndex, torn, marked>>
    BY <1>10 DEF PutUser, Resume, SavePCs
  <2>2. \A m \in Names : users'[m] = IF m = newName THEN account ELSE users[m]
    BY <1>1, <2>1 DEF Typed, TypeOK
  <2>3. ASSUME account \notin torn
        PROVE  marked[account] \subseteq readIndex[newName]
    <3>1. CASE account \notin known
      BY <1>1, <3>1 DEF MarksInv
    <3>2. CASE account \in known /\ Renaming
      BY <2>1, <2>3, <3>2 DEF MarksInv, OwnMarks, SavePCs
    <3>3. CASE account \in known /\ ~Renaming
      <4>1. users[newName] = account
        BY <2>1, <2>3, <3>3 DEF AccInv, SaveInv
      <4> QED
        BY <1>1, <2>3, <3>3, <4>1 DEF MarksInv
    <3> QED
      BY <3>1, <3>2, <3>3
  <2>4. ASSUME NEW m \in Names, m # newName, users'[m] \in known' \ torn'
        PROVE  marked'[users'[m]] \subseteq readIndex'[m]
    <3>1. users'[m] = users[m] /\ users[m] # None
      BY <1>1, <1>3, <2>1, <2>2, <2>4, RestartsAssumption DEF AllAccounts
    <3>2. users[m] \in known \ torn
      BY <2>1, <2>4, <3>1 DEF AccInv
    <3> QED
      BY <2>1, <3>1, <3>2 DEF MarksInv
  <2>5. \A m \in Names : users'[m] \in known' \ torn' => marked'[users'[m]] \subseteq readIndex'[m]
    BY <2>1, <2>2, <2>3, <2>4
  <2> QED
    BY <2>1, <2>5 DEF MarksInv, OwnMarks, SavePCs
<1> QED
  BY <1>4, <1>5, <1>6, <1>7, <1>8, <1>9, <1>10 DEF SaveStep

LEMMA MarksStep == Typed /\ AccInv /\ MarksInv /\ [Next]_vars => MarksInv'
<1>1. ASSUME MarksInv, UNCHANGED vars
      PROVE  MarksInv'
  BY <1>1 DEF vars, MarksInv, OwnMarks, SavePCs, Renaming
<1> QED
  BY <1>1, MarksCut, MarksStartup, MarksRequest, MarksSave DEF Next

(* Such an account keeps its marks, too.                                   *)
THEOREM NoMarkIsLost == Spec => []MarksSurvive
<1>1. MarksInv => MarksSurvive
  BY DEF MarksInv, MarksSurvive
<1> QED
  BY <1>1, TypeInit, TypeStep, AccInit, AccStep, MarksInit, MarksStep, PTL DEF Spec

(* What is cut short misses at most the mark at hand.                      *)
LEMMA TornOneMark ==
  ASSUME Typed, AccInv, MarksInv, [Next]_vars, stops' # stops, pc \in SavePCs, account \notin torn
  PROVE  Cardinality(marked[account] \ (readIndex'[name] \union readIndex'[newName])) <= 1
<1>1. CutShort
  BY DEF Next, Startup, FindUsers, CreateDefaultUser, GetSignKey, ListSignKey, PutSignKey,
     Request, Login, Logout, Expire, SetReadStatus, SaveSettings, SaveStep, UnindexOldName,
     DeleteOldUser, ListMarks, MoveMarkFrom, MoveMarkTo, MarksMoved, IndexName, PutUser,
     Stop, WriteFails, vars, history
<1>2. readIndex' = readIndex
  BY <1>1 DEF CutShort, db
<1>3. account \in AllAccounts /\ name \in Names /\ newName \in Names
  BY DEF Typed, Locals
<1>4. marked[account] \ (readIndex[name] \union readIndex[newName]) \subseteq {key}
  <2>1. CASE account \notin known
    BY <1>3, <2>1 DEF MarksInv
  <2>2. CASE account \in known /\ pc \in {"unindex", "delete"}
    <3>1. users[name] = account
      BY <2>2 DEF AccInv, SaveInv
    <3> QED
      BY <1>3, <2>2, <3>1 DEF MarksInv
  <2>3. CASE account \in known /\ pc \in {"list", "move", "moving"}
    BY <2>3 DEF MarksInv, OwnMarks
  <2>4. CASE account \in known /\ pc \in {"index", "put"} /\ Renaming
    BY <2>4 DEF MarksInv, OwnMarks
  <2>5. CASE account \in known /\ pc \in {"index", "put"} /\ ~Renaming
    <3>1. users[newName] = account
      BY <2>5 DEF AccInv, SaveInv
    <3> QED
      BY <1>3, <2>5, <3>1 DEF MarksInv
  <2> QED
    BY <2>1, <2>2, <2>3, <2>4, <2>5 DEF SavePCs
<1>5. IsFiniteSet({key}) /\ Cardinality({key}) = 1
  BY FS_Singleton
<1>6. Cardinality(marked[account] \ (readIndex[name] \union readIndex[newName])) <= Cardinality({key})
  BY <1>4, <1>5, FS_Subset
<1> QED
  BY <1>2, <1>5, <1>6

(* A rename that is cut short loses at most one mark.                      *)
THEOREM TornRenameLosesOne == Spec => MarksTornOneByOne
<1>1. Typed /\ AccInv /\ MarksInv /\ [Next]_vars =>
        [stops' # stops /\ pc \in SavePCs /\ account \notin torn =>
           Cardinality(marked[account] \ (readIndex'[name] \union readIndex'[newName])) <= 1]_vars
  BY TornOneMark
<1>2. Spec => [][stops' # stops /\ pc \in SavePCs /\ account \notin torn =>
           Cardinality(marked[account] \ (readIndex'[name] \union readIndex'[newName])) <= 1]_vars
  BY <1>1, TypeInit, TypeStep, AccInit, AccStep, MarksInit, MarksStep, PTL DEF Spec
<1> QED
  BY <1>2 DEF MarksTornOneByOne

-----------------------------------------------------------------------------
(* Somebody is there: a start that nothing cut short finds or adds a user. *)

SomeoneInv ==
  stops = 0 =>
    /\ pc = "down" => userIndex = known
    /\ known # {} \/ pc \in {"down", "index", "put"}

LEMMA SomeoneInit == Init => SomeoneInv
BY DEF Init, SomeoneInv

LEMMA SomeoneStep == Typed /\ SomeoneInv /\ [Next]_vars => SomeoneInv'
<1> SUFFICES ASSUME Typed, SomeoneInv, [Next]_vars
             PROVE  SomeoneInv'
  OBVIOUS
<1> USE DEF SomeoneInv, Goto, db, request, history
<1>1. CASE Stop \/ WriteFails
  <2>1. stops' = stops + 1 /\ stops \in Nat
    BY <1>1, RestartsAssumption DEF Stop, WriteFails, CutShort, Typed, TypeOK
  <2> QED
    BY <2>1
<1>2. CASE Startup
  BY <1>2 DEF Startup, FindUsers, CreateDefaultUser, GetSignKey, ListSignKey, PutSignKey
<1>3. ASSUME NEW b \in Browsers, Request(b)
      PROVE  SomeoneInv'
  BY <1>3 DEF Request, Login, Logout, Expire, SetReadStatus, SaveSettings
<1>4. CASE SaveStep
  BY <1>4 DEF SaveStep, UnindexOldName, DeleteOldUser, ListMarks, MoveMarkFrom, MoveMarkTo,
     MarksMoved, IndexName, PutUser, Resume
<1>5. CASE UNCHANGED vars
  BY <1>5 DEF vars
<1> QED
  BY <1>1, <1>2, <1>3, <1>4, <1>5 DEF Next

(* Unless a creation or a rename was torn, someone can log in whenever the *)
(* program serves.                                                         *)
THEOREM LoginPossible == Spec => []SomeoneCanLogIn
<1>1. Typed /\ AccInv /\ SomeoneInv => SomeoneCanLogIn
  <2> SUFFICES ASSUME Typed, AccInv, SomeoneInv, pc = "serving", torn = {}, stops = 0 \/ known # {}
               PROVE  \E n \in userIndex : users[n] # None
    BY DEF SomeoneCanLogIn
  <2>1. PICK a \in known : TRUE
    BY DEF SomeoneInv
  <2>2. a # None
    BY <2>1, RestartsAssumption DEF Typed, TypeOK, AllAccounts
  <2>3. PICK n \in userIndex : \A m \in Names : users[m] = a <=> m = n
    BY <2>1 DEF AccInv, Settled, SavePCs
  <2> QED
    BY <2>2, <2>3 DEF Typed, TypeOK
<1> QED
  BY <1>1, TypeInit, TypeStep, AccInit, AccStep, SomeoneInit, SomeoneStep, PTL DEF Spec
=============================================================================
