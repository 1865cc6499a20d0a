------------------------------ MODULE Restarts ------------------------------
(***************************************************************************)
(* What a program that is killed, or whose writes fail, leaves of users,   *)
(* read marks and logins, and what the next start makes of it.             *)
(*                                                                         *)
(* Each write to the store is a step.  At a start createDefaultUser adds   *)
(* an account where the index of users is empty, and NewCookieHandler gets *)
(* or creates the key that signs cookies.  Then requests are served one at *)
(* a time (UserData has them side by side): login, logout, marks, and      *)
(* settings, with the writes of SaveUser.                                  *)
(*                                                                         *)
(* A record is the account it belongs to.  A cookie is the username and    *)
(* the key it was signed with; both outlive the program.                   *)
(***************************************************************************)
EXTENDS Naturals, FiniteSets

CONSTANTS
  Names,
  Default,     \* the username of createDefaultUser
  Registered,  \* the accounts of a database that is in use, each under its own name
  Fresh,       \* the account that createDefaultUser adds
  Keys,        \* of items
  Browsers,
  None,        \* no account, no cookie, nothing at hand
  MaxStops     \* bound: how often the program stops or a write fails

ASSUME RestartsAssumption ==
  /\ Default \in Names
  /\ Registered \subseteq Names
  /\ Fresh \notin Registered
  /\ None \notin Names \union Registered \union Keys \union {Fresh}
  /\ MaxStops \in Nat

VARIABLES
  (* the database *)
  users,        \* user/<username>
  userIndex,    \* user: the usernames listed
  readIndex,    \* readstatus/<username>
  keyListed,    \* serverconfig: cookie-sign-key is listed
  signKey,      \* serverconfig/cookie-sign-key; 0 when there is none
  (* the program *)
  pc,
  runKey,       \* the key it signs with; 0 before it has one
  browser,      \* who saves settings
  account, name, newName,  \* what is saved, under which name, and then
  keys, key,    \* of renameReadStatus: still to move, and at hand
  padded,       \* the new name came with spaces around it
  (* outside *)
  cookie,
  (* history *)
  stops,
  known,        \* accounts that were stored
  torn,         \* of these, those whose rename or creation was cut short
  marked        \* the items that an account has read

db == <<users, userIndex, readIndex, keyListed, signKey>>
request == <<browser, account, name, newName, keys, key, padded>>
history == <<stops, known, torn, marked>>
vars == <<users, userIndex, readIndex, keyListed, signKey, pc, runKey,
          browser, account, name, newName, keys, key, padded, cookie,
          stops, known, torn, marked>>

AllAccounts == Registered \union {Fresh}

Init ==
  \E R \in {{}, Registered} :
    /\ users = [n \in Names |-> IF n \in R THEN n ELSE None]
    /\ userIndex = R
    /\ readIndex = [n \in Names |-> {}]
    /\ keyListed = FALSE
    /\ signKey = 0
    /\ pc = "down"
    /\ runKey = 0
    /\ browser = None
    /\ account = None
    /\ name = None
    /\ newName = None
    /\ keys = {}
    /\ key = None
    /\ padded = FALSE
    /\ cookie = [b \in Browsers |-> None]
    /\ stops = 0
    /\ known = R
    /\ torn = {}
    /\ marked = [a \in AllAccounts |-> {}]

-----------------------------------------------------------------------------
(* A save that ends, well or not, goes on where the start left off or      *)
(* answers the request.                                                    *)

Goto(from, to) == pc = from /\ pc' = to

Resume == IF runKey = 0 THEN "config" ELSE "serving"

EndSave ==
  /\ browser' = None
  /\ account' = None
  /\ name' = None
  /\ newName' = None
  /\ keys' = {}
  /\ key' = None
  /\ padded' = FALSE

Renaming == name # newName

(* The account has lost its record, or its listing, until the save ends.   *)
Tearing ==
  \/ pc \in {"delete", "list", "move", "moving"}
  \/ pc \in {"index", "put"} /\ Renaming
  \/ pc = "put" /\ users[newName] = None

CutShort ==
  /\ stops < MaxStops
  /\ stops' = stops + 1
  /\ torn' = IF Tearing THEN torn \union {account} ELSE torn
  /\ UNCHANGED <<db, cookie, known, marked>>

(* The program is killed or ends; nothing in memory is left.               *)
Stop ==
  /\ pc # "down"
  /\ pc' = "down"
  /\ runKey' = 0
  /\ EndSave
  /\ CutShort

(* A write of SaveUser returns an error.                                   *)
WriteFails ==
  /\ pc \in {"unindex", "delete", "move", "moving", "index", "put"}
  /\ pc' = Resume
  /\ EndSave
  /\ CutShort
  /\ UNCHANGED runKey

-----------------------------------------------------------------------------
(* The start: createDefaultUser, then NewCookieHandler.                    *)

FindUsers ==
  /\ Goto("down", "config")
  /\ userIndex # {}
  /\ UNCHANGED <<db, runKey, request, cookie, history>>

(* Mutant: the index is not looked at.                                     *)
CreateUserAnyway ==
  /\ Goto("down", "index")
  /\ account' = Fresh
  /\ name' = Default
  /\ newName' = Default
  /\ UNCHANGED <<db, runKey, browser, keys, key, padded, cookie, history>>

(* Mutant: nobody is added.                                                *)
NoDefaultUser ==
  /\ Goto("down", "config")
  /\ userIndex = {}
  /\ UNCHANGED <<db, runKey, request, cookie, history>>

CreateDefaultUser ==
  /\ Goto("down", "index")
  /\ userIndex = {}
  /\ account' = Fresh
  /\ name' = Default
  /\ newName' = Default
  /\ UNCHANGED <<db, runKey, browser, keys, key, padded, cookie, history>>

(* GetOrCreateConfigVariable: the name is listed, then the value written.  *)
GetSignKey ==
  /\ Goto("config", "serving")
  /\ signKey # 0
  /\ runKey' = signKey
  /\ UNCHANGED <<db, request, cookie, history>>

(* Mutant: a key that is listed is taken to be there.                      *)
ListSignKeyOnce ==
  /\ Goto("config", "putkey")
  /\ ~keyListed
  /\ keyListed' = TRUE
  /\ UNCHANGED <<users, userIndex, readIndex, signKey, runKey, request, cookie, history>>

ListSignKey ==
  /\ Goto("config", "putkey")
  /\ signKey = 0
  /\ keyListed' = TRUE
  /\ UNCHANGED <<users, userIndex, readIndex, signKey, runKey, request, cookie, history>>

NewKey == stops + 1

(* Mutant: the new key is used and not written.                            *)
ForgetSignKey ==
  /\ Goto("putkey", "serving")
  /\ runKey' = NewKey
  /\ UNCHANGED <<db, request, cookie, history>>

PutSignKey ==
  /\ Goto("putkey", "serving")
  /\ signKey' = NewKey
  /\ runKey' = NewKey
  /\ UNCHANGED <<users, userIndex, readIndex, keyListed, request, cookie, history>>

-----------------------------------------------------------------------------
(* Requests.                                                               *)

Cookies == [name : Names, key : 1..MaxStops + 1]

(* Whom AuthHandlerFunc finds behind the cookie of b.                      *)
UserOf(b) ==
  IF cookie[b] # None /\ cookie[b].key = runKey THEN users[cookie[b].name] ELSE None

Login(b, n) ==
  /\ Goto("serving", "serving")
  /\ users[n] # None
  /\ cookie' = [cookie EXCEPT ![b] = [name |-> n, key |-> runKey]]
  /\ UNCHANGED <<db, runKey, request, history>>

(* LogoutHandler; PageAuthHandler turns away who is not logged in.         *)
Logout(b) ==
  /\ Goto("serving", "serving")
  /\ UserOf(b) # None
  /\ cookie' = [cookie EXCEPT ![b] = None]
  /\ UNCHANGED <<db, runKey, request, history>>

(* A request with a token that has expired gets the cookie removed.        *)
Expire(b) ==
  /\ Goto("serving", "serving")
  /\ cookie[b] # None
  /\ cookie' = [cookie EXCEPT ![b] = None]
  /\ UNCHANGED <<db, runKey, request, history>>

SetReadStatus(b, k, read) ==
  /\ Goto("serving", "serving")
  /\ UserOf(b) # None
  /\ LET set(S) == IF read THEN S \union {k} ELSE S \ {k} IN
       /\ readIndex' = [readIndex EXCEPT ![cookie[b].name] = set(@)]
       /\ marked' = [marked EXCEPT ![UserOf(b)] = set(@)]
  /\ UNCHANGED <<users, userIndex, keyListed, signKey, runKey, request, cookie, stops, known, torn>>

(* SettingsHandler and the checks of SaveUser.  A name that is taken is    *)
(* refused, and nothing is written.                                        *)
SaveSettings(b, n, spaces) ==
  /\ pc = "serving"
  /\ UserOf(b) # None
  /\ n # cookie[b].name => users[n] = None
  /\ pc' = IF n = cookie[b].name THEN "index" ELSE "unindex"
  /\ browser' = b
  /\ account' = UserOf(b)
  /\ name' = cookie[b].name
  /\ newName' = n
  /\ padded' = spaces
  /\ UNCHANGED <<db, runKey, keys, key, cookie, history>>

-----------------------------------------------------------------------------
(* The writes of SaveUser.                                                 *)

UnindexOldName ==
  /\ Goto("unindex", "delete")
  /\ userIndex' = userIndex \ {name}
  /\ UNCHANGED <<users, readIndex, keyListed, signKey, runKey, request, cookie, history>>

DeleteOldUser ==
  /\ Goto("delete", "list")
  /\ users' = [users EXCEPT ![name] = None]
  /\ UNCHANGED <<userIndex, readIndex, keyListed, signKey, runKey, request, cookie, history>>

ListMarks ==
  /\ Goto("list", "move")
  /\ keys' = readIndex[name]
  /\ UNCHANGED <<db, runKey, browser, account, name, newName, key, padded, cookie, history>>

(* Mutant: the key that was moved is not remembered.                       *)
MoveNoMark(k) ==
  /\ Goto("move", "moving")
  /\ k \in keys
  /\ keys' = keys \ {k}
  /\ readIndex' = [readIndex EXCEPT ![name] = @ \ {k}]
  /\ UNCHANGED <<users, userIndex, keyListed, signKey, runKey,
                 browser, account, name, newName, key, padded, cookie, history>>

(* Mutant: all marks leave the old name at once.                           *)
DropMarks(k) ==
  /\ Goto("move", "moving")
  /\ k \in keys
  /\ keys' = keys \ {k}
  /\ key' = k
  /\ readIndex' = [readIndex EXCEPT ![name] = {}]
  /\ UNCHANGED <<users, userIndex, keyListed, signKey, runKey,
                 browser, account, name, newName, padded, cookie, history>>

MoveMarkFrom(k) ==
  /\ Goto("move", "moving")
  /\ k \in keys
  /\ keys' = keys \ {k}
  /\ key' = k
  /\ readIndex' = [readIndex EXCEPT ![name] = @ \ {k}]
  /\ UNCHANGED <<users, userIndex, keyListed, signKey, runKey,
                 browser, account, name, newName, padded, cookie, history>>

(* Mutant: a mark goes back to the old name.                               *)
MoveMarkBack ==
  /\ Goto("moving", "move")
  /\ readIndex' = [readIndex EXCEPT ![name] = @ \union {key}]
  /\ UNCHANGED <<users, userIndex, keyListed, signKey, runKey, request, cookie, history>>

MoveMarkTo ==
  /\ Goto("moving", "move")
  /\ readIndex' = [readIndex EXCEPT ![newName] = @ \union {key}]
  /\ UNCHANGED <<users, userIndex, keyListed, signKey, runKey, request, cookie, history>>

MarksMoved ==
  /\ Goto("move", "index")
  /\ keys = {}
  /\ UNCHANGED <<db, runKey, request, cookie, history>>

IndexName ==
  /\ Goto("index", "put")
  /\ userIndex' = userIndex \union {newName}
  /\ UNCHANGED <<users, readIndex, keyListed, signKey, runKey, request, cookie, history>>

(* The cookie keeps the old name after a rename, and is taken away only    *)
(* where the name in the form had spaces around it.                        *)
PutUser ==
  /\ pc = "put"
  /\ pc' = Resume
  /\ users' = [users EXCEPT ![newName] = account]
  /\ known' = known \union {account}
  /\ cookie' = IF padded THEN [cookie EXCEPT ![browser] = None] ELSE cookie
  /\ EndSave
  /\ UNCHANGED <<userIndex, readIndex, keyListed, signKey, runKey, stops, torn, marked>>

-----------------------------------------------------------------------------
Startup == FindUsers \/ CreateDefaultUser \/ GetSignKey \/ ListSignKey \/ PutSignKey

Request(b) ==
  \/ \E n \in Names : Login(b, n)
  \/ Logout(b)
  \/ Expire(b)
  \/ \E k \in Keys, read \in BOOLEAN : SetReadStatus(b, k, read)
  \/ \E n \in Names, spaces \in BOOLEAN : SaveSettings(b, n, spaces)

SaveStep ==
  \/ UnindexOldName
  \/ DeleteOldUser
  \/ ListMarks
  \/ \E k \in Keys : MoveMarkFrom(k)
  \/ MoveMarkTo
  \/ MarksMoved
  \/ IndexName
  \/ PutUser

Next ==
  \/ Stop
  \/ WriteFails
  \/ Startup
  \/ \E b \in Browsers : Request(b)
  \/ SaveStep

Spec == Init /\ [][Next]_vars

(* The program starts whenever it is down, and what it starts goes on.     *)
FairSpec == Spec /\ WF_vars(Startup) /\ WF_vars(SaveStep)

-----------------------------------------------------------------------------
(* Properties.                                                             *)

SavePCs == {"unindex", "delete", "list", "move", "moving", "index", "put"}
PCs == SavePCs \union {"down", "config", "putkey", "serving"}

(* Every variable has its type.                                            *)
TypeOK ==
  /\ users \in [Names -> AllAccounts \union {None}]
  /\ userIndex \in SUBSET Names
  /\ readIndex \in [Names -> SUBSET Keys]
  /\ keyListed \in BOOLEAN
  /\ signKey \in 0..MaxStops + 1
  /\ pc \in PCs
  /\ runKey \in 0..MaxStops + 1
  /\ browser \in Browsers \union {None}
  /\ account \in AllAccounts \union {None}
  /\ name \in Names \union {None}
  /\ newName \in Names \union {None}
  /\ keys \in SUBSET Keys
  /\ key \in Keys \union {None}
  /\ padded \in BOOLEAN
  /\ cookie \in [Browsers -> Cookies \union {None}]
  /\ stops \in 0..MaxStops
  /\ known \in SUBSET AllAccounts
  /\ torn \in SUBSET AllAccounts
  /\ marked \in [AllAccounts -> SUBSET Keys]

Idle == pc \notin SavePCs

(* However often the program is killed and writes fail, an account that    *)
(* was not itself being renamed then has exactly one name, and that name   *)
(* is listed: neither the default user of a later start nor another rename *)
(* takes its place.                                                        *)
AccountsSurvive ==
  Idle => \A a \in known \ torn :
    \E n \in userIndex : \A m \in Names : users[m] = a <=> m = n

(* Such an account also has all its read marks.                            *)
MarksSurvive ==
  Idle => \A n \in Names : users[n] \in known \ torn => marked[users[n]] \subseteq readIndex[n]

(* A rename that is cut short has torn the marks of the account in two and *)
(* lost at most one of them: the others are under the old or the new name. *)
MarksTornOneByOne ==
  [][stops' # stops /\ pc \in SavePCs /\ account \notin torn =>
       Cardinality(marked[account] \ (readIndex'[name] \union readIndex'[newName])) <= 1]_vars

(* A cookie that was given out is accepted until it is taken back or       *)
(* expires, also after restarts: no start replaces the key it was signed   *)
(* with, and the key is in the index from which backups are made.          *)
CookiesStayValid ==
  pc = "serving" =>
    /\ keyListed
    /\ signKey = runKey
    /\ \A b \in Browsers : cookie[b] # None => cookie[b].key = runKey

(* After a first start that nothing cut short, and whenever there ever was *)
(* an account, there is someone who can log in; unless a creation or a     *)
(* rename was torn, after which a name without a record can keep           *)
(* createDefaultUser from adding anybody.                                  *)
SomeoneCanLogIn ==
  pc = "serving" /\ torn = {} /\ (stops = 0 \/ known # {}) => \E n \in userIndex : users[n] # None

(* A start ends in a program that serves, whatever the one before left.    *)
StartsServing == pc = "down" ~> pc = "serving"
=============================================================================
