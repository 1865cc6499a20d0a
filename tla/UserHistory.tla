----------------------------- MODULE UserHistory ----------------------------
(***************************************************************************)
(* UserData with two history variables.  They record where one call came   *)
(* in between the steps of another one in a way that the code does not     *)
(* keep out, and so say of whom its promises hold: SetReadStatusForAll     *)
(* reaches everybody who is not excused, and a save keeps every account    *)
(* that is not endangered.                                                 *)
(***************************************************************************)
EXTENDS UserData

VARIABLES
  excused,    \* of each unmarker: the users whose mark may be there again
  endangered  \* the accounts that a save of a stale copy may have hit

historyVars == <<excused, endangered>>
allVars == <<vars, historyVars>>

HInit ==
  /\ Init
  /\ excused = [j \in Unmarkers |-> {}]
  /\ endangered = {}

-----------------------------------------------------------------------------
(* i has read the marks of n, and will write them back with k among them   *)
(* although its call is about another item.                                *)
WritesBack(i, n, k) ==
  /\ name[i] = n
  /\ k \in snap[i] \ {key[i]}
  /\ \/ pc[i] = "mark" /\ key[i] \notin snap[i]
     \/ pc[i] \in {"unmark", "clear", "drop"}

(* In this step j removes its mark from n, and i will bring it back.       *)
Overlapped(j, n) ==
  /\ pc[j] = "clear" /\ pc'[j] = "users" /\ name[j] = n
  /\ \E i \in Jobs : WritesBack(i, n, key[j])

(* In this step a request marks the item of j for n.                       *)
MarkedNow(j, n) ==
  \E i \in Viewers :
    /\ pc[i] = "mark" /\ pc'[i] = "idle"
    /\ name[i] = n /\ key[i] = key[j] /\ key[i] \notin snap[i]

Excuse ==
  excused' = [j \in Unmarkers |->
    IF pc'[j] \in {"users", "clear"}
    THEN excused[j] \union {n \in Names : Overlapped(j, n) \/ MarkedNow(j, n)}
    ELSE {}]

(* In this step j begins to save a copy that was loaded at a name where    *)
(* another account, or none, is stored by now.                             *)
SavesStale(j) ==
  /\ pc[j] = "lock" /\ pc'[j] \in {"index", "unindex"}
  /\ users[name[j]] # account[j]

Endanger ==
  endangered' = endangered \union
    {a \in Accounts : \E j \in Settings : SavesStale(j) /\ a \in {account[j], users[name[j]]}}

HNext == Next /\ Excuse /\ Endanger

HSpec == HInit /\ [][HNext]_allVars

HFairSpec == HSpec /\ Fairness

-----------------------------------------------------------------------------
(* Properties.                                                             *)

(* SetReadStatusForAll reaches all users, also those renamed about the     *)
(* time it starts, whatever else is marked, unmarked and collected: a user *)
(* it has passed has the mark no longer, but who marked the item again or  *)
(* whose marks somebody was half-way through writing back.                 *)
UnmarkReachesAll ==
  \A j \in Unmarkers :
    pc[j] \in {"users", "clear"} =>
      \A n \in Stored \ excused[j] :
        \/ n \in names[j]
        \/ pc[j] = "clear" /\ name[j] = n
        \/ key[j] \notin readIndex[n]

(* No save loses an account or leaves it under two names, however many     *)
(* requests change settings at the same time, but those of a copy whose    *)
(* name had another account, or none, when the save began.                 *)
FreshSavesKeepAccounts ==
  writer = None =>
    \A a \in Registered \ endangered : Cardinality({n \in Names : users[n] = a}) = 1
=============================================================================
