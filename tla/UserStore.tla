----------------------------- MODULE UserStore ------------------------------
(***************************************************************************)
(* What SaveUser promises to everyone who takes the lock: the records and  *)
(* the read marks of the users, in which a user is saved, and renamed with *)
(* all marks, in one step.  UserData implements it.                        *)
(*                                                                         *)
(* A user is saved from a copy that was loaded earlier, and which may be   *)
(* out of date.                                                            *)
(*                                                                         *)
(* Marks are the weak spot of the promise: whoever marks an item puts back *)
(* a whole index, so a change of one user's marks may be any change.       *)
(***************************************************************************)
CONSTANTS Names, Registered, Keys, None

VARIABLES
  users,  \* the account of each username, or None
  marks,  \* the keys each username has marked read
  copies  \* the pairs <<username, account>> in the hands of the program

vars == <<users, marks, copies>>

Init ==
  /\ users = [n \in Names |-> IF n \in Registered THEN n ELSE None]
  /\ marks \in [Names -> SUBSET Keys]
  /\ \A n \in Names \ Registered : marks[n] = {}
  /\ copies = {}

Load(n) ==
  /\ users[n] # None
  /\ copies' = copies \union {<<n, users[n]>>}
  /\ UNCHANGED <<users, marks>>

Forget(c) ==
  /\ copies' = copies \ {c}
  /\ UNCHANGED <<users, marks>>

(* Account a is saved under the name it has.                               *)
Save(n, a) ==
  /\ <<n, a>> \in copies
  /\ users' = [users EXCEPT ![n] = a]
  /\ UNCHANGED <<marks, copies>>

(* Account a moves from name n, which it may have left already, to a free  *)
(* name m.                                                                 *)
Rename(n, m, a) ==
  /\ <<n, a>> \in copies
  /\ n # m
  /\ users[m] = None
  /\ users' = [users EXCEPT ![n] = None, ![m] = a]
  /\ marks' = [marks EXCEPT ![n] = {}, ![m] = @ \union marks[n]]
  /\ UNCHANGED copies

ChangeMarks(n, M) ==
  /\ marks' = [marks EXCEPT ![n] = M]
  /\ UNCHANGED <<users, copies>>

Next ==
  \/ \E n \in Names : Load(n)
  \/ \E c \in copies : Forget(c)
  \/ \E n, a \in Names : Save(n, a)
  \/ \E n, m, a \in Names : Rename(n, m, a)
  \/ \E n \in Names, M \in SUBSET Keys : ChangeMarks(n, M)

Spec == Init /\ [][Next]_vars
=============================================================================
