----------------------------- MODULE PageMonitor ----------------------------
(***************************************************************************)
(* One page that Fetcher.FetchPage monitors, the users that read it with   *)
(* GET and POST /api/items/{key}, and the site it is on.                   *)
(*                                                                         *)
(* Several fetches of a page run at the same time when a user lists it     *)
(* twice, or when GET /api/refresh meets the worker.  None of this takes   *)
(* the write lock, so every call to the store is a step of its own.        *)
(*                                                                         *)
(* The texts of the page are the members of Texts; Filter is what Match    *)
(* and Replace make of a text, the identity without a Match.  A delta is   *)
(* the pair of filtered texts it was computed from.  Updated counts the    *)
(* changes that fetches have found: a later time is a greater number.      *)
(*                                                                         *)
(* A mark is an entry in the read index of its user, which is read and     *)
(* written back as a whole, under no lock against others: whoever changes  *)
(* the entry of another item writes this page's entry back as it was when  *)
(* the index was read.  Only this page's entry is modelled, so a call that *)
(* removes it is one step, its write; a call that adds it or leaves it     *)
(* alone is a read and a write.  The users stay the same (UserData renames *)
(* them), and the store does not expire the page (FeedStore does).         *)
(***************************************************************************)
EXTENDS Naturals

CONSTANTS
  Fetchers,    \* goroutines that call FetchPage
  Tickers,     \* those of them that run again at every tick of the worker
  Users,
  Requests,    \* goroutines that change read indexes: requests for this page
               \* and for other items, fetches of other pages, the GC
  Texts,
  Blank,       \* the text of a page without text, and of no page at all
  Filter,
  Down,        \* the site answers with an error, or not at all
  NoPage,      \* nothing stored
  MaxChanges   \* bound: how often the site changes

Pages == [contents : Texts, delta : Texts \X Texts, updated : Nat]

ASSUME PageAssumption ==
  /\ Tickers \subseteq Fetchers
  /\ Blank \in Texts
  /\ Filter \in [Texts -> Texts]
  /\ Down \notin Texts
  /\ NoPage \notin Pages
  /\ MaxChanges \in Nat

VARIABLES
  site,      \* the text the site has now, or Down
  changes,   \* how often it has changed
  page,      \* the stored PagemonitorPage
  read,      \* the users that have the page marked read
  alive,     \* no panic has ended the process
  pc,        \* of each fetcher
  copy,      \* the page as the fetch found it in the store
  new,       \* the page the fetch is about to save
  unvisited, \* users SetReadStatusForAll has still to visit
  found,     \* how many changes fetches have found
  rpc,       \* of each request
  user,      \* whose read index it changes
  snap,      \* the requests that found the page in it when they read it
  since,     \* history: who marked the page since the fetch began
  overlapped \* history: whose index somebody was half-way through writing,
             \* with the mark in it, when the fetch removed the mark

siteVars == <<site, changes>>
fetchVars == <<pc, copy, new, unvisited, found>>
userVars == <<rpc, user, snap>>
history == <<since, overlapped>>
vars == <<site, changes, page, read, alive, pc, copy, new, unvisited, found,
          rpc, user, snap, since, overlapped>>

(* getPreviousResult gives an empty page for none.                         *)
Contents(p) == IF p = NoPage THEN Blank ELSE p.contents

Init ==
  /\ site \in Texts \union {Down}
  /\ changes = 0
  /\ page = NoPage
  /\ read = {}
  /\ alive = TRUE
  /\ pc = [f \in Fetchers |-> "idle"]
  /\ copy = [f \in Fetchers |-> NoPage]
  /\ new = [f \in Fetchers |-> NoPage]
  /\ unvisited = [f \in Fetchers |-> {}]
  /\ found = 0
  /\ rpc = [r \in Requests |-> "idle"]
  /\ user \in [Requests -> Users]
  /\ snap = {}
  /\ since = [f \in Fetchers |-> {}]
  /\ overlapped = [f \in Fetchers |-> {}]

-----------------------------------------------------------------------------
ChangeSite(t) ==
  /\ changes < MaxChanges
  /\ t # site
  /\ site' = t
  /\ changes' = changes + 1
  /\ UNCHANGED <<page, read, alive, fetchVars, userVars, history>>

-----------------------------------------------------------------------------
(* FetchPage.  A panic in its goroutine is recovered by nobody.            *)

Goto(f, from, to) ==
  /\ alive
  /\ pc[f] = from
  /\ pc' = [pc EXCEPT ![f] = to]

Return(f, from) ==
  /\ Goto(f, from, "idle")
  /\ copy' = [copy EXCEPT ![f] = NoPage]
  /\ new' = [new EXCEPT ![f] = NoPage]

StartFetch(f) ==
  /\ Goto(f, "idle", "get")
  /\ copy' = [copy EXCEPT ![f] = page]
  /\ since' = [since EXCEPT ![f] = {}]
  /\ overlapped' = [overlapped EXCEPT ![f] = {}]
  /\ UNCHANGED <<siteVars, page, read, alive, new, unvisited, found, userVars>>

(* Mutant: the status code is not looked at.                               *)
GetFailsSaved(f) ==
  /\ site = Down
  /\ Goto(f, "get", "put")
  /\ new' = [new EXCEPT ![f] = [contents |-> site, delta |-> <<Blank, Blank>>, updated |-> found]]
  /\ UNCHANGED <<siteVars, page, read, alive, copy, unvisited, found, userVars, history>>

(* Mutant: the goroutine does not report that it has completed.            *)
GetFailsSilently(f) ==
  /\ site = Down
  /\ Goto(f, "get", "panic")
  /\ UNCHANGED <<siteVars, page, read, alive, copy, new, unvisited, found, userVars, history>>

GetFails(f) ==
  /\ site = Down
  /\ Return(f, "get")
  /\ UNCHANGED <<siteVars, page, read, alive, unvisited, found, userVars, history>>

SameText(f) == site # Down /\ Filter[site] = Filter[Contents(copy[f])]

(* Nothing changed: the copy itself is saved.                              *)
GetSame(f) ==
  /\ SameText(f)
  /\ copy[f] # NoPage
  /\ Goto(f, "get", "compare")
  /\ new' = [new EXCEPT ![f] = copy[f]]
  /\ UNCHANGED <<siteVars, page, read, alive, copy, unvisited, found, userVars, history>>

(* There is no copy: the empty page is saved, without a Config, and        *)
(* SavePage dereferences it.                                               *)
GetSameNoPage(f) ==
  /\ SameText(f)
  /\ copy[f] = NoPage
  /\ Goto(f, "get", "panic")
  /\ alive' = FALSE
  /\ UNCHANGED <<siteVars, page, read, copy, new, unvisited, found, userVars, history>>

GetChanged(f) ==
  /\ site # Down
  /\ ~SameText(f)
  /\ Goto(f, "get", "unmark")
  /\ new' = [new EXCEPT ![f] = [contents |-> site,
                                delta |-> <<Filter[Contents(copy[f])], Filter[site]>>,
                                updated |-> found + 1]]
  /\ found' = found + 1
  /\ unvisited' = [unvisited EXCEPT ![f] = Users]
  /\ UNCHANGED <<siteVars, page, read, alive, copy, userVars, history>>

(* Who holds an index of u with the mark in it, to be written back.        *)
WritesBack(r, u) == rpc[r] = "other" /\ user[r] = u /\ r \in snap

(* SetReadStatusForAll(key, false).  The write of deleteReferencedKey:     *)
(* whatever was read, the entry is not written back.                       *)
UnmarkUser(f, u) ==
  /\ Goto(f, "unmark", "unmark")
  /\ u \in unvisited[f]
  /\ read' = read \ {u}
  /\ unvisited' = [unvisited EXCEPT ![f] = @ \ {u}]
  /\ overlapped' = [overlapped EXCEPT ![f] =
       IF \E r \in Requests : WritesBack(r, u) THEN @ \union {u} ELSE @]
  /\ UNCHANGED <<siteVars, page, alive, copy, new, found, userVars, since>>

(* SavePage of a page that changed: its Updated differs from whatever is   *)
(* stored, so it is written.                                               *)
(* Mutant: the page is saved before all marks are gone.                    *)
UsersUnmarkedEarly(f) ==
  /\ Goto(f, "unmark", "put")
  /\ UNCHANGED <<siteVars, page, read, alive, copy, new, unvisited, found, userVars, history>>

UsersUnmarked(f) ==
  /\ Goto(f, "unmark", "put")
  /\ unvisited[f] = {}
  /\ UNCHANGED <<siteVars, page, read, alive, copy, new, unvisited, found, userVars, history>>

(* SavePage of a page that did not: the copy is compared with what is      *)
(* stored now, and written if that is something else.                      *)
CompareEqual(f) ==
  /\ page = new[f]
  /\ Return(f, "compare")
  /\ UNCHANGED <<siteVars, page, read, alive, unvisited, found, userVars, history>>

CompareDiffers(f) ==
  /\ page # new[f]
  /\ Goto(f, "compare", "put")
  /\ UNCHANGED <<siteVars, page, read, alive, copy, new, unvisited, found, userVars, history>>

(* Mutant: the text that was there before is kept.                         *)
PutOldContents(f) ==
  /\ Return(f, "put")
  /\ page' = [new[f] EXCEPT !.contents = Contents(copy[f])]
  /\ UNCHANGED <<siteVars, read, alive, unvisited, found, userVars, history>>

PutPage(f) ==
  /\ Return(f, "put")
  /\ page' = new[f]
  /\ UNCHANGED <<siteVars, read, alive, unvisited, found, userVars, history>>

FetchStep(f) ==
  \/ GetFails(f)
  \/ GetSame(f)
  \/ GetSameNoPage(f)
  \/ GetChanged(f)
  \/ \E u \in Users : UnmarkUser(f, u)
  \/ UsersUnmarked(f)
  \/ CompareEqual(f)
  \/ CompareDiffers(f)
  \/ PutPage(f)

-----------------------------------------------------------------------------
(* FeedItemHandler for the key of a page: GetPage, then SetReadStatus,     *)
(* which reads the index of the user and writes it with the mark, unless   *)
(* the mark is there already.                                              *)

Step(r, from, to) ==
  /\ alive
  /\ rpc[r] = from
  /\ rpc' = [rpc EXCEPT ![r] = to]

OpenPage(r, u) ==
  /\ Step(r, "idle", "served")
  /\ page # NoPage
  /\ user' = [user EXCEPT ![r] = u]
  /\ UNCHANGED <<siteVars, page, read, alive, fetchVars, snap, history>>

AlreadyMarked(r) ==
  /\ user[r] \in read
  /\ Step(r, "served", "idle")
  /\ UNCHANGED <<siteVars, page, read, alive, fetchVars, user, snap, history>>

ReadIndex(r) ==
  /\ user[r] \notin read
  /\ Step(r, "served", "mark")
  /\ UNCHANGED <<siteVars, page, read, alive, fetchVars, user, snap, history>>

PutMark(r) ==
  /\ Step(r, "mark", "idle")
  /\ read' = read \union {user[r]}
  /\ since' = [f \in Fetchers |-> since[f] \union {user[r]}]
  /\ UNCHANGED <<siteVars, page, alive, fetchVars, user, snap, overlapped>>

(* SetReadStatus(user, key, false): the write, as in UnmarkUser.           *)
MarkUnread(u) ==
  /\ alive
  /\ u \in read
  /\ read' = read \ {u}
  /\ UNCHANGED <<siteVars, page, alive, fetchVars, userVars, history>>

(* SetReadStatus for another item, by anybody: the index is read, and is   *)
(* written with the mark of this page as it was.                           *)
ReadForOther(r, u) ==
  /\ Step(r, "idle", "other")
  /\ user' = [user EXCEPT ![r] = u]
  /\ snap' = IF u \in read THEN snap \union {r} ELSE snap \ {r}
  /\ UNCHANGED <<siteVars, page, read, alive, fetchVars, history>>

PutOther(r) ==
  /\ Step(r, "other", "idle")
  /\ read' = IF r \in snap THEN read \union {user[r]} ELSE read \ {user[r]}
  /\ snap' = snap \ {r}
  /\ UNCHANGED <<siteVars, page, alive, fetchVars, user, history>>

RequestStep(r) ==
  \/ \E u \in Users : OpenPage(r, u) \/ ReadForOther(r, u)
  \/ AlreadyMarked(r)
  \/ ReadIndex(r)
  \/ PutMark(r)
  \/ PutOther(r)

Next ==
  \/ \E t \in Texts \union {Down} : ChangeSite(t)
  \/ \E f \in Fetchers : StartFetch(f) \/ FetchStep(f)
  \/ \E r \in Requests : RequestStep(r)
  \/ \E u \in Users : MarkUnread(u)

Spec == Init /\ [][Next]_vars

(* The worker's ticker fires for ever, and a fetch that has begun goes on. *)
(* The client has no timeout, so this takes it that the site answers, be   *)
(* it with an error.                                                       *)
Fairness ==
  /\ \A f \in Tickers : WF_vars(StartFetch(f))
  /\ \A f \in Fetchers : WF_vars(FetchStep(f))

FairSpec == Spec /\ Fairness

-----------------------------------------------------------------------------
(* Properties.                                                             *)

PagePCs == {"idle", "get", "unmark", "compare", "put", "panic"}
RequestPCs == {"idle", "served", "mark", "other"}

(* Every variable has its type: in particular what is stored has a text of *)
(* the site, never the answer of a site that is down (FetchPage).          *)
TypeOK ==
  /\ site \in Texts \union {Down}
  /\ changes \in 0..MaxChanges
  /\ page \in Pages \union {NoPage}
  /\ read \in SUBSET Users
  /\ alive \in BOOLEAN
  /\ pc \in [Fetchers -> PagePCs]
  /\ copy \in [Fetchers -> Pages \union {NoPage}]
  /\ new \in [Fetchers -> Pages \union {NoPage}]
  /\ unvisited \in [Fetchers -> SUBSET Users]
  /\ found \in Nat
  /\ rpc \in [Requests -> RequestPCs]
  /\ user \in [Requests -> Users]
  /\ snap \in SUBSET Requests
  /\ since \in [Fetchers -> SUBSET Users]
  /\ overlapped \in [Fetchers -> SUBSET Users]

(* When a changed page is saved, nobody has it marked read but who marked  *)
(* it since the fetch began and whose index somebody was half-way through  *)
(* writing when the mark was removed (SetReadStatusForAll comes before     *)
(* SavePage), however many fetches and requests run.                       *)
ChangeIsUnread ==
  \A f \in Fetchers :
    pc[f] = "put" /\ new[f] # copy[f] => read \subseteq since[f] \union overlapped[f]

(* A fetch during which nobody else saved the page stores a delta that     *)
(* starts at the text that was stored, ends at the text stored now, and    *)
(* is not empty; so without concurrent fetches a user who reads every      *)
(* delta misses nothing (FetchPage).                                       *)
Chains(p, q) == q.delta = <<Filter[Contents(p)], Filter[q.contents]>> /\ q.delta[1] # q.delta[2]

DeltaChains ==
  [][\A f \in Fetchers :
       pc[f] = "put" /\ pc'[f] = "idle" /\ copy[f] = page /\ page' # page => Chains(page, page')]_vars

(* Once the site stays as it is, the store gets its text and keeps it,     *)
(* even if fetches that began earlier still put their old texts back.      *)
PageCatchesUp ==
  <>[](alive /\ site # Down => page # NoPage /\ Filter[page.contents] = Filter[site])
=============================================================================
