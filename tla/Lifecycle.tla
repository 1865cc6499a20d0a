------------------------------ MODULE Lifecycle -----------------------------
(***************************************************************************)
(* The process from main's Open to its end: the ticker and the goroutine   *)
(* of package worker, the Refresh rounds of the worker and of the handlers *)
(* of GET /api/refresh with a goroutine for every feed and page, and what  *)
(* main does when it is told to stop.                                      *)
(*                                                                         *)
(* What a fetch and a GC do to the store is in PageMonitor, FeedStore and  *)
(* UserData; here they begin and end.  Nothing in the code bounds how long *)
(* a fetch takes: the HTTP client has no timeout.                          *)
(***************************************************************************)
EXTENDS Naturals, FiniteSets

CONSTANTS
  Users,         \* listed in the index of users
  BrokenPages,   \* users whose pages are no XML
  BrokenFeeds,   \* users whose feeds are no OPML
  Sites,         \* what is fetched, a page or a feed; one that a user lists twice
                 \* is two of them
  PagesOf, FeedsOf,  \* [Users -> SUBSET Sites]
  Worker,        \* the round of the worker
  Handlers       \* rounds of GET /api/refresh

Rounds == {Worker} \union Handlers
Subscribed == [pages |-> PagesOf, feeds |-> FeedsOf]
Broken == [pages |-> BrokenPages, feeds |-> BrokenFeeds]

ASSUME LifecycleAssumption ==
  /\ IsFiniteSet(Sites)
  /\ BrokenPages \subseteq Users
  /\ BrokenFeeds \subseteq Users
  /\ PagesOf \in [Users -> SUBSET Sites]
  /\ FeedsOf \in [Users -> SUBSET Sites]
  /\ Worker \notin Handlers

VARIABLES
  main,      \* the pc of main
  closed,    \* DBService.Close was called
  ticking,   \* worker.Start was called
  tick,      \* a tick waits in ticker.C, which holds one
  pc,        \* of a round
  phase,     \* FetchAllPages or FetchAllFeeds
  left,      \* users still to visit
  fetching,  \* goroutines that fetch
  answered,  \* goroutines at completed <- index
  awaited,   \* values that the round still receives from completed
  (* history, of a round *)
  covered,   \* what it fetched
  aborted    \* the store failed

roundVars == <<pc, phase, left, fetching, answered, awaited, covered, aborted>>
vars == <<main, closed, ticking, tick, pc, phase, left, fetching, answered, awaited,
          covered, aborted>>

Init ==
  /\ main = "open"
  /\ closed = FALSE
  /\ ticking = FALSE
  /\ tick = FALSE
  /\ pc = [r \in Rounds |-> "idle"]
  /\ phase = [r \in Rounds |-> "pages"]
  /\ left = [r \in Rounds |-> {}]
  /\ fetching = [r \in Rounds |-> {}]
  /\ answered = [r \in Rounds |-> {}]
  /\ awaited = [r \in Rounds |-> 0]
  /\ covered = [r \in Rounds |-> {}]
  /\ aborted = [r \in Rounds |-> FALSE]

-----------------------------------------------------------------------------
(* main.  The deferred GC and Close run when it returns or panics, not     *)
(* after log.Fatal nor when another goroutine panics.                      *)

MainGoto(from, to) == main = from /\ main' = to

OpenFails ==
  /\ MainGoto("open", "exited")
  /\ UNCHANGED <<closed, ticking, tick, roundVars>>

Serve ==
  /\ MainGoto("open", "start")
  /\ UNCHANGED <<closed, ticking, tick, roundVars>>

Directive ==
  /\ MainGoto("open", "directive")
  /\ UNCHANGED <<closed, ticking, tick, roundVars>>

DirectiveEnds ==
  /\ MainGoto("directive", "gc")
  /\ UNCHANGED <<closed, ticking, tick, roundVars>>

DirectiveFatal ==
  /\ MainGoto("directive", "exited")
  /\ UNCHANGED <<closed, ticking, tick, roundVars>>

UnknownDirective ==
  /\ MainGoto("open", "exited")
  /\ closed' = TRUE
  /\ UNCHANGED <<ticking, tick, roundVars>>

(* An interval that is no number counts as 0, and NewTicker panics.        *)
BadInterval ==
  /\ MainGoto("start", "gc")
  /\ UNCHANGED <<closed, ticking, tick, roundVars>>

StartWorker ==
  /\ MainGoto("start", "services")
  /\ ticking' = TRUE
  /\ UNCHANGED <<closed, tick, roundVars>>

ServicesFail ==
  /\ MainGoto("services", "gc")
  /\ UNCHANGED <<closed, ticking, tick, roundVars>>

ListenAndServe ==
  /\ MainGoto("services", "serving")
  /\ UNCHANGED <<closed, ticking, tick, roundVars>>

(* A signal, or an error of ListenAndServe.  Nothing stops the worker or   *)
(* the requests under way.                                                 *)
StopServing ==
  /\ MainGoto("serving", "gc")
  /\ UNCHANGED <<closed, ticking, tick, roundVars>>

FinalGC ==
  /\ MainGoto("gc", "close")
  /\ UNCHANGED <<closed, ticking, tick, roundVars>>

Close ==
  /\ MainGoto("close", "return")
  /\ closed' = TRUE
  /\ UNCHANGED <<ticking, tick, roundVars>>

Exit ==
  /\ MainGoto("return", "exited")
  /\ UNCHANGED <<closed, ticking, tick, roundVars>>

MainStep ==
  \/ OpenFails \/ Serve \/ Directive \/ UnknownDirective
  \/ DirectiveEnds \/ DirectiveFatal
  \/ BadInterval \/ StartWorker \/ ServicesFail \/ ListenAndServe \/ StopServing
  \/ FinalGC \/ Close \/ Exit

-----------------------------------------------------------------------------
(* The ticker and the start of a round.                                    *)

Goto(r, from, to) == pc[r] = from /\ pc' = [pc EXCEPT ![r] = to]

StartRound(r) ==
  /\ Goto(r, "idle", "users")
  /\ phase' = [phase EXCEPT ![r] = "pages"]
  /\ covered' = [covered EXCEPT ![r] = {}]
  /\ aborted' = [aborted EXCEPT ![r] = FALSE]
  /\ UNCHANGED <<main, closed, ticking, left, fetching, answered, awaited>>

(* A tick that finds the channel full is dropped.                          *)
Tick ==
  /\ ticking
  /\ tick' = TRUE
  /\ UNCHANGED <<main, closed, ticking, roundVars>>

StartTask ==
  /\ tick
  /\ tick' = FALSE
  /\ StartRound(Worker)

RequestRefresh(h) ==
  /\ main = "serving"
  /\ StartRound(h)
  /\ UNCHANGED tick

-----------------------------------------------------------------------------
(* FetchAllPages, then FetchAllFeeds.                                      *)

(* Mutant: every refresh ends with a GC.                                   *)
AfterPhaseGC(r) ==
  IF phase[r] = "pages" THEN "users" ELSE "gc"

AfterPhase(r) ==
  IF phase[r] = "pages" THEN "users" ELSE IF r = Worker THEN "gc" ELSE "idle"

EndPhase(r) ==
  /\ pc' = [pc EXCEPT ![r] = AfterPhase(r)]
  /\ phase' = [phase EXCEPT ![r] = "feeds"]
  /\ left' = [left EXCEPT ![r] = {}]
  /\ UNCHANGED <<main, closed, ticking, tick, fetching, answered, awaited, covered>>

GetUsers(r) ==
  /\ ~closed
  /\ Goto(r, "users", "visit")
  /\ left' = [left EXCEPT ![r] = Users]
  /\ UNCHANGED <<main, closed, ticking, tick, phase, fetching, answered, awaited, covered, aborted>>

(* GetUsers or GetUser returns an error: so much for this phase.           *)
StoreFails(r) ==
  /\ pc[r] = "users" \/ (pc[r] = "visit" /\ left[r] # {})
  /\ EndPhase(r)
  /\ aborted' = [aborted EXCEPT ![r] = TRUE]

(* Mutant: nobody is visited after a user whose pages or feeds are no XML. *)
SkipRest(r, u) ==
  /\ ~closed
  /\ pc[r] = "visit"
  /\ u \in left[r] \intersect Broken[phase[r]]
  /\ EndPhase(r)
  /\ UNCHANGED aborted

SkipUser(r, u) ==
  /\ ~closed
  /\ pc[r] = "visit"
  /\ u \in left[r] \intersect Broken[phase[r]]
  /\ left' = [left EXCEPT ![r] = @ \ {u}]
  /\ UNCHANGED <<main, closed, ticking, tick, pc, phase, fetching, answered, awaited, covered, aborted>>

StartFetches(r, u, count) ==
  /\ ~closed
  /\ Goto(r, "visit", "join")
  /\ u \in left[r] \ Broken[phase[r]]
  /\ LET S == Subscribed[phase[r]][u] IN
       /\ fetching' = [fetching EXCEPT ![r] = S]
       /\ awaited' = [awaited EXCEPT ![r] = count]
       /\ covered' = [covered EXCEPT ![r] = @ \union S]
  /\ left' = [left EXCEPT ![r] = @ \ {u}]
  /\ UNCHANGED <<main, closed, ticking, tick, phase, answered, aborted>>

(* Mutants: one value too few or too many is received.                     *)
VisitUserBriefly(r, u) ==
  LET n == Cardinality(Subscribed[phase[r]][u]) IN
    StartFetches(r, u, IF n = 0 THEN 0 ELSE n - 1)

VisitUserLong(r, u) ==
  StartFetches(r, u, Cardinality(Subscribed[phase[r]][u]) + 1)

VisitUser(r, u) ==
  StartFetches(r, u, Cardinality(Subscribed[phase[r]][u]))

(* FetchPage or FetchFeed returns, with an error or without.               *)
Answer(r, s) ==
  /\ s \in fetching[r]
  /\ fetching' = [fetching EXCEPT ![r] = @ \ {s}]
  /\ answered' = [answered EXCEPT ![r] = @ \union {s}]
  /\ UNCHANGED <<main, closed, ticking, tick, pc, phase, left, awaited, covered, aborted>>

Receive(r, s) ==
  /\ pc[r] = "join"
  /\ awaited[r] > 0
  /\ s \in answered[r]
  /\ answered' = [answered EXCEPT ![r] = @ \ {s}]
  /\ awaited' = [awaited EXCEPT ![r] = @ - 1]
  /\ UNCHANGED <<main, closed, ticking, tick, pc, phase, left, fetching, covered, aborted>>

Joined(r) ==
  /\ Goto(r, "join", "visit")
  /\ awaited[r] = 0
  /\ UNCHANGED <<main, closed, ticking, tick, phase, left, fetching, answered, awaited, covered, aborted>>

PhaseDone(r) ==
  /\ pc[r] = "visit"
  /\ left[r] = {}
  /\ EndPhase(r)
  /\ UNCHANGED aborted

(* DBService.GC logs its errors, those of a closed database too.           *)
TaskDone ==
  /\ Goto(Worker, "gc", "idle")
  /\ UNCHANGED <<main, closed, ticking, tick, phase, left, fetching, answered, awaited, covered, aborted>>

RoundStep(r) ==
  \/ GetUsers(r)
  \/ StoreFails(r)
  \/ \E u \in Users : SkipUser(r, u) \/ VisitUser(r, u)
  \/ \E s \in Sites : Receive(r, s)
  \/ Joined(r)
  \/ PhaseDone(r)

-----------------------------------------------------------------------------
(* Panics.  A user that was renamed since GetUsers is gone, and GetUser    *)
(* returns nil; Close leaves a nil database to whoever still runs; and a   *)
(* fetch may meet a page without text (PageMonitor).  The router recovers  *)
(* a handler, whose round ends; nothing recovers the worker or a fetch.    *)

MayPanic(r) ==
  \/ pc[r] = "visit" /\ left[r] # {}
  \/ closed /\ pc[r] \in {"users", "gc"}

RecoverPanic(h) ==
  /\ MayPanic(h)
  /\ pc' = [pc EXCEPT ![h] = "idle"]
  /\ left' = [left EXCEPT ![h] = {}]
  /\ aborted' = [aborted EXCEPT ![h] = TRUE]
  /\ UNCHANGED <<main, closed, ticking, tick, phase, fetching, answered, awaited, covered>>

Crash ==
  /\ MayPanic(Worker) \/ \E r \in Rounds : fetching[r] # {}
  /\ main' = "exited"
  /\ UNCHANGED <<closed, ticking, tick, roundVars>>

-----------------------------------------------------------------------------
Alive(A) == main # "exited" /\ A

Ended == main = "exited" /\ UNCHANGED vars

Next ==
  \/ Alive(\/ MainStep
           \/ Tick
           \/ StartTask
           \/ \E h \in Handlers : RequestRefresh(h) \/ RecoverPanic(h)
           \/ \E r \in Rounds : RoundStep(r)
           \/ \E r \in Rounds, s \in Sites : Answer(r, s)
           \/ TaskDone
           \/ Crash)
  \/ Ended

Spec == Init /\ [][Next]_vars

(* The worker goes on.  Nothing is assumed of main, of the sites, nor of   *)
(* refreshes that users ask for.                                           *)
FairSpec ==
  /\ Spec
  /\ WF_vars(Alive(StartTask \/ RoundStep(Worker) \/ TaskDone))

-----------------------------------------------------------------------------
(* Properties.                                                             *)

(* Every variable has its type, and only the worker's round has a GC.      *)
TypeOK ==
  /\ main \in {"open", "directive", "start", "services", "serving", "gc", "close", "return", "exited"}
  /\ closed \in BOOLEAN
  /\ ticking \in BOOLEAN
  /\ tick \in BOOLEAN
  /\ pc \in [Rounds -> {"idle", "users", "visit", "join", "gc"}]
  /\ \A h \in Handlers : pc[h] # "gc"
  /\ phase \in [Rounds -> {"pages", "feeds"}]
  /\ left \in [Rounds -> SUBSET Users]
  /\ fetching \in [Rounds -> SUBSET Sites]
  /\ answered \in [Rounds -> SUBSET Sites]
  /\ awaited \in [Rounds -> 0..Cardinality(Sites)]
  /\ covered \in [Rounds -> SUBSET Sites]
  /\ aborted \in [Rounds -> BOOLEAN]

(* No goroutine of a round outlives the wait for it: the worker's GC, the  *)
(* next user and the next round begin when all fetches of theirs are over, *)
(* and none is left that blocks on completed for ever.                     *)
RoundsJoin ==
  \A r \in Rounds :
    /\ awaited[r] = Cardinality(fetching[r]) + Cardinality(answered[r])
    /\ pc[r] # "join" => fetching[r] = {} /\ answered[r] = {}

(* A Refresh that met no error of the store has fetched the pages of every *)
(* user whose pages are XML and the feeds of every user whose feeds are,   *)
(* whatever the other half of the user's configuration, or somebody else's *)
(* is.                                                                     *)
RoundCovers ==
  \A r \in Rounds : phase[r] = "feeds" /\ ~aborted[r] =>
    /\ \A u \in Users \ BrokenPages : PagesOf[u] \subseteq covered[r]
    /\ pc[r] \in {"gc", "idle"} =>
         \A u \in Users \ BrokenFeeds : FeedsOf[u] \subseteq covered[r]

(* Where sites answer, the worker takes every tick that is not dropped,    *)
(* whatever happens to the refreshes that users ask for.                   *)
SitesAnswer == \A s \in Sites : []<>(s \notin fetching[Worker])

TickServed == SitesAnswer => (tick ~> ~tick \/ main = "exited")
=============================================================================
