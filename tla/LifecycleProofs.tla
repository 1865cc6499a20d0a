-------------------------- MODULE LifecycleProofs --------------------------
(***************************************************************************)
(* Lifecycle for any users, sites and refreshes: no goroutine outlives the *)
(* round that waits for it, and a round that meets no error of the store   *)
(* fetches everything.                                                     *)
(***************************************************************************)
EXTENDS Lifecycle, FiniteSetTheorems, TLAPS

Types ==
  /\ main \in {"open", "directive", "start", "services", "serving", "gc", "close", "return", "exited"}
  /\ closed \in BOOLEAN
  /\ ticking \in BOOLEAN
  /\ tick \in BOOLEAN
  /\ pc \in [Rounds -> {"idle", "users", "visit", "join", "gc"}]
  /\ \A h \in Handlers : pc[h] # "gc"
  /\ phase \in [Rounds -> {"pages", "feeds"}]
  /\ left \in [Rounds -> SUBSET Users]
  /\ fetching \in [Rounds -> SUBSET Sites]
  /\ answered \in [Rounds -> SUBSET Sites]
  /\ awaited \in [Rounds -> Nat]
  /\ covered \in [Rounds -> SUBSET Sites]
  /\ aborted \in [Rounds -> BOOLEAN]

Joins(r) ==
  /\ fetching[r] \intersect answered[r] = {}
  /\ awaited[r] = Cardinality(fetching[r]) + Cardinality(answered[r])
  /\ pc[r] # "join" => fetching[r] = {} /\ answered[r] = {}

(* In a visit, whoever is not left has been covered.                       *)
Covers(r) ==
  ~aborted[r] =>
    /\ phase[r] = "pages" /\ pc[r] \in {"visit", "join"} =>
         \A u \in Users \ BrokenPages : u \in left[r] \/ PagesOf[u] \subseteq covered[r]
    /\ phase[r] = "feeds" =>
         /\ \A u \in Users \ BrokenPages : PagesOf[u] \subseteq covered[r]
         /\ pc[r] \in {"visit", "join"} =>
              \A u \in Users \ BrokenFeeds : u \in left[r] \/ FeedsOf[u] \subseteq covered[r]
         /\ pc[r] \in {"gc", "idle"} =>
              \A u \in Users \ BrokenFeeds : FeedsOf[u] \subseteq covered[r]

IInv == Types /\ \A r \in Rounds : Joins(r) /\ Covers(r)

-----------------------------------------------------------------------------
LEMMA SubscribedPhase ==
  /\ Subscribed["pages"] = PagesOf
  /\ Subscribed["feeds"] = FeedsOf
  /\ Broken["pages"] = BrokenPages
  /\ Broken["feeds"] = BrokenFeeds
  BY DEF Subscribed, Broken

LEMMA SitesFinite ==
  ASSUME NEW S \in SUBSET Sites
  PROVE  IsFiniteSet(S) /\ Cardinality(S) \in Nat
  BY FS_Subset, FS_CardinalityType, LifecycleAssumption

(* Where the variables of the rounds stay, so does their part.             *)
LEMMA RoundsStay ==
  ASSUME IInv, UNCHANGED roundVars,
         main' \in {"open", "directive", "start", "services", "serving", "gc", "close", "return", "exited"},
         closed' \in BOOLEAN, ticking' \in BOOLEAN, tick' \in BOOLEAN
  PROVE  IInv'
  BY DEF IInv, Types, Joins, Covers, roundVars

(* A step of a round leaves the others alone.                              *)
LEMMA OtherRounds ==
  ASSUME IInv, NEW r \in Rounds, Types',
         \A s \in Rounds \ {r} :
           /\ pc'[s] = pc[s] /\ phase'[s] = phase[s] /\ left'[s] = left[s]
           /\ fetching'[s] = fetching[s] /\ answered'[s] = answered[s]
           /\ awaited'[s] = awaited[s] /\ covered'[s] = covered[s]
           /\ aborted'[s] = aborted[s],
         Joins(r)', Covers(r)'
  PROVE  IInv'
<1>1. ASSUME NEW s \in Rounds \ {r} PROVE Joins(s)' /\ Covers(s)'
  BY <1>1 DEF IInv, Joins, Covers
<1> QED BY <1>1 DEF IInv

LEMMA InitInv == Init => IInv
<1> SUFFICES ASSUME Init PROVE IInv
  OBVIOUS
<1>1. Types
  BY DEF Init, Types, Rounds
<1>2. ASSUME NEW r \in Rounds PROVE Joins(r) /\ Covers(r)
  BY FS_EmptySet DEF Init, Joins, Covers
<1> QED BY <1>1, <1>2 DEF IInv

LEMMA MainInv == IInv /\ (MainStep \/ Tick) => IInv'
<1> SUFFICES ASSUME IInv, MainStep \/ Tick PROVE IInv'
  OBVIOUS
<1>1. UNCHANGED roundVars /\ tick' \in BOOLEAN /\ ticking' \in BOOLEAN /\ closed' \in BOOLEAN
  BY DEF IInv, Types, MainStep, Tick, OpenFails, Serve, Directive, UnknownDirective,
     DirectiveEnds, DirectiveFatal, BadInterval, StartWorker, ServicesFail, ListenAndServe,
     StopServing, FinalGC, Close, Exit
<1>2. main' \in {"open", "directive", "start", "services", "serving", "gc", "close", "return", "exited"}
  BY DEF IInv, Types, MainStep, Tick, MainGoto, OpenFails, Serve, Directive, UnknownDirective,
     DirectiveEnds, DirectiveFatal, BadInterval, StartWorker, ServicesFail, ListenAndServe,
     StopServing, FinalGC, Close, Exit
<1> QED BY <1>1, <1>2, RoundsStay

LEMMA StartInv ==
  ASSUME IInv, NEW r \in Rounds, StartRound(r), tick' \in BOOLEAN
  PROVE  IInv'
<1>1. Types'
  BY DEF IInv, Types, StartRound, Goto
<1>2. Joins(r)' /\ Covers(r)'
  BY DEF IInv, Types, Joins, Covers, StartRound, Goto
<1> QED BY <1>1, <1>2, OtherRounds DEF IInv, Types, StartRound, Goto

(* The end of a phase.                                                     *)
LEMMA EndInv ==
  ASSUME IInv, NEW r \in Rounds, EndPhase(r), pc[r] \in {"users", "visit"},
         \/ UNCHANGED aborted /\ pc[r] = "visit" /\ left[r] = {}
         \/ aborted' = [aborted EXCEPT ![r] = TRUE]
  PROVE  IInv'
<1>1. Types'
  <2>1. AfterPhase(r) \in {"users", "gc", "idle"} /\ (r \in Handlers => AfterPhase(r) # "gc")
    BY LifecycleAssumption DEF AfterPhase
  <2> QED BY <2>1 DEF IInv, Types, EndPhase, Rounds
<1>2. Joins(r)'
  BY DEF IInv, Types, Joins, EndPhase, AfterPhase
<1>3. Covers(r)'
  BY DEF IInv, Types, Covers, EndPhase, AfterPhase
<1> QED BY <1>1, <1>2, <1>3, OtherRounds DEF IInv, Types, EndPhase

LEMMA VisitInv ==
  ASSUME IInv, NEW r \in Rounds, NEW u \in Users, VisitUser(r, u)
  PROVE  IInv'
<1> DEFINE S == Subscribed[phase[r]][u]
<1>1. S \subseteq Sites /\ phase[r] \in {"pages", "feeds"}
  BY SubscribedPhase, LifecycleAssumption DEF IInv, Types
<1>2. IsFiniteSet(S) /\ Cardinality(S) \in Nat
  BY <1>1, SitesFinite
<1>3. Types'
  BY <1>1, <1>2 DEF IInv, Types, VisitUser, StartFetches, Goto
<1>4. Joins(r)'
  <2>1. answered[r] = {} /\ Cardinality(answered[r]) = 0
    BY FS_EmptySet DEF IInv, Joins, VisitUser, StartFetches, Goto
  <2>2. /\ fetching'[r] = S /\ answered'[r] = answered[r]
        /\ awaited'[r] = Cardinality(S) /\ pc'[r] = "join"
    BY DEF IInv, Types, VisitUser, StartFetches, Goto
  <2> QED BY <1>2, <2>1, <2>2 DEF Joins
<1>5. Covers(r)'
  <2>1. CASE phase[r] = "pages"
    <3>1. S = PagesOf[u]
      BY <2>1, SubscribedPhase
    <3> QED BY <2>1, <3>1 DEF IInv, Types, Covers, VisitUser, StartFetches, Goto
  <2>2. CASE phase[r] = "feeds"
    <3>1. S = FeedsOf[u]
      BY <2>2, SubscribedPhase
    <3> QED BY <2>2, <3>1 DEF IInv, Types, Covers, VisitUser, StartFetches, Goto
  <2> QED BY <1>1, <2>1, <2>2
<1> QED BY <1>3, <1>4, <1>5, OtherRounds DEF IInv, Types, VisitUser, StartFetches, Goto

LEMMA AnswerInv ==
  ASSUME IInv, NEW r \in Rounds, NEW s \in Sites, Answer(r, s)
  PROVE  IInv'
<1>1. Types'
  BY DEF IInv, Types, Answer
<1>2. Joins(r)'
  <2>1. s \in fetching[r] /\ s \notin answered[r] /\ pc[r] = "join"
    BY DEF IInv, Joins, Answer
  <2>2. IsFiniteSet(fetching[r]) /\ IsFiniteSet(answered[r])
        /\ Cardinality(fetching[r]) \in Nat /\ Cardinality(answered[r]) \in Nat
    BY SitesFinite DEF IInv, Types
  <2>3. Cardinality(fetching[r] \ {s}) = Cardinality(fetching[r]) - 1
    BY <2>1, <2>2, FS_RemoveElement
  <2>4. Cardinality(answered[r] \union {s}) = Cardinality(answered[r]) + 1
    BY <2>1, <2>2, FS_AddElement
  <2>5. /\ fetching'[r] = fetching[r] \ {s}
        /\ answered'[r] = answered[r] \union {s}
        /\ awaited'[r] = awaited[r] /\ pc'[r] = pc[r]
    BY DEF IInv, Types, Answer
  <2> QED BY <2>1, <2>2, <2>3, <2>4, <2>5 DEF IInv, Joins
<1>3. Covers(r)'
  BY DEF IInv, Covers, Answer
<1> QED BY <1>1, <1>2, <1>3, OtherRounds DEF IInv, Types, Answer

LEMMA ReceiveInv ==
  ASSUME IInv, NEW r \in Rounds, NEW s \in Sites, Receive(r, s)
  PROVE  IInv'
<1>1. Types'
  BY DEF IInv, Types, Receive
<1>2. Joins(r)'
  <2>1. IsFiniteSet(answered[r]) /\ Cardinality(answered[r]) \in Nat /\ Cardinality(fetching[r]) \in Nat
    BY SitesFinite DEF IInv, Types
  <2>2. Cardinality(answered[r] \ {s}) = Cardinality(answered[r]) - 1
    BY <2>1, FS_RemoveElement DEF Receive
  <2>3. /\ answered'[r] = answered[r] \ {s}
        /\ awaited'[r] = awaited[r] - 1
        /\ fetching'[r] = fetching[r] /\ pc'[r] = "join"
    BY DEF IInv, Types, Receive
  <2> QED BY <2>1, <2>2, <2>3 DEF IInv, Joins
<1>3. Covers(r)'
  BY DEF IInv, Covers, Receive
<1> QED BY <1>1, <1>2, <1>3, OtherRounds DEF IInv, Types, Receive

LEMMA JoinedInv ==
  ASSUME IInv, NEW r \in Rounds, Joined(r)
  PROVE  IInv'
<1>1. Types'
  BY DEF IInv, Types, Joined, Goto
<1>2. Joins(r)'
  <2>1. /\ IsFiniteSet(fetching[r]) /\ Cardinality(fetching[r]) \in Nat
        /\ IsFiniteSet(answered[r]) /\ Cardinality(answered[r]) \in Nat
    BY SitesFinite DEF IInv, Types
  <2>2. Cardinality(fetching[r]) = 0 /\ Cardinality(answered[r]) = 0
    BY <2>1 DEF IInv, Joins, Joined
  <2>3. fetching[r] = {} /\ answered[r] = {}
    BY <2>1, <2>2, FS_EmptySet
  <2> QED BY <2>3 DEF IInv, Joins, Joined
<1>3. Covers(r)'
  BY DEF IInv, Types, Covers, Joined, Goto
<1> QED BY <1>1, <1>2, <1>3, OtherRounds DEF IInv, Types, Joined, Goto

LEMMA GetUsersInv ==
  ASSUME IInv, NEW r \in Rounds, GetUsers(r)
  PROVE  IInv'
<1>1. Types'
  BY DEF IInv, Types, GetUsers, Goto
<1>2. Joins(r)' /\ Covers(r)'
  BY DEF IInv, Types, Joins, Covers, GetUsers, Goto
<1> QED BY <1>1, <1>2, OtherRounds DEF IInv, Types, GetUsers, Goto

LEMMA SkipInv ==
  ASSUME IInv, NEW r \in Rounds, NEW u \in Users, SkipUser(r, u)
  PROVE  IInv'
<1>1. Types'
  BY DEF IInv, Types, SkipUser
<1>2. Joins(r)'
  BY DEF IInv, Types, Joins, SkipUser
<1>3. u \in Broken[phase[r]] /\ left'[r] = left[r] \ {u} /\ pc[r] = "visit"
      /\ UNCHANGED <<pc, phase, covered, aborted>>
  BY DEF IInv, Types, SkipUser
<1>4. Covers(r)'
  <2>1. CASE phase[r] = "pages"
    BY <1>3, <2>1, SubscribedPhase DEF IInv, Covers
  <2>2. CASE phase[r] = "feeds"
    BY <1>3, <2>2, SubscribedPhase DEF IInv, Covers
  <2> QED BY <2>1, <2>2 DEF IInv, Types
<1> QED BY <1>1, <1>2, <1>4, OtherRounds DEF IInv, Types, SkipUser

LEMMA TaskDoneInv == IInv /\ TaskDone => IInv'
<1> SUFFICES ASSUME IInv, TaskDone PROVE IInv'
  OBVIOUS
<1>0. Worker \in Rounds
  BY DEF Rounds
<1>1. Types'
  BY <1>0 DEF IInv, Types, TaskDone, Goto
<1>2. Joins(Worker)' /\ Covers(Worker)'
  BY <1>0 DEF IInv, Types, Joins, Covers, TaskDone, Goto
<1> QED BY <1>0, <1>1, <1>2, OtherRounds DEF IInv, Types, TaskDone, Goto

LEMMA RecoverInv ==
  ASSUME IInv, NEW h \in Handlers, RecoverPanic(h)
  PROVE  IInv'
<1>0. h \in Rounds /\ pc[h] \in {"visit", "users"}
  BY DEF Rounds, RecoverPanic, MayPanic, IInv, Types
<1>1. Types'
  BY <1>0 DEF IInv, Types, RecoverPanic
<1>2. Joins(h)' /\ Covers(h)'
  BY <1>0 DEF IInv, Types, Joins, Covers, RecoverPanic
<1> QED BY <1>0, <1>1, <1>2, OtherRounds DEF IInv, Types, RecoverPanic

LEMMA NextInv == IInv /\ [Next]_vars => IInv'
<1> SUFFICES ASSUME IInv, [Next]_vars PROVE IInv'
  OBVIOUS
<1>1. CASE MainStep \/ Tick
  BY <1>1, MainInv
<1>2. CASE StartTask
  BY <1>2, StartInv DEF StartTask, Rounds
<1>3. ASSUME NEW h \in Handlers, RequestRefresh(h) PROVE IInv'
  BY <1>3, StartInv DEF RequestRefresh, Rounds, IInv, Types
<1>4. ASSUME NEW h \in Handlers, RecoverPanic(h) PROVE IInv'
  BY <1>4, RecoverInv
<1>5. ASSUME NEW r \in Rounds, RoundStep(r) PROVE IInv'
  <2>1. CASE GetUsers(r)
    BY <2>1, GetUsersInv
  <2>2. CASE StoreFails(r)
    BY <2>2, EndInv DEF StoreFails
  <2>3. ASSUME NEW u \in Users, SkipUser(r, u) PROVE IInv'
    BY <2>3, SkipInv
  <2>4. ASSUME NEW u \in Users, VisitUser(r, u) PROVE IInv'
    BY <2>4, VisitInv
  <2>5. ASSUME NEW s \in Sites, Receive(r, s) PROVE IInv'
    BY <2>5, ReceiveInv
  <2>6. CASE Joined(r)
    BY <2>6, JoinedInv
  <2>7. CASE PhaseDone(r)
    BY <2>7, EndInv DEF PhaseDone
  <2> QED BY <1>5, <2>1, <2>2, <2>3, <2>4, <2>5, <2>6, <2>7 DEF RoundStep
<1>6. ASSUME NEW r \in Rounds, NEW s \in Sites, Answer(r, s) PROVE IInv'
  BY <1>6, AnswerInv
<1>7. CASE TaskDone
  BY <1>7, TaskDoneInv
<1>8. CASE Crash
  BY <1>8, RoundsStay DEF Crash, IInv, Types
<1>9. CASE UNCHANGED vars
  BY <1>9, RoundsStay DEF vars, roundVars, IInv, Types
<1> QED
  BY <1>1, <1>2, <1>3, <1>4, <1>5, <1>6, <1>7, <1>8, <1>9 DEF Next, Alive, Ended

LEMMA AlwaysIInv == Spec => []IInv
  BY InitInv, NextInv, PTL DEF Spec

-----------------------------------------------------------------------------
LEMMA AwaitedBound == IInv => \A r \in Rounds : awaited[r] \in 0..Cardinality(Sites)
<1> SUFFICES ASSUME IInv, NEW r \in Rounds PROVE awaited[r] \in 0..Cardinality(Sites)
  OBVIOUS
<1> DEFINE F == fetching[r]
           A == answered[r]
<1>1. F \subseteq Sites /\ A \subseteq Sites /\ F \intersect A = {}
      /\ awaited[r] = Cardinality(F) + Cardinality(A)
  BY DEF IInv, Types, Joins
<1> HIDE DEF F, A
<1>2. IsFiniteSet(F) /\ IsFiniteSet(A) /\ Cardinality(F) \in Nat /\ Cardinality(A) \in Nat
  BY <1>1, SitesFinite
<1>3. Cardinality(F \union A) = Cardinality(F) + Cardinality(A) - Cardinality(F \intersect A)
  BY <1>2, FS_Union
<1>4. Cardinality(F \union A) <= Cardinality(Sites) /\ Cardinality(Sites) \in Nat
  <2>1. F \union A \subseteq Sites
    BY <1>1
  <2> QED BY <2>1, FS_Subset, FS_CardinalityType, LifecycleAssumption
<1>5. Cardinality(F \intersect A) = 0
  BY <1>1, FS_EmptySet
<1> QED BY <1>1, <1>2, <1>3, <1>4, <1>5

(* Every variable keeps its type, and no more is awaited than there are    *)
(* sites.                                                                  *)
THEOREM LifecycleTypes == Spec => []TypeOK
<1>1. IInv => TypeOK
  BY AwaitedBound DEF IInv, Types, TypeOK
<1> QED BY <1>1, AlwaysIInv, PTL

(* No goroutine of FetchAllPages or FetchAllFeeds outlives the wait for    *)
(* it, and the round receives exactly what they send.                      *)
THEOREM RoundsAlwaysJoin == Spec => []RoundsJoin
<1>1. IInv => RoundsJoin
  BY DEF IInv, Joins, RoundsJoin
<1> QED BY <1>1, AlwaysIInv, PTL

(* A Refresh that met no error of the store has fetched every page and     *)
(* feed of every user whose own list of them is not broken.                *)
THEOREM RoundsCover == Spec => []RoundCovers
<1>1. IInv => RoundCovers
  BY DEF IInv, Covers, RoundCovers
<1> QED BY <1>1, AlwaysIInv, PTL
=============================================================================
