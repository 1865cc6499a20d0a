------------------------- MODULE PageMonitorProofs --------------------------
(***************************************************************************)
(* What PageMonitor keeps true for any number of fetches, users and texts. *)
(***************************************************************************)
EXTENDS PageMonitor, TLAPS

-----------------------------------------------------------------------------
(* Why ChangeIsUnread and DeltaChains hold.                                *)

(* Who has the page marked read, or will have once a request writes back   *)
(* the index that it has read.                                             *)
Marked == read \union {u \in Users : \E r \in Requests : WritesBack(r, u)}

(* From when a fetch has found a change until it has saved it, whoever has *)
(* the page marked, or will have, is still to be visited, or has marked it *)
(* since, or had the mark in an index that somebody was writing when it    *)
(* was removed; a fetch that found nothing new saves its copy.             *)
UnmarkInv ==
  \A f \in Fetchers :
    /\ pc[f] = "unmark" => Marked \subseteq since[f] \union overlapped[f] \union unvisited[f]
    /\ pc[f] = "put" /\ new[f] # copy[f] => Marked \subseteq since[f] \union overlapped[f]
    /\ pc[f] = "compare" => new[f] = copy[f]
    /\ pc[f] \in {"unmark", "compare", "put"} => new[f] # NoPage

(* What a fetch is about to save follows on what it copied.                *)
CopyInv ==
  \A f \in Fetchers :
    pc[f] \in {"unmark", "put"} /\ new[f] # copy[f] => Chains(copy[f], new[f])

-----------------------------------------------------------------------------
(* What a fetch makes of a text that changed.                              *)
ChangedTo(f) == [contents |-> site,
                 delta |-> <<Filter[Contents(copy[f])], Filter[site]>>,
                 updated |-> found + 1]

(* It is a page, and the fetch takes it for the one to save.               *)
LEMMA ChangedPage ==
  ASSUME TypeOK, NEW f \in Fetchers, GetChanged(f)
  PROVE  /\ ChangedTo(f) \in Pages
         /\ new' = [new EXCEPT ![f] = ChangedTo(f)]
<1>1. Contents(copy[f]) \in Texts
  BY PageAssumption DEF TypeOK, Contents, Pages
<1>2. site \in Texts
  BY DEF TypeOK, GetChanged
<1>3. ChangedTo(f) \in Pages
  BY <1>1, <1>2, PageAssumption DEF TypeOK, Pages, ChangedTo
<1> QED
  BY <1>3 DEF GetChanged, ChangedTo

(* Every step keeps every variable in its type.                            *)
LEMMA TypeStep == TypeOK /\ [Next]_vars => TypeOK'
<1> SUFFICES ASSUME TypeOK, [Next]_vars
             PROVE  TypeOK'
  OBVIOUS
<1> USE PageAssumption DEF TypeOK, Pages, siteVars, fetchVars, userVars, history
<1>1. ASSUME NEW t \in Texts \union {Down}, ChangeSite(t)
      PROVE  TypeOK'
  BY <1>1 DEF ChangeSite
<1>2. ASSUME NEW f \in Fetchers, StartFetch(f)
      PROVE  TypeOK'
  BY <1>2 DEF StartFetch, Goto, PagePCs
<1>3. ASSUME NEW f \in Fetchers, GetFails(f)
      PROVE  TypeOK'
  BY <1>3 DEF GetFails, Return, Goto, PagePCs
<1>4. ASSUME NEW f \in Fetchers, GetSame(f)
      PROVE  TypeOK'
  BY <1>4 DEF GetSame, Goto, PagePCs
<1>5. ASSUME NEW f \in Fetchers, GetSameNoPage(f)
      PROVE  TypeOK'
  BY <1>5 DEF GetSameNoPage, Goto, PagePCs
<1>6. ASSUME NEW f \in Fetchers, GetChanged(f)
      PROVE  TypeOK'
  <2> HIDE DEF TypeOK, Pages
  <2>1. ChangedTo(f) \in Pages /\ new' = [new EXCEPT ![f] = ChangedTo(f)]
    BY <1>6, ChangedPage
  <2>2. new' \in [Fetchers -> Pages \union {NoPage}]
    BY <2>1 DEF TypeOK
  <2> QED
    BY <1>6, <2>2 DEF TypeOK, GetChanged, Goto, PagePCs
<1>7. ASSUME NEW f \in Fetchers, NEW u \in Users, UnmarkUser(f, u)
      PROVE  TypeOK'
  BY <1>7 DEF UnmarkUser, Goto, PagePCs
<1>8. ASSUME NEW f \in Fetchers, UsersUnmarked(f)
      PROVE  TypeOK'
  BY <1>8 DEF UsersUnmarked, Goto, PagePCs
<1>9. ASSUME NEW f \in Fetchers, CompareEqual(f)
      PROVE  TypeOK'
  BY <1>9 DEF CompareEqual, Return, Goto, PagePCs
<1>10. ASSUME NEW f \in Fetchers, CompareDiffers(f)
       PROVE  TypeOK'
  BY <1>10 DEF CompareDiffers, Goto, PagePCs
<1>11. ASSUME NEW f \in Fetchers, PutPage(f)
       PROVE  TypeOK'
  BY <1>11 DEF PutPage, Return, Goto, PagePCs
<1>12. ASSUME NEW r \in Requests, RequestStep(r)
       PROVE  TypeOK'
  <2>1. UNCHANGED <<site, changes, page, alive, fetchVars>>
    BY <1>12 DEF RequestStep, OpenPage, AlreadyMarked, ReadIndex, PutMark, ReadForOther, PutOther
  <2>2. rpc' \in [Requests -> RequestPCs]
    BY <1>12 DEF RequestStep, OpenPage, AlreadyMarked, ReadIndex, PutMark, ReadForOther, PutOther,
                 Step, RequestPCs
  <2>3. user' \in [Requests -> Users]
    BY <1>12 DEF RequestStep, OpenPage, AlreadyMarked, ReadIndex, PutMark, ReadForOther, PutOther
  <2>4. snap' \in SUBSET Requests
    BY <1>12 DEF RequestStep, OpenPage, AlreadyMarked, ReadIndex, PutMark, ReadForOther, PutOther
  <2>5. read' \in SUBSET Users
    BY <1>12 DEF RequestStep, OpenPage, AlreadyMarked, ReadIndex, PutMark, ReadForOther, PutOther
  <2>6. since' \in [Fetchers -> SUBSET Users] /\ UNCHANGED overlapped
    BY <1>12 DEF RequestStep, OpenPage, AlreadyMarked, ReadIndex, PutMark, ReadForOther, PutOther
  <2> QED
    BY <2>1, <2>2, <2>3, <2>4, <2>5, <2>6
<1>14. ASSUME NEW u \in Users, MarkUnread(u)
       PROVE  TypeOK'
  BY <1>14 DEF MarkUnread
<1>13. CASE UNCHANGED vars
  BY <1>13 DEF vars
<1> QED
  BY <1>1, <1>2, <1>3, <1>4, <1>5, <1>6, <1>7, <1>8, <1>9, <1>10, <1>11, <1>12, <1>13, <1>14
     DEF Next, FetchStep

(* TypeOK holds for any number of fetches, users and texts: FetchPage      *)
(* stores nothing but a text that the site had.                            *)
THEOREM PageTypes == Spec => []TypeOK
<1>1. Init => TypeOK
  BY PageAssumption DEF Init, TypeOK, PagePCs, RequestPCs
<1> QED
  BY <1>1, TypeStep, PTL DEF Spec

-----------------------------------------------------------------------------
(* Unmarking.  ChangeIsUnread speaks of the moment of the write; UnmarkInv *)
(* adds how far SetReadStatusForAll has come, the indexes that requests    *)
(* have read and not written back yet, and that a fetch that found nothing *)
(* is not mistaken for one that did.                                       *)

(* A step that leaves the fetches alone and adds no mark keeps UnmarkInv.  *)
LEMMA MarksKeep ==
  ASSUME UnmarkInv, UNCHANGED <<pc, copy, new, unvisited, since, overlapped>>, Marked' \subseteq Marked
  PROVE  UnmarkInv'
BY DEF UnmarkInv

(* Every step of a fetch or of a request keeps UnmarkInv.                  *)
LEMMA UnmarkStep == TypeOK /\ UnmarkInv /\ [Next]_vars => UnmarkInv'
<1> SUFFICES ASSUME TypeOK, UnmarkInv, [Next]_vars
             PROVE  UnmarkInv'
  OBVIOUS
<1> USE DEF TypeOK, siteVars, fetchVars, userVars, history
<1>1. ASSUME UNCHANGED <<read, userVars>>
      PROVE  Marked' = Marked
  BY <1>1 DEF Marked, WritesBack
<1>2. ASSUME NEW f \in Fetchers, StartFetch(f)
      PROVE  UnmarkInv'
  BY <1>1, <1>2 DEF StartFetch, Goto, UnmarkInv
<1>3. ASSUME NEW f \in Fetchers, GetFails(f) \/ CompareEqual(f) \/ PutPage(f)
      PROVE  UnmarkInv'
  BY <1>1, <1>3 DEF GetFails, CompareEqual, PutPage, Return, Goto, UnmarkInv
<1>4. ASSUME NEW f \in Fetchers, GetSame(f)
      PROVE  UnmarkInv'
  BY <1>1, <1>4 DEF GetSame, Goto, UnmarkInv
<1>5. ASSUME NEW f \in Fetchers, GetSameNoPage(f)
      PROVE  UnmarkInv'
  BY <1>1, <1>5 DEF GetSameNoPage, Goto, UnmarkInv
<1>6. ASSUME NEW f \in Fetchers, GetChanged(f)
      PROVE  UnmarkInv'
  <2>1. new' = [new EXCEPT ![f] = ChangedTo(f)] /\ ChangedTo(f) # NoPage
    BY <1>6, ChangedPage, PageAssumption
  <2>2. new'[f] # NoPage
    BY <2>1
  <2>3. /\ unvisited' = [unvisited EXCEPT ![f] = Users]
        /\ pc' = [pc EXCEPT ![f] = "unmark"]
        /\ UNCHANGED <<copy, since, overlapped>>
        /\ \A g \in Fetchers \ {f} : new'[g] = new[g]
    BY <1>6, <2>1 DEF GetChanged, Goto
  <2>4. Marked' = Marked /\ Marked \subseteq Users
    BY <1>1, <1>6 DEF GetChanged, Marked
  <2> QED
    BY <2>2, <2>3, <2>4 DEF UnmarkInv
<1>7. ASSUME NEW f \in Fetchers, NEW u \in Users, UnmarkUser(f, u)
      PROVE  UnmarkInv'
  <2>1. Marked' \subseteq Marked
    BY <1>7 DEF UnmarkUser, Marked, WritesBack
  <2>2. u \notin Marked' \/ u \in overlapped'[f]
    BY <1>7 DEF UnmarkUser, Marked, WritesBack
  <2>3. /\ UNCHANGED <<pc, copy, new, since>>
        /\ unvisited' = [unvisited EXCEPT ![f] = @ \ {u}]
        /\ \A g \in Fetchers : overlapped[g] \subseteq overlapped'[g]
    BY <1>7 DEF UnmarkUser, Goto
  <2> QED
    BY <2>1, <2>2, <2>3 DEF UnmarkInv
<1>8. ASSUME NEW f \in Fetchers, UsersUnmarked(f)
      PROVE  UnmarkInv'
  BY <1>1, <1>8 DEF UsersUnmarked, Goto, UnmarkInv
<1>9. ASSUME NEW f \in Fetchers, CompareDiffers(f)
      PROVE  UnmarkInv'
  BY <1>1, <1>9 DEF CompareDiffers, Goto, UnmarkInv
<1>10. ASSUME NEW r \in Requests, RequestStep(r)
       PROVE  UnmarkInv'
  <2>1. CASE PutMark(r)
    <3>1. Marked' \subseteq Marked \union {user[r]}
      BY <2>1 DEF PutMark, Step, Marked, WritesBack
    <3>2. since' = [f \in Fetchers |-> since[f] \union {user[r]}]
      BY <2>1 DEF PutMark
    <3>3. UNCHANGED <<pc, copy, new, unvisited, overlapped>>
      BY <2>1 DEF PutMark
    <3> HIDE DEF TypeOK
    <3> QED
      BY <3>1, <3>2, <3>3 DEF UnmarkInv
  <2>2. CASE PutOther(r)
    <3>1. Marked' \subseteq Marked
      BY <2>2 DEF PutOther, Step, Marked, WritesBack
    <3> QED
      BY <2>2, <3>1, MarksKeep DEF PutOther
  <2>3. CASE \E u \in Users : ReadForOther(r, u)
    <3>1. PICK u \in Users : ReadForOther(r, u)
      BY <2>3
    <3>2. Marked' \subseteq Marked
      BY <3>1 DEF ReadForOther, Step, Marked, WritesBack
    <3>3. UNCHANGED <<pc, copy, new, unvisited, since, overlapped>>
      BY <3>1 DEF ReadForOther
    <3> QED
      BY <3>2, <3>3, MarksKeep
  <2>4. CASE (\E u \in Users : OpenPage(r, u)) \/ AlreadyMarked(r) \/ ReadIndex(r)
    <3>1. Marked' \subseteq Marked
      BY <2>4 DEF OpenPage, AlreadyMarked, ReadIndex, Step, Marked, WritesBack
    <3> QED
      BY <2>4, <3>1, MarksKeep DEF OpenPage, AlreadyMarked, ReadIndex
  <2> QED
    BY <1>10, <2>1, <2>2, <2>3, <2>4 DEF RequestStep
<1>11. ASSUME NEW u \in Users, MarkUnread(u)
       PROVE  UnmarkInv'
  <2>1. Marked' \subseteq Marked
    BY <1>11 DEF MarkUnread, Marked, WritesBack
  <2> QED
    BY <1>11, <2>1, MarksKeep DEF MarkUnread
<1>12. ASSUME NEW t \in Texts \union {Down}, ChangeSite(t)
       PROVE  UnmarkInv'
  BY <1>1, <1>12 DEF ChangeSite, UnmarkInv
<1>13. CASE UNCHANGED vars
  BY <1>1, <1>13 DEF vars, UnmarkInv
<1> QED
  BY <1>2, <1>3, <1>4, <1>5, <1>6, <1>7, <1>8, <1>9, <1>10, <1>11, <1>12, <1>13
     DEF Next, FetchStep

(* At the moment of the write, the marks are where UnmarkInv says.         *)
LEMMA UnmarkedIsUnread == UnmarkInv => ChangeIsUnread
BY DEF UnmarkInv, ChangeIsUnread, Marked

(* When a changed page is saved, who has it marked read has marked it      *)
(* since the fetch began, or had the mark in an index that another call    *)
(* was half-way through writing, for any number of concurrent fetches and  *)
(* requests.                                                               *)
THEOREM ChangesAreUnread == Spec => []ChangeIsUnread
<1>1. Init => TypeOK /\ UnmarkInv
  BY PageAssumption DEF Init, TypeOK, PagePCs, RequestPCs, UnmarkInv
<1>2. TypeOK /\ UnmarkInv /\ [Next]_vars => (TypeOK /\ UnmarkInv)'
  BY TypeStep, UnmarkStep
<1> QED
  BY <1>1, <1>2, UnmarkedIsUnread, PTL DEF Spec

-----------------------------------------------------------------------------
(* Chaining: what a fetch is about to save follows on its copy.            *)
LEMMA CopyStep == TypeOK /\ UnmarkInv /\ CopyInv /\ [Next]_vars => CopyInv'
<1> SUFFICES ASSUME TypeOK, UnmarkInv, CopyInv, [Next]_vars
             PROVE  CopyInv'
  OBVIOUS
<1> USE DEF TypeOK, CopyInv, Chains, Contents, siteVars, fetchVars, userVars, history
<1>1. ASSUME NEW f \in Fetchers, StartFetch(f)
      PROVE  CopyInv'
  BY <1>1 DEF StartFetch, Goto
<1>2. ASSUME NEW f \in Fetchers, GetFails(f) \/ CompareEqual(f) \/ PutPage(f)
      PROVE  CopyInv'
  BY <1>2 DEF GetFails, CompareEqual, PutPage, Return, Goto
<1>3. ASSUME NEW f \in Fetchers, GetSame(f) \/ GetSameNoPage(f)
      PROVE  CopyInv'
  BY <1>3 DEF GetSame, GetSameNoPage, Goto
<1>4. ASSUME NEW f \in Fetchers, GetChanged(f)
      PROVE  CopyInv'
  <2>1. Chains(copy[f], ChangedTo(f))
    BY <1>4 DEF GetChanged, SameText, ChangedTo
  <2>2. new' = [new EXCEPT ![f] = ChangedTo(f)]
    BY <1>4, ChangedPage
  <2>3. pc' = [pc EXCEPT ![f] = "unmark"] /\ UNCHANGED copy
    BY <1>4 DEF GetChanged, Goto
  <2> HIDE DEF Chains, Contents
  <2> QED
    BY <2>1, <2>2, <2>3
<1>5. ASSUME NEW f \in Fetchers, \/ \E u \in Users : UnmarkUser(f, u)
                                \/ UsersUnmarked(f)
      PROVE  CopyInv'
  BY <1>5 DEF UnmarkUser, UsersUnmarked, Goto
<1>6. ASSUME NEW f \in Fetchers, CompareDiffers(f)
      PROVE  CopyInv'
  BY <1>6 DEF CompareDiffers, Goto, UnmarkInv
<1>7. ASSUME NEW t \in Texts \union {Down}, ChangeSite(t)
      PROVE  CopyInv'
  BY <1>7 DEF ChangeSite
<1>8. ASSUME \/ \E r \in Requests : RequestStep(r)
             \/ \E u \in Users : MarkUnread(u)
      PROVE  CopyInv'
  BY <1>8 DEF RequestStep, OpenPage, AlreadyMarked, ReadIndex, PutMark, ReadForOther, PutOther,
              MarkUnread
<1>9. CASE UNCHANGED vars
  BY <1>9 DEF vars
<1> QED
  BY <1>1, <1>2, <1>3, <1>4, <1>5, <1>6, <1>7, <1>8, <1>9 DEF Next, FetchStep

Inv == TypeOK /\ UnmarkInv /\ CopyInv

(* The three parts are kept together.                                      *)
LEMMA Invariance ==
  /\ Init => Inv
  /\ Inv /\ [Next]_vars => Inv'
<1>1. Init => Inv
  BY PageAssumption DEF Init, Inv, TypeOK, PagePCs, RequestPCs, UnmarkInv, CopyInv
<1>2. Inv /\ [Next]_vars => Inv'
  BY TypeStep, UnmarkStep, CopyStep DEF Inv
<1> QED
  BY <1>1, <1>2

(* While users are being unmarked, whoever has the page marked, or will    *)
(* have once a request writes back what it has read, is still to be        *)
(* visited, has marked it since, or was overlapped.                        *)
THEOREM UnmarkingProceeds == Spec => []UnmarkInv
<1>1. Inv => UnmarkInv
  BY DEF Inv
<1> QED
  BY <1>1, Invariance, PTL DEF Spec

(* What a fetch is about to save follows on the page that it has copied.   *)
THEOREM CopiesChain == Spec => []CopyInv
<1>1. Inv => CopyInv
  BY DEF Inv
<1> QED
  BY <1>1, Invariance, PTL DEF Spec

(* Nothing but PutPage changes the stored page.                            *)
LEMMA PageChange ==
  ASSUME Inv, [Next]_vars, page' # page
  PROVE  \E f \in Fetchers : /\ pc[f] = "put" /\ page' = new[f]
                            /\ \A g \in Fetchers \ {f} : pc'[g] = pc[g]
<1>1. PICK f \in Fetchers : PutPage(f)
  BY DEF Next, FetchStep, ChangeSite, StartFetch, GetFails, GetSame, GetSameNoPage, GetChanged,
         UnmarkUser, UsersUnmarked, CompareEqual, CompareDiffers, RequestStep, OpenPage,
         AlreadyMarked, ReadIndex, PutMark, ReadForOther, PutOther, MarkUnread,
         siteVars, fetchVars, userVars, vars
<1> QED
  BY <1>1 DEF Inv, TypeOK, PutPage, Return, Goto

(* A delta chains to the page its fetch has copied, if that page is still  *)
(* the one stored, for any number of concurrent fetches.                   *)
THEOREM DeltasChain == Spec => DeltaChains
<1>1. Inv /\ [Next]_vars =>
        \A f \in Fetchers :
          pc[f] = "put" /\ pc'[f] = "idle" /\ copy[f] = page /\ page' # page => Chains(page, page')
  <2> SUFFICES ASSUME Inv, [Next]_vars, NEW f \in Fetchers,
                      pc[f] = "put", pc'[f] = "idle", copy[f] = page, page' # page
               PROVE  Chains(page, page')
    OBVIOUS
  <2>1. PICK g \in Fetchers : /\ pc[g] = "put" /\ page' = new[g]
                             /\ \A h \in Fetchers \ {g} : pc'[h] = pc[h]
    BY PageChange
  <2>2. g = f
    BY <2>1
  <2> QED
    BY <2>1, <2>2 DEF Inv, CopyInv
<1> QED
  BY <1>1, Invariance, PTL DEF Spec, DeltaChains
=============================================================================
