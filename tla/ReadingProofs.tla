---------------------------- MODULE ReadingProofs ---------------------------
(***************************************************************************)
(* What Reading keeps true for any feeds, pages, texts and answers: no URL *)
(* leads to another item, the list shows what was read, what was fetched   *)
(* is listed, and what is the same is not written again.                   *)
(***************************************************************************)
EXTENDS Reading, SequenceTheorems, WellFoundedInduction, TLAPS

AllKeys == FeedKeys \union PageKeys
Parts == Texts \union {"feed", "pagemonitor"}

-----------------------------------------------------------------------------
(* Sequences of one part each, put together.                               *)

LEMMA TwoParts ==
  ASSUME NEW a \in Parts, NEW b \in Parts
  PROVE  <<a>> \o <<b>> = <<a, b>>
<1> DEFINE u == <<a>> \o <<b>>
<1>1. /\ u \in Seq(Parts) /\ <<a, b>> \in Seq(Parts)
      /\ Len(u) = 2 /\ Len(<<a, b>>) = 2
  OBVIOUS
<1>2. u[1] = a
  OBVIOUS
<1>3. u[2] = b
  OBVIOUS
<1> HIDE DEF u
<1>4. ASSUME NEW n \in 1..Len(u)
      PROVE  u[n] = <<a, b>>[n]
  <2>1. n = 1 \/ n = 2
    BY <1>1
  <2> QED
    BY <1>2, <1>3, <2>1
<1>5. u = <<a, b>>
  BY <1>1, <1>4, SeqEqual
<1> QED
  BY <1>5 DEF u

LEMMA ThreeParts ==
  ASSUME NEW a \in Parts, NEW b \in Parts, NEW c \in Parts
  PROVE  <<a>> \o <<b>> \o <<c>> = <<a, b, c>>
<1> DEFINE u == <<a, b>> \o <<c>>
<1>1. /\ u \in Seq(Parts) /\ <<a, b, c>> \in Seq(Parts)
      /\ Len(u) = 3 /\ Len(<<a, b, c>>) = 3
  OBVIOUS
<1>2. u[1] = a /\ u[2] = b
  OBVIOUS
<1>3. u[3] = c
  OBVIOUS
<1> HIDE DEF u
<1>4. ASSUME NEW n \in 1..Len(u)
      PROVE  u[n] = <<a, b, c>>[n]
  <2>1. n = 1 \/ n = 2 \/ n = 3
    BY <1>1
  <2> QED
    BY <1>2, <1>3, <2>1
<1>5. u = <<a, b, c>>
  BY <1>1, <1>4, SeqEqual
<1> QED
  BY <1>5, TwoParts DEF u

LEMMA FourParts ==
  ASSUME NEW a \in Parts, NEW b \in Parts, NEW c \in Parts, NEW d \in Parts
  PROVE  <<a>> \o <<b>> \o <<c>> \o <<d>> = <<a, b, c, d>>
<1> DEFINE u == <<a, b, c>> \o <<d>>
<1>1. /\ u \in Seq(Parts) /\ <<a, b, c, d>> \in Seq(Parts)
      /\ Len(u) = 4 /\ Len(<<a, b, c, d>>) = 4
  OBVIOUS
<1>2. u[1] = a /\ u[2] = b /\ u[3] = c
  OBVIOUS
<1>3. u[4] = d
  OBVIOUS
<1> HIDE DEF u
<1>4. ASSUME NEW n \in 1..Len(u)
      PROVE  u[n] = <<a, b, c, d>>[n]
  <2>1. n = 1 \/ n = 2 \/ n = 3 \/ n = 4
    BY <1>1
  <2> QED
    BY <1>2, <1>3, <2>1
<1>5. u = <<a, b, c, d>>
  BY <1>1, <1>4, SeqEqual
<1> QED
  BY <1>5, ThreeParts DEF u

-----------------------------------------------------------------------------
(* A key and its URL.  The URL is the key exactly if it has as many parts; *)
(* a - in a part makes more of them, never fewer.                          *)

LEMMA SplitParts ==
  ASSUME NEW t \in Texts
  PROVE  /\ Split[t] \in Seq(Parts)
         /\ Len(Split[t]) \in Nat \ {0}
         /\ Len(Split[t]) = 1 => Split[t] = <<t>>
<1>1. Split[t] \in Seq(Texts) \ {<<>>}
  BY ReadingAssumption
<1>2. Split[t] \in Seq(Parts)
  BY <1>1 DEF Parts
<1> QED
  BY <1>1, <1>2, ReadingAssumption

LEMMA FeedURL ==
  ASSUME NEW f \in Feeds, NEW guid \in Texts
  PROVE  /\ EscapeKey(FeedKey(f, guid))[1] = "feed"
         /\ Len(EscapeKey(FeedKey(f, guid))) = 3
              => EscapeKey(FeedKey(f, guid)) = FeedKey(f, guid)
         /\ Plain(FeedKey(f, guid)) => EscapeKey(FeedKey(f, guid)) = FeedKey(f, guid)
<1> DEFINE k == FeedKey(f, guid)
           u == EscapeKey(k)
           s == Split[f]
           t == Split[guid]
<1>1. f \in Texts
  BY ReadingAssumption
<1>2. /\ s \in Seq(Parts) /\ Len(s) \in Nat \ {0} /\ (Len(s) = 1 => s = <<f>>)
      /\ t \in Seq(Parts) /\ Len(t) \in Nat \ {0} /\ (Len(t) = 1 => t = <<guid>>)
  BY <1>1, SplitParts
<1>3. k[1] = "feed" /\ k[2] = f /\ k[3] = guid /\ Len(k) = 3
  BY DEF FeedKey
<1>4. u = <<"feed">> \o s \o t
  BY <1>3 DEF EscapeKey
<1>5. "feed" \in Parts /\ <<"feed">> \in Seq(Parts) /\ f \in Parts /\ guid \in Parts
  BY <1>1 DEF Parts
<1>6. Plain(k) => Len(s) = 1 /\ Len(t) = 1
  BY <1>3 DEF Plain
<1> HIDE DEF s, t, u
<1>7. u[1] = "feed" /\ Len(u) = 1 + Len(s) + Len(t)
  BY <1>2, <1>4, <1>5
<1>8. ASSUME Len(s) = 1, Len(t) = 1
      PROVE  u = k
  <2>1. s = <<f>> /\ t = <<guid>>
    BY <1>2, <1>8
  <2> QED
    BY <1>4, <1>5, <2>1, ThreeParts DEF FeedKey
<1>9. Len(u) = 3 => Len(s) = 1 /\ Len(t) = 1
  <2>1. \A m, n \in Nat \ {0} : 1 + m + n = 3 => m = 1 /\ n = 1
    OBVIOUS
  <2> QED
    BY <1>2, <1>7, <2>1, Zenon
<1> QED
  BY <1>6, <1>7, <1>8, <1>9 DEF u

LEMMA PageURL ==
  ASSUME NEW p \in Pages
  PROVE  /\ EscapeKey(PageKey(p))[1] = "pagemonitor"
         /\ Len(EscapeKey(PageKey(p))) = 4 => EscapeKey(PageKey(p)) = PageKey(p)
         /\ Plain(PageKey(p)) => EscapeKey(PageKey(p)) = PageKey(p)
<1> DEFINE k == PageKey(p)
           u == EscapeKey(k)
           r == Split[p[1]]
           s == Split[p[2]]
           t == Split[p[3]]
<1>1. p[1] \in Texts /\ p[2] \in Texts /\ p[3] \in Texts
  BY ReadingAssumption
<1>2. /\ r \in Seq(Parts) /\ Len(r) \in Nat \ {0} /\ (Len(r) = 1 => r = <<p[1]>>)
      /\ s \in Seq(Parts) /\ Len(s) \in Nat \ {0} /\ (Len(s) = 1 => s = <<p[2]>>)
      /\ t \in Seq(Parts) /\ Len(t) \in Nat \ {0} /\ (Len(t) = 1 => t = <<p[3]>>)
  BY <1>1, SplitParts
<1>3. k[1] = "pagemonitor" /\ k[2] = p[1] /\ k[3] = p[2] /\ k[4] = p[3] /\ Len(k) = 4
  BY DEF PageKey
<1>4. u = <<"pagemonitor">> \o r \o s \o t
  BY <1>3 DEF EscapeKey
<1>5. /\ "pagemonitor" \in Parts /\ <<"pagemonitor">> \in Seq(Parts)
      /\ p[1] \in Parts /\ p[2] \in Parts /\ p[3] \in Parts
  BY <1>1 DEF Parts
<1>6. Plain(k) => Len(r) = 1 /\ Len(s) = 1 /\ Len(t) = 1
  BY <1>3 DEF Plain
<1> HIDE DEF r, s, t, u
<1>7. u[1] = "pagemonitor" /\ Len(u) = 1 + Len(r) + Len(s) + Len(t)
  BY <1>2, <1>4, <1>5
<1>8. ASSUME Len(r) = 1, Len(s) = 1, Len(t) = 1
      PROVE  u = k
  <2>1. r = <<p[1]>> /\ s = <<p[2]>> /\ t = <<p[3]>>
    BY <1>2, <1>8
  <2> QED
    BY <1>4, <1>5, <2>1, FourParts DEF PageKey
<1>9. Len(u) = 4 => Len(r) = 1 /\ Len(s) = 1 /\ Len(t) = 1
  <2>1. \A l, m, n \in Nat \ {0} : 1 + l + m + n = 4 => l = 1 /\ m = 1 /\ n = 1
    OBVIOUS
  <2> QED
    BY <1>2, <1>7, <2>1, Zenon
<1> QED
  BY <1>6, <1>7, <1>8, <1>9 DEF u

(* What a URL decodes to is the key it was made of, and a URL that is a    *)
(* key is that one.                                                        *)
LEMMA KeyURL ==
  ASSUME NEW k \in AllKeys
  PROVE  /\ DecodeKey(EscapeKey(k)) # None => DecodeKey(EscapeKey(k)) = k /\ EscapeKey(k) = k
         /\ EscapeKey(k) \in AllKeys => EscapeKey(k) = k
         /\ Plain(k) => DecodeKey(EscapeKey(k)) = k
<1>1. ASSUME NEW j \in FeedKeys
      PROVE  j[1] = "feed" /\ Len(j) = 3 /\ DecodeKey(j) = j
  BY DEF FeedKeys, FeedKey, DecodeKey, DecodeFeeditemKey
<1>2. ASSUME NEW j \in PageKeys
      PROVE  j[1] = "pagemonitor" /\ Len(j) = 4 /\ DecodeKey(j) = j
  BY DEF PageKeys, PageKey, DecodeKey, DecodePagemonitorKey
<1>3. CASE k \in FeedKeys
  <2>1. /\ EscapeKey(k)[1] = "feed"
        /\ Len(EscapeKey(k)) = 3 => EscapeKey(k) = k
        /\ Plain(k) => EscapeKey(k) = k
    BY <1>3, FeedURL DEF FeedKeys
  <2>2. Len(EscapeKey(k)) # 3 => DecodeKey(EscapeKey(k)) = None
    BY <2>1 DEF DecodeKey, DecodeFeeditemKey
  <2> QED
    BY <1>1, <1>2, <1>3, <2>1, <2>2 DEF AllKeys
<1>4. CASE k \in PageKeys
  <2>1. /\ EscapeKey(k)[1] = "pagemonitor"
        /\ Len(EscapeKey(k)) = 4 => EscapeKey(k) = k
        /\ Plain(k) => EscapeKey(k) = k
    BY <1>4, PageURL DEF PageKeys
  <2>2. Len(EscapeKey(k)) # 4 => DecodeKey(EscapeKey(k)) = None
    BY <2>1 DEF DecodeKey, DecodePagemonitorKey
  <2> QED
    BY <1>1, <1>2, <1>4, <2>1, <2>2 DEF AllKeys
<1> QED
  BY <1>3, <1>4 DEF AllKeys

-----------------------------------------------------------------------------
(* What holds in every state.  A mark is of an item whose URL is its key,  *)
(* because only such an item is found; so the POST that removes a mark by  *)
(* its URL removes the mark of the item that was read, or none.            *)

ListInv == \A e \in list : e.key \in AllKeys /\ e.url = EscapeKey(e.key)

MarksInv ==
  /\ reader = marks
  /\ \A k \in marks : k \in AllKeys /\ EscapeKey(k) = k

OpenedInv ==
  /\ opened.found \in AllKeys \union {None}
  /\ OpensWhatIsAsked

ReadInv ==
  /\ watched \subseteq Pages
  /\ ListInv
  /\ MarksInv
  /\ OpenedInv

LEMMA ReadInit == Init => ReadInv
  BY DEF Init, ReadInv, ListInv, MarksInv, OpenedInv, OpensWhatIsAsked, Nothing

LEMMA ListedKeys ==
  ASSUME watched \subseteq Pages, NEW e \in GetAllItems
  PROVE  e.key \in AllKeys /\ e.url = EscapeKey(e.key) /\ e.read = (e.key \in marks)
<1>1. PICK k \in GetFeeditems \union GetPages : e = Entry(k)
  BY DEF GetAllItems
<1>2. k \in AllKeys
  BY <1>1 DEF GetFeeditems, GetPages, AllKeys, PageKeys
<1> QED
  BY <1>1, <1>2 DEF Entry

LEMMA ReadStep == ReadInv /\ [Next]_vars => ReadInv'
<1> SUFFICES ASSUME ReadInv, [Next]_vars
             PROVE  ReadInv'
  OBVIOUS
<1> USE DEF ReadInv
<1>1. CASE Tick
  BY <1>1 DEF Tick, settings, ListInv, MarksInv, OpenedInv, OpensWhatIsAsked
<1>2. ASSUME NEW f \in Feeds, NEW a \in Answers, FetchFeed(f, a)
      PROVE  ReadInv'
  BY <1>2 DEF FetchFeed, settings, ListInv, MarksInv, OpenedInv, OpensWhatIsAsked
<1>3. ASSUME NEW p \in watched, FetchPage(p)
      PROVE  ReadInv'
  BY <1>3 DEF FetchPage, settings, ListInv, MarksInv, OpenedInv, OpensWhatIsAsked
<1>4. ASSUME NEW f \in Feeds, CollectFeed(f)
      PROVE  ReadInv'
  BY <1>4 DEF CollectFeed, settings, ListInv, MarksInv, OpenedInv, OpensWhatIsAsked
<1>5. CASE FeedHandler
  <2>1. ListInv'
    BY <1>5, ListedKeys DEF FeedHandler, ListInv
  <2> QED
    BY <1>5, <2>1 DEF FeedHandler, settings, MarksInv, OpenedInv, OpensWhatIsAsked
<1>6. ASSUME NEW e \in list, GetItem(e)
      PROVE  ReadInv'
  <2> DEFINE k == DecodeKey(e.url)
             found == IF Found(k) THEN k ELSE None
  <2>1. /\ opened' = [asked |-> e.key, found |-> found, there |-> Found(e.key)]
        /\ marks' = IF found = None THEN marks ELSE marks \union {found}
        /\ reader' = IF found = None THEN reader ELSE reader \union {e.key}
        /\ list' = list /\ watched' = watched
    BY <1>6 DEF GetItem, settings
  <2>2. /\ e.key \in AllKeys
        /\ k # None => k = e.key /\ EscapeKey(e.key) = e.key
        /\ Plain(e.key) => k = e.key
    BY KeyURL DEF ListInv
  <2>3. found # None => found = e.key /\ EscapeKey(e.key) = e.key
    BY <2>2
  <2>4. MarksInv'
    BY <2>1, <2>2, <2>3 DEF MarksInv
  <2>5. OpenedInv'
    BY <2>1, <2>2, <2>3 DEF OpenedInv, OpensWhatIsAsked, Plain
  <2> QED
    BY <2>1, <2>4, <2>5 DEF ListInv
<1>7. ASSUME NEW e \in list, MarkUnread(e)
      PROVE  ReadInv'
  <2>1. e.url = EscapeKey(e.key) /\ (e.url \in AllKeys => e.url = e.key)
    BY KeyURL DEF ListInv
  <2>2. marks \ {e.url} = reader \ {e.key}
    BY <2>1 DEF MarksInv
  <2>3. MarksInv'
    BY <1>7, <2>2 DEF MarkUnread, MarksInv
  <2> QED
    BY <1>7, <2>3 DEF MarkUnread, settings, ListInv, OpenedInv, OpensWhatIsAsked
<1>8. ASSUME NEW F \in SUBSET Feeds, NEW W \in SUBSET Pages, SaveSettings(F, W)
      PROVE  ReadInv'
  BY <1>8 DEF SaveSettings, ListInv, MarksInv, OpenedInv, OpensWhatIsAsked
<1>9. CASE UNCHANGED vars
  BY <1>9 DEF vars, ListInv, MarksInv, OpenedInv, OpensWhatIsAsked
<1> QED
  BY <1>1, <1>2, <1>3, <1>4, <1>5, <1>6, <1>7, <1>8, <1>9 DEF Next

LEMMA ReadAlways == Spec => []ReadInv
  BY ReadInit, ReadStep, PTL DEF Spec

(* The URL of an item that the list once showed never leads to another     *)
(* item or page, and to that item where its key has no -: FeedItemHandler  *)
(* cuts the URL where escapeKeyForURL joined it, or finds nothing.         *)
THEOREM URLsAreUnambiguous == Spec => []OpensWhatIsAsked
<1>1. ReadInv => OpensWhatIsAsked
  BY DEF ReadInv, OpenedInv
<1> QED
  BY <1>1, ReadAlways, PTL

(* The list says of every item whether the user has read it, whatever is   *)
(* fetched, collected, subscribed to or left in between.                   *)
THEOREM TheListTellsWhatWasRead == Spec => []ReadShown
<1>1. ReadInv => ReadShown
  BY ListedKeys DEF ReadInv, MarksInv, ReadShown
<1> QED
  BY <1>1, ReadAlways, PTL
-----------------------------------------------------------------------------
(* Induction over the natural numbers, on the set of those for which       *)
(* something holds: there is no least one outside it.                      *)

LEMMA Least ==
  ASSUME NEW T, T \subseteq Nat, T # {}
  PROVE  \E m \in T : \A n \in T : m <= n
<1> DEFINE R == OpToRel(<, Nat)
<1>1. IsWellFoundedOn(R, Nat)
  BY NatLessThanWellFounded
<1>2. \A m, n \in Nat : n < m => <<n, m>> \in R
  BY DEF OpToRel
<1> HIDE DEF R
<1>3. PICK m \in T : \A n \in T : ~ (<<n, m>> \in R)
  BY <1>1, WFMin
<1>4. \A n \in T : ~ (n < m)
  BY <1>2, <1>3
<1>5. \A n \in T : m <= n
  BY <1>4
<1> QED
  BY <1>5

LEMMA Induction ==
  ASSUME NEW T, 0 \in T, \A n \in T \intersect Nat : n + 1 \in T
  PROVE  Nat \subseteq T
<1> SUFFICES ASSUME Nat \ T # {}
             PROVE  FALSE
  OBVIOUS
<1>1. PICK m \in Nat \ T : \A n \in Nat \ T : m <= n
  BY Least
<1>2. m # 0 /\ m - 1 \in Nat /\ (m - 1) + 1 = m /\ ~ (m <= m - 1)
  BY <1>1
<1>3. m - 1 \in T
  BY <1>1, <1>2
<1> QED
  BY <1>1, <1>2, <1>3

-----------------------------------------------------------------------------
(* What ParseFeed makes of an answer.                                      *)

LEMMA FirstGivenIn ==
  ASSUME NEW s, NEW missing, DOMAIN s \subseteq Nat
  PROVE  /\ FirstGiven(s, missing) = missing \/ \E n \in DOMAIN s : FirstGiven(s, missing) = s[n]
         /\ (\E n \in DOMAIN s : s[n] # missing) => FirstGiven(s, missing) # missing
<1> DEFINE given == {n \in DOMAIN s : s[n] # missing}
<1>1. given # {} => Min(given) \in given
  BY Least DEF Min
<1> QED
  BY <1>1 DEF FirstGiven

LEMMA AtomLinkIn ==
  ASSUME NEW e \in AtomEntries
  PROVE  AtomLink(e) \in Texts
<1> DEFINE L == {n \in DOMAIN e.links :
                   e.links[n].href # Empty /\ e.links[n].html /\ e.links[n].alternate}
<1>1. e.links \in Seq(Links)
  BY DEF AtomEntries
<1>2. L \subseteq Nat /\ \A n \in L : e.links[n] \in Links
  BY <1>1
<1>3. L # {} => Min(L) \in L
  BY <1>2, Least DEF Min
<1>4. L # {} => e.links[Min(L)].href \in Texts
  BY <1>2, <1>3 DEF Links
<1> QED
  BY <1>4, ReadingAssumption DEF AtomLink

LEMMA ParsedEntries ==
  ASSUME now \in 1..MaxTime, NEW a \in Answers
  PROVE  ParseFeed(a) \in Seq(Parsed)
<1>1. now \in Dates /\ now # None
  BY ReadingAssumption DEF Dates
<1>2. \A t, u \in Texts : FirstGiven(<<t, u>>, Empty) \in Texts
  <2> TAKE t, u \in Texts
  <2>1. FirstGiven(<<t, u>>, Empty) \in {Empty, t, u}
    BY FirstGivenIn, <<t, u>>[1] = t, <<t, u>>[2] = u
  <2> QED
    BY <2>1, ReadingAssumption
<1>3. \A t, u \in Contents : FirstGiven(<<t, u>>, Empty) \in Contents
  <2> TAKE t, u \in Contents
  <2>1. FirstGiven(<<t, u>>, Empty) \in {Empty, t, u}
    BY FirstGivenIn, <<t, u>>[1] = t, <<t, u>>[2] = u
  <2> QED
    BY <2>1, ReadingAssumption
<1>4. \A t \in Dates \union {None} : FirstGiven(<<t, now>>, None) \in Dates
  <2> TAKE t \in Dates \union {None}
  <2>1. FirstGiven(<<t, now>>, None) \in {None, t, now}
    BY FirstGivenIn, <<t, now>>[1] = t, <<t, now>>[2] = now
  <2>2. FirstGiven(<<t, now>>, None) # None
    BY FirstGivenIn, <1>1, <<t, now>>[2] = now
  <2> QED
    BY <1>1, <2>1, <2>2
<1>5. \A t, u \in Dates \union {None} : FirstGiven(<<t, u, now>>, None) \in Dates
  <2> TAKE t, u \in Dates \union {None}
  <2> DEFINE s == <<t, u, now>>
  <2>1. s[1] = t /\ s[2] = u /\ s[3] = now /\ DOMAIN s = {1, 2, 3}
    OBVIOUS
  <2> HIDE DEF s
  <2>2. FirstGiven(s, None) \in {None, t, u, now}
    BY FirstGivenIn, <2>1
  <2>3. FirstGiven(s, None) # None
    BY FirstGivenIn, <1>1, <2>1
  <2> QED
    BY <1>1, <2>2, <2>3 DEF s
<1>6. ASSUME a.form = "atom", NEW e \in AtomEntries
      PROVE  ParseAtom(e) \in Parsed
  BY <1>2, <1>3, <1>5, AtomLinkIn DEF ParseAtom, Parsed, AtomEntries
<1>7. ASSUME NEW e \in RSSEntries, NEW c \in Dates \union {None}
      PROVE  ParseRSS(e, c) \in Parsed /\ ParseRDF(e) \in Parsed
  BY <1>2, <1>3, <1>4, <1>5 DEF ParseRSS, ParseRDF, Parsed, RSSEntries
<1>8. CASE a \in [form : {"atom"}, channel : Dates \union {None}, entries : Seq(AtomEntries)]
  <2>1. a.form = "atom" /\ a.entries \in Seq(AtomEntries)
    BY <1>8
  <2>2. ParseFeed(a) = [n \in 1..Len(a.entries) |-> ParseAtom(a.entries[n])]
    BY <2>1 DEF ParseFeed
  <2>3. \A n \in 1..Len(a.entries) : ParseAtom(a.entries[n]) \in Parsed
    BY <1>6, <2>1
  <2> QED
    BY <2>1, <2>2, <2>3
<1>9. CASE a \in [form : {"rss", "rdf"}, channel : Dates \union {None}, entries : Seq(RSSEntries)]
  <2>1. /\ a.form \in {"rss", "rdf"} /\ a.entries \in Seq(RSSEntries)
        /\ a.channel \in Dates \union {None}
    BY <1>9
  <2>2. ParseFeed(a) =
          [n \in 1..Len(a.entries) |-> IF a.form = "rss" THEN ParseRSS(a.entries[n], a.channel)
                                                         ELSE ParseRDF(a.entries[n])]
    BY <2>1 DEF ParseFeed
  <2>3. \A n \in 1..Len(a.entries) : ParseRSS(a.entries[n], a.channel) \in Parsed
                                       /\ ParseRDF(a.entries[n]) \in Parsed
    BY <1>7, <2>1
  <2> QED
    BY <2>1, <2>2, <2>3
<1> QED
  BY <1>8, <1>9, ReadingAssumption

-----------------------------------------------------------------------------
(* SaveItem, once.                                                         *)

Indexes == {Overwritten} \union SUBSET (Texts \ {Empty})

SaveStates ==
  [items : [FeedKeys -> Records \union {None}], index : Indexes, ok : BOOLEAN]

Key(f, i) == FeedKey(f, i.guid)

LEMMA SavedItem ==
  ASSUME now \in 1..MaxTime, NEW f \in Feeds, NEW s \in SaveStates, NEW i \in Parsed
  PROVE  LET t == SaveItem(f, s, i) IN
         /\ t \in SaveStates
         /\ \A k \in FeedKeys : k # Key(f, i) => t.items[k] = s.items[k]
         /\ t.ok /\ t.index # Overwritten =>
              /\ s.ok /\ s.index # Overwritten
              /\ i.guid # Empty
              /\ t.index = s.index \union {i.guid}
              /\ Same(t.items[Key(f, i)], i)
         /\ s.ok /\ s.index # Overwritten /\ i.guid # Empty /\ Same(s.items[Key(f, i)], i) =>
              t.items = s.items /\ t.ok /\ t.index # Overwritten
<1> DEFINE t == SaveItem(f, s, i)
           k == Key(f, i)
<1>1. /\ k \in FeedKeys /\ i.guid \in Texts /\ Stored(i) \in Records
      /\ Stored(i) # None /\ Same(Stored(i), i)
  <2>1. k \in FeedKeys /\ i.guid \in Texts
    BY DEF Key, FeedKeys, Parsed
  <2>2. Stored(i) \in Records
    BY DEF Stored, Parsed, Records, Dates
  <2> QED
    BY <2>1, <2>2, ReadingAssumption DEF Same, Stored
<1>2. CASE ~s.ok
  BY <1>2 DEF SaveItem
<1>3. CASE s.ok /\ s.index = Overwritten
  <2>1. t = [s EXCEPT !.ok = FALSE]
    BY <1>3 DEF SaveItem
  <2> HIDE DEF t
  <2> QED
    BY <1>3, <2>1 DEF t, SaveStates
<1>4. CASE s.ok /\ s.index # Overwritten /\ i.guid = Empty
  <2>1. t = [s EXCEPT !.index = Overwritten, !.items[k] = Stored(i)]
    BY <1>4 DEF SaveItem, Key
  <2>2. t = [items |-> [s.items EXCEPT ![k] = Stored(i)], index |-> Overwritten, ok |-> TRUE]
    BY <1>4, <2>1 DEF SaveStates
  <2> HIDE DEF t, k
  <2> QED
    BY <1>1, <1>4, <2>2 DEF t, k, SaveStates, Indexes
<1>5. CASE s.ok /\ s.index # Overwritten /\ i.guid # Empty
  <2>1. t = [s EXCEPT !.index = @ \union {i.guid},
                      !.items[k] = IF Same(@, i) THEN @ ELSE Stored(i)]
    BY <1>5 DEF SaveItem, Key
  <2>2. t = [items |-> [s.items EXCEPT ![k] = IF Same(@, i) THEN @ ELSE Stored(i)],
             index |-> s.index \union {i.guid}, ok |-> TRUE]
    BY <1>5, <2>1 DEF SaveStates
  <2>3. s.index \in SUBSET (Texts \ {Empty})
    BY <1>5 DEF SaveStates, Indexes
  <2>4. s.index \union {i.guid} \in SUBSET (Texts \ {Empty})
    BY <1>1, <1>5, <2>3
  <2>5. s.index \union {i.guid} \in Indexes /\ s.index \union {i.guid} # Overwritten
    BY <2>4, ReadingAssumption DEF Indexes
  <2>6. s.items \in [FeedKeys -> Records \union {None}]
    BY DEF SaveStates
  <2> DEFINE I == [s.items EXCEPT ![k] = IF Same(@, i) THEN @ ELSE Stored(i)]
  <2> HIDE DEF t, k
  <2>7. /\ I \in [FeedKeys -> Records \union {None}]
        /\ \A j \in FeedKeys : j # k => I[j] = s.items[j]
        /\ Same(I[k], i)
        /\ Same(s.items[k], i) => I = s.items
    BY <1>1, <2>6
  <2>8. t.items = I /\ t.index = s.index \union {i.guid} /\ t.ok
    BY <2>2
  <2>9. t \in SaveStates
    BY <2>2, <2>5, <2>7 DEF SaveStates
  <2> QED
    BY <1>5, <2>5, <2>7, <2>8, <2>9 DEF t, k
<1> QED
  BY <1>2, <1>3, <1>4, <1>5

-----------------------------------------------------------------------------
(* SaveFeeditems is what its definition says, item by item: the function   *)
(* that its recursion describes exists, because the one for n items can be *)
(* continued to n + 1.                                                     *)

LEMMA SavedByItems ==
  ASSUME NEW f, NEW parsed, Len(parsed) \in Nat
  PROVE  LET saved == SaveFeeditems(f, parsed) IN
         /\ saved[0] = [items |-> items, index |-> index[f], ok |-> TRUE]
         /\ \A n \in 0..(Len(parsed) - 1) :
              saved[n + 1] = SaveItem(f, saved[n], parsed[n + 1])
<1> DEFINE first == [items |-> items, index |-> index[f], ok |-> TRUE]
           Step(g, n) == IF n = 0 THEN first ELSE SaveItem(f, g[n - 1], parsed[n])
           T == {N \in Nat : \E g : g = [n \in 0..N |-> Step(g, n)]}
<1>1. 0 \in T
  <2> DEFINE g == [n \in 0..0 |-> first]
  <2>1. g = [n \in 0..0 |-> Step(g, n)]
    OBVIOUS
  <2> QED
    BY <2>1
<1>2. ASSUME NEW N \in T \intersect Nat
      PROVE  N + 1 \in T
  <2>1. PICK g : g = [n \in 0..N |-> Step(g, n)]
    OBVIOUS
  <2> DEFINE h == [n \in 0..(N + 1) |->
                     IF n = N + 1 THEN SaveItem(f, g[N], parsed[N + 1]) ELSE g[n]]
  <2>2. ASSUME NEW n \in 0..(N + 1)
        PROVE  h[n] = Step(h, n)
    <3>1. CASE n = 0
      <4>1. h[n] = g[0] /\ 0 \in 0..N
        BY <3>1
      <4> QED
        BY <2>1, <3>1, <4>1
    <3>2. CASE n = N + 1
      <4>1. n # 0 /\ n - 1 = N /\ n - 1 # N + 1 /\ n - 1 \in 0..(N + 1)
        BY <3>2
      <4>2. h[n - 1] = g[N]
        BY <4>1
      <4> HIDE DEF first
      <4> QED
        BY <3>2, <4>1, <4>2
    <3>3. CASE n # 0 /\ n # N + 1
      <4>1. n \in 0..N /\ n - 1 \in 0..(N + 1) /\ n - 1 # N + 1
        BY <3>3
      <4>2. h[n] = g[n] /\ h[n - 1] = g[n - 1]
        BY <3>3, <4>1
      <4>3. g[n] = SaveItem(f, g[n - 1], parsed[n])
        BY <2>1, <3>3, <4>1
      <4> QED
        BY <3>3, <4>2, <4>3
    <3> QED
      BY <3>1, <3>2, <3>3
  <2>3. h = [n \in 0..(N + 1) |-> Step(h, n)]
    BY <2>2
  <2> HIDE DEF h
  <2>4. \E j : j = [n \in 0..(N + 1) |-> Step(j, n)]
    BY <2>3
  <2> QED
    BY <2>4
<1>3. Len(parsed) \in T
  <2> HIDE DEF T
  <2> QED
    BY <1>1, <1>2, Induction
<1>4. PICK g : g = [n \in 0..Len(parsed) |-> Step(g, n)]
  BY <1>3
<1> DEFINE saved == SaveFeeditems(f, parsed)
<1>5. saved = [n \in 0..Len(parsed) |-> Step(saved, n)]
  BY <1>4 DEF SaveFeeditems
<1> HIDE DEF saved
<1>6. saved[0] = first
  BY <1>5
<1>7. \A n \in 0..(Len(parsed) - 1) : saved[n + 1] = SaveItem(f, saved[n], parsed[n + 1])
  <2> TAKE n \in 0..(Len(parsed) - 1)
  <2>1. n + 1 \in 0..Len(parsed) /\ n + 1 # 0 /\ (n + 1) - 1 = n
    OBVIOUS
  <2>2. saved[n + 1] = Step(saved, n + 1)
    BY <1>5, <2>1
  <2> QED
    BY <2>1, <2>2
<1> QED
  BY <1>6, <1>7 DEF saved

-----------------------------------------------------------------------------
(* What SaveFeeditems has stored and listed after n items.                 *)

LastOf(parsed, n) ==
  {m \in 1..n : \A j \in 1..n : parsed[j].guid = parsed[m].guid => j <= m}

Kept(f, s, parsed, n) ==
  s.ok /\ s.index # Overwritten =>
    \A m \in LastOf(parsed, n) :
      parsed[m].guid \in s.index /\ Same(s.items[Key(f, parsed[m])], parsed[m])

TypeInv ==
  /\ now \in 1..MaxTime
  /\ items \in [FeedKeys -> Records \union {None}]
  /\ index \in [Feeds -> Indexes]
  /\ got \in [Feeds -> {None} \union Seq(Parsed)]
  /\ pages \subseteq PageKeys
  /\ feeds \subseteq Feeds
  /\ watched \subseteq Pages

LEMMA KeptStep ==
  ASSUME now \in 1..MaxTime, NEW f \in Feeds, NEW parsed \in Seq(Parsed),
         NEW n \in 0..(Len(parsed) - 1), NEW s \in SaveStates, Kept(f, s, parsed, n)
  PROVE  Kept(f, SaveItem(f, s, parsed[n + 1]), parsed, n + 1)
<1> DEFINE i == parsed[n + 1]
           t == SaveItem(f, s, i)
<1>1. n \in Nat /\ n + 1 \in 1..Len(parsed) /\ i \in Parsed
  OBVIOUS
<1>2. /\ \A k \in FeedKeys : k # Key(f, i) => t.items[k] = s.items[k]
      /\ t.ok /\ t.index # Overwritten =>
           /\ s.ok /\ s.index # Overwritten
           /\ t.index = s.index \union {i.guid}
           /\ Same(t.items[Key(f, i)], i)
  BY <1>1, SavedItem
<1> HIDE DEF t, i
<1> SUFFICES ASSUME t.ok, t.index # Overwritten, NEW m \in LastOf(parsed, n + 1)
             PROVE  parsed[m].guid \in t.index /\ Same(t.items[Key(f, parsed[m])], parsed[m])
  BY DEF Kept, t, i
<1>3. CASE m = n + 1
  BY <1>2, <1>3 DEF i
<1>4. CASE m # n + 1
  <2>1. /\ m \in 1..n /\ m \in 1..(n + 1) /\ m \in 1..Len(parsed)
        /\ \A j \in 1..(n + 1) : parsed[j].guid = parsed[m].guid => j <= m
    BY <1>1, <1>4 DEF LastOf
  <2>2. m \in LastOf(parsed, n)
    BY <1>1, <2>1 DEF LastOf
  <2>3. parsed[m].guid # i.guid
    BY <1>1, <2>1 DEF i
  <2>4. Key(f, parsed[m]) \in FeedKeys
    <3>1. parsed[m] \in Parsed
      BY <2>1
    <3> QED
      BY <3>1 DEF Key, FeedKeys, Parsed
  <2>5. Key(f, parsed[m]) # Key(f, i)
    BY <2>3 DEF Key, FeedKey
  <2>6. parsed[m].guid \in s.index /\ Same(s.items[Key(f, parsed[m])], parsed[m])
    BY <1>2, <2>2 DEF Kept
  <2> QED
    BY <1>2, <2>4, <2>5, <2>6
<1> QED
  BY <1>3, <1>4

LEMMA SavedItems ==
  ASSUME TypeInv, NEW f \in Feeds, NEW parsed \in Seq(Parsed)
  PROVE  LET s == SaveFeeditems(f, parsed)[Len(parsed)] IN
         /\ s \in SaveStates
         /\ \A k \in FeedKeys : k[2] # f => s.items[k] = items[k]
         /\ Kept(f, s, parsed, Len(parsed))
<1> DEFINE saved == SaveFeeditems(f, parsed)
           Good(n) == /\ saved[n] \in SaveStates
                      /\ \A k \in FeedKeys : k[2] # f => saved[n].items[k] = items[k]
                      /\ Kept(f, saved[n], parsed, n)
           T == {n \in Nat : n <= Len(parsed) => Good(n)}
<1>1. Len(parsed) \in Nat /\ now \in 1..MaxTime
  BY DEF TypeInv
<1>2. /\ saved[0] = [items |-> items, index |-> index[f], ok |-> TRUE]
      /\ \A n \in 0..(Len(parsed) - 1) : saved[n + 1] = SaveItem(f, saved[n], parsed[n + 1])
  BY <1>1, SavedByItems
<1> HIDE DEF saved
<1>3. Good(0)
  <2>1. saved[0] \in SaveStates
    BY <1>2 DEF SaveStates, TypeInv
  <2>2. LastOf(parsed, 0) = {}
    BY DEF LastOf
  <2> QED
    BY <1>2, <2>1, <2>2 DEF Kept
<1>4. ASSUME NEW n \in Nat, n + 1 <= Len(parsed), Good(n)
      PROVE  Good(n + 1)
  <2>1. n \in 0..(Len(parsed) - 1) /\ n + 1 \in 1..Len(parsed) /\ parsed[n + 1] \in Parsed
    BY <1>1, <1>4
  <2>2. saved[n + 1] = SaveItem(f, saved[n], parsed[n + 1])
    BY <1>2, <2>1
  <2>3. saved[n] \in SaveStates
    BY <1>4
  <2>4. /\ saved[n + 1] \in SaveStates
        /\ \A k \in FeedKeys : k # Key(f, parsed[n + 1]) => saved[n + 1].items[k] = saved[n].items[k]
    <3> DEFINE s == saved[n]
               i == parsed[n + 1]
    <3>1. s \in SaveStates /\ i \in Parsed /\ saved[n + 1] = SaveItem(f, s, i)
      BY <2>1, <2>2, <2>3
    <3> HIDE DEF s, i
    <3>2. /\ saved[n + 1] \in SaveStates
          /\ \A k \in FeedKeys : k # Key(f, i) => saved[n + 1].items[k] = s.items[k]
      BY <1>1, <3>1, SavedItem
    <3> QED
      BY <3>2 DEF s, i
  <2>5. Key(f, parsed[n + 1])[2] = f
    BY DEF Key, FeedKey
  <2>6. \A k \in FeedKeys : k[2] # f => saved[n + 1].items[k] = items[k]
    BY <1>4, <2>4, <2>5
  <2>7. Kept(f, saved[n + 1], parsed, n + 1)
    BY <1>1, <1>4, <2>1, <2>2, <2>3, KeptStep
  <2> QED
    BY <2>4, <2>6, <2>7
<1> HIDE DEF Good
<1>5. 0 \in T
  BY <1>3
<1>6. \A n \in T \intersect Nat : n + 1 \in T
  BY <1>1, <1>4
<1>7. Nat \subseteq T
  <2> HIDE DEF T
  <2> QED
    BY <1>5, <1>6, Induction
<1>8. Good(Len(parsed))
  BY <1>1, <1>7
<1> QED
  BY <1>8 DEF Good, saved

(* Where all items are stored as they are, and no two share a GUID, they   *)
(* are saved without a write.                                              *)
LEMMA SavedAgain ==
  ASSUME TypeInv, NEW f \in Feeds, NEW parsed \in Seq(Parsed), index[f] # Overwritten,
         \A n \in 1..Len(parsed) :
           parsed[n].guid # Empty /\ Same(items[Key(f, parsed[n])], parsed[n])
  PROVE  SaveFeeditems(f, parsed)[Len(parsed)].items = items
<1> DEFINE saved == SaveFeeditems(f, parsed)
           Good(n) == /\ saved[n] \in SaveStates
                      /\ saved[n].items = items
                      /\ saved[n].ok /\ saved[n].index # Overwritten
           T == {n \in Nat : n <= Len(parsed) => Good(n)}
<1>1. Len(parsed) \in Nat /\ now \in 1..MaxTime
  BY DEF TypeInv
<1>2. /\ saved[0] = [items |-> items, index |-> index[f], ok |-> TRUE]
      /\ \A n \in 0..(Len(parsed) - 1) : saved[n + 1] = SaveItem(f, saved[n], parsed[n + 1])
  BY <1>1, SavedByItems
<1> HIDE DEF saved
<1>3. Good(0)
  <2>1. saved[0] \in SaveStates
    BY <1>2 DEF SaveStates, TypeInv
  <2> QED
    BY <1>2, <2>1
<1>4. ASSUME NEW n \in Nat, n + 1 <= Len(parsed), Good(n)
      PROVE  Good(n + 1)
  <2>1. n \in 0..(Len(parsed) - 1) /\ n + 1 \in 1..Len(parsed) /\ parsed[n + 1] \in Parsed
    BY <1>1, <1>4
  <2>2. saved[n + 1] = SaveItem(f, saved[n], parsed[n + 1])
    BY <1>2, <2>1
  <2>3. parsed[n + 1].guid # Empty /\ Same(saved[n].items[Key(f, parsed[n + 1])], parsed[n + 1])
    BY <1>4, <2>1
  <2> QED
    BY <1>1, <1>4, <2>1, <2>2, <2>3, SavedItem
<1> HIDE DEF Good
<1>5. 0 \in T
  BY <1>3
<1>6. \A n \in T \intersect Nat : n + 1 \in T
  BY <1>1, <1>4
<1>7. Nat \subseteq T
  <2> HIDE DEF T
  <2> QED
    BY <1>5, <1>6, Induction
<1>8. Good(Len(parsed))
  BY <1>1, <1>7
<1> QED
  BY <1>8 DEF Good, saved

-----------------------------------------------------------------------------
(* What the store holds of the last answer of every feed, as long as its   *)
(* index is one: the last item of every GUID, as the answer has it.  No    *)
(* other feed's fetch and no other feed's collection touches those items.  *)

HeldOf(f) ==
  index[f] # Overwritten /\ got[f] # None =>
    \A n \in LastOf(got[f], Len(got[f])) :
      got[f][n].guid \in index[f] /\ Same(items[Key(f, got[f][n])], got[f][n])

HeldInv == \A f \in Feeds : HeldOf(f)

StoreInv == TypeInv /\ HeldInv

LEMMA StoreInit == Init => StoreInv
<1> SUFFICES ASSUME Init
             PROVE  StoreInv
  OBVIOUS
<1>1. TypeInv
  BY ReadingAssumption DEF Init, TypeInv, Indexes
<1>2. HeldInv
  BY DEF Init, HeldInv, HeldOf
<1> QED
  BY <1>1, <1>2 DEF StoreInv

(* An item of a feed has a key that no other feed's items have.            *)
LEMMA OwnKeys ==
  ASSUME NEW f \in Feeds, NEW parsed \in Seq(Parsed), NEW n \in 1..Len(parsed)
  PROVE  /\ parsed[n].guid \in Texts
         /\ Key(f, parsed[n]) \in FeedKeys
         /\ Key(f, parsed[n])[2] = f
         /\ Key(f, parsed[n])[3] = parsed[n].guid
<1>1. parsed[n] \in Parsed
  OBVIOUS
<1> QED
  BY <1>1 DEF Key, FeedKeys, FeedKey, Parsed

LEMMA Unheld ==
  ASSUME TypeInv, NEW f \in Feeds, HeldOf(f), index'[f] = index[f], got'[f] = got[f],
         \A k \in FeedKeys : k[2] = f => items'[k] = items[k]
  PROVE  HeldOf(f)'
<1> SUFFICES ASSUME index[f] # Overwritten, got[f] # None,
                    NEW n \in LastOf(got[f], Len(got[f]))
             PROVE  got[f][n].guid \in index[f] /\ Same(items'[Key(f, got[f][n])], got[f][n])
  BY DEF HeldOf, LastOf, Same, Key, FeedKey
<1>1. got[f] \in Seq(Parsed) /\ n \in 1..Len(got[f])
  BY DEF TypeInv, LastOf
<1>2. items'[Key(f, got[f][n])] = items[Key(f, got[f][n])]
  BY <1>1, OwnKeys
<1> QED
  BY <1>2 DEF HeldOf

LEMMA StoreFetch ==
  ASSUME StoreInv, NEW f \in Feeds, NEW a \in Answers, FetchFeed(f, a)
  PROVE  StoreInv'
<1> DEFINE parsed == ParseFeed(a)
           s == SaveFeeditems(f, parsed)[Len(parsed)]
<1>1. parsed \in Seq(Parsed)
  BY ParsedEntries DEF StoreInv, TypeInv
<1>2. /\ s \in SaveStates
      /\ \A k \in FeedKeys : k[2] # f => s.items[k] = items[k]
      /\ Kept(f, s, parsed, Len(parsed))
  BY <1>1, SavedItems DEF StoreInv
<1>3. /\ items' = s.items
      /\ index' = [index EXCEPT ![f] = s.index]
      /\ got' = [got EXCEPT ![f] = IF s.ok THEN parsed ELSE None]
      /\ UNCHANGED <<now, pages, feeds, watched>>
  BY DEF FetchFeed, settings
<1> HIDE DEF s, parsed
<1>4. TypeInv'
  BY <1>1, <1>2, <1>3 DEF StoreInv, TypeInv, SaveStates
<1>5. ASSUME NEW g \in Feeds
      PROVE  HeldOf(g)'
  <2>1. CASE g = f
    <3>1. index'[f] = s.index /\ got'[f] = IF s.ok THEN parsed ELSE None
      BY <1>3 DEF StoreInv, TypeInv
    <3> SUFFICES ASSUME s.index # Overwritten, s.ok, NEW n \in LastOf(parsed, Len(parsed))
                 PROVE  parsed[n].guid \in s.index /\ Same(s.items[Key(f, parsed[n])], parsed[n])
      BY <1>3, <2>1, <3>1 DEF HeldOf, LastOf, Same, Key, FeedKey
    <3> QED
      BY <1>2 DEF Kept
  <2>2. CASE g # f
    <3>1. index'[g] = index[g] /\ got'[g] = got[g]
      BY <1>3, <2>2 DEF StoreInv, TypeInv
    <3>2. \A k \in FeedKeys : k[2] = g => items'[k] = items[k]
      BY <1>2, <1>3, <2>2
    <3> QED
      BY <3>1, <3>2, Unheld DEF StoreInv, HeldInv
  <2> QED
    BY <2>1, <2>2
<1> QED
  BY <1>4, <1>5 DEF StoreInv, HeldInv

LEMMA StoreCollect ==
  ASSUME StoreInv, NEW f \in Feeds, CollectFeed(f)
  PROVE  StoreInv'
<1>1. /\ items' = [k \in FeedKeys |-> IF k[2] = f THEN None ELSE items[k]]
      /\ got' = [got EXCEPT ![f] = None]
      /\ UNCHANGED <<now, index, pages, feeds, watched>>
  BY DEF CollectFeed, settings
<1>2. TypeInv'
  BY <1>1 DEF StoreInv, TypeInv
<1>3. ASSUME NEW g \in Feeds
      PROVE  HeldOf(g)'
  <2>1. CASE g = f
    BY <1>1, <2>1 DEF HeldOf, StoreInv, TypeInv
  <2>2. CASE g # f
    <3>1. index'[g] = index[g] /\ got'[g] = got[g]
      BY <1>1, <2>2 DEF StoreInv, TypeInv
    <3>2. \A k \in FeedKeys : k[2] = g => items'[k] = items[k]
      BY <1>1, <2>2
    <3> QED
      BY <3>1, <3>2, Unheld DEF StoreInv, HeldInv
  <2> QED
    BY <2>1, <2>2
<1> QED
  BY <1>2, <1>3 DEF StoreInv, HeldInv

LEMMA StoreKept ==
  ASSUME StoreInv, TypeInv', items' = items, index' = index, got' = got
  PROVE  StoreInv'
<1>1. HeldInv'
  BY Unheld DEF StoreInv, HeldInv
<1> QED
  BY <1>1 DEF StoreInv

LEMMA StoreStep == StoreInv /\ [Next]_vars => StoreInv'
<1> SUFFICES ASSUME StoreInv, [Next]_vars
             PROVE  StoreInv'
  OBVIOUS
<1>1. CASE Tick
  <2>1. TypeInv'
    BY <1>1, ReadingAssumption DEF Tick, store, settings, StoreInv, TypeInv
  <2> QED
    BY <1>1, <2>1, StoreKept DEF Tick, store
<1>2. ASSUME NEW f \in Feeds, NEW a \in Answers, FetchFeed(f, a)
      PROVE  StoreInv'
  BY <1>2, StoreFetch
<1>3. ASSUME NEW p \in watched, FetchPage(p)
      PROVE  StoreInv'
  <2>1. TypeInv'
    BY <1>3 DEF FetchPage, settings, StoreInv, TypeInv, PageKeys
  <2> QED
    BY <1>3, <2>1, StoreKept DEF FetchPage
<1>4. ASSUME NEW f \in Feeds, CollectFeed(f)
      PROVE  StoreInv'
  BY <1>4, StoreCollect
<1>5. CASE FeedHandler
  <2>1. TypeInv'
    BY <1>5 DEF FeedHandler, store, settings, StoreInv, TypeInv
  <2> QED
    BY <1>5, <2>1, StoreKept DEF FeedHandler, store
<1>6. ASSUME NEW e \in list, GetItem(e) \/ MarkUnread(e)
      PROVE  StoreInv'
  <2>1. UNCHANGED <<now, store, settings, got>>
    BY <1>6 DEF GetItem, MarkUnread
  <2>2. TypeInv'
    BY <2>1 DEF store, settings, StoreInv, TypeInv
  <2> QED
    BY <2>1, <2>2, StoreKept DEF store
<1>7. ASSUME NEW F \in SUBSET Feeds, NEW W \in SUBSET Pages, SaveSettings(F, W)
      PROVE  StoreInv'
  <2>1. TypeInv'
    BY <1>7 DEF SaveSettings, store, StoreInv, TypeInv
  <2> QED
    BY <1>7, <2>1, StoreKept DEF SaveSettings, store
<1>8. CASE UNCHANGED vars
  <2>1. UNCHANGED <<now, store, settings, got>>
    BY <1>8 DEF vars, store, settings
  <2>2. TypeInv'
    BY <2>1 DEF store, settings, StoreInv, TypeInv
  <2> QED
    BY <2>1, <2>2, StoreKept DEF store
<1> QED
  BY <1>1, <1>2, <1>3, <1>4, <1>5, <1>6, <1>7, <1>8 DEF Next

LEMMA StoreAlways == Spec => []StoreInv
  BY StoreInit, StoreStep, PTL DEF Spec

(* Every variable has its type, whatever the answers of the feeds lack:    *)
(* ParseFeed fills in what is missing, and SaveFeeditems lists a GUID or   *)
(* gives up the index.                                                     *)
THEOREM ReadingTypes == Spec => []TypeOK
<1>1. StoreInv /\ ReadInv => TypeOK
  <2> SUFFICES ASSUME StoreInv, ReadInv
               PROVE  TypeOK
    OBVIOUS
  <2>1. \A e \in list : e.key \in FeedKeys \union PageKeys
    BY DEF ReadInv, ListInv, AllKeys
  <2>2. marks \subseteq FeedKeys \union PageKeys
    BY DEF ReadInv, MarksInv, AllKeys
  <2>3. opened.found \in FeedKeys \union PageKeys \union {None}
    BY DEF ReadInv, OpenedInv, AllKeys
  <2> QED
    BY <2>1, <2>2, <2>3 DEF StoreInv, TypeInv, TypeOK, Indexes
<1> QED
  BY <1>1, StoreAlways, ReadAlways, PTL

(* After a fetch that reported no error every item of the answer is in the *)
(* list of whoever reads the feed, as the answer has it, whatever is       *)
(* fetched and collected for others: the last one of those that share a    *)
(* GUID, and unless an item had neither GUID nor link.                     *)
THEOREM FetchedItemsAreListed == Spec => []FetchedIsListed
<1>1. StoreInv => FetchedIsListed
  <2> SUFFICES ASSUME StoreInv, NEW f \in feeds, index[f] # Overwritten, got[f] # None,
                      NEW n \in Latest(f)
               PROVE  FeedKey(f, got[f][n].guid) \in GetFeeditems
                        /\ Same(items[FeedKey(f, got[f][n].guid)], got[f][n])
    BY DEF FetchedIsListed, Listed
  <2>1. f \in Feeds /\ got[f] \in Seq(Parsed)
    BY DEF StoreInv, TypeInv
  <2>2. n \in LastOf(got[f], Len(got[f])) /\ n \in 1..Len(got[f])
    BY <2>1 DEF Latest, LastOf
  <2>3. got[f][n].guid \in index[f] /\ Same(items[Key(f, got[f][n])], got[f][n])
    BY <2>1, <2>2 DEF StoreInv, HeldInv, HeldOf
  <2>4. Key(f, got[f][n]) \in FeedKeys /\ Key(f, got[f][n])[2] = f
          /\ Key(f, got[f][n])[3] = got[f][n].guid
    BY <2>1, <2>2, OwnKeys
  <2>5. Key(f, got[f][n]) \in GetFeeditems
    BY <2>3, <2>4 DEF GetFeeditems, Same
  <2> QED
    BY <2>3, <2>5 DEF Key
<1> QED
  BY <1>1, StoreAlways, PTL

LEMMA RefetchStep ==
  ASSUME StoreInv, [Next]_vars, NEW f \in Feeds, got[f] # None, got'[f] = got[f],
         Latest(f) = DOMAIN got[f], index[f] # Overwritten,
         NEW k \in FeedKeys, k[2] = f
  PROVE  items'[k] = items[k]
<1>1. ASSUME NEW g \in Feeds, NEW a \in Answers, FetchFeed(g, a)
      PROVE  items'[k] = items[k]
  <2> DEFINE parsed == ParseFeed(a)
             s == SaveFeeditems(g, parsed)[Len(parsed)]
  <2>1. parsed \in Seq(Parsed)
    BY ParsedEntries DEF StoreInv, TypeInv
  <2>2. \A j \in FeedKeys : j[2] # g => s.items[j] = items[j]
    BY <2>1, SavedItems DEF StoreInv
  <2>3. items' = s.items /\ got' = [got EXCEPT ![g] = IF s.ok THEN parsed ELSE None]
    BY <1>1 DEF FetchFeed
  <2>4. CASE g = f
    <3>1. got'[f] = IF s.ok THEN parsed ELSE None
      BY <2>3, <2>4 DEF StoreInv, TypeInv
    <3>2. got[f] = parsed
      BY <3>1
    <3>3. ASSUME NEW n \in 1..Len(parsed)
          PROVE  parsed[n].guid # Empty /\ Same(items[Key(f, parsed[n])], parsed[n])
      <4>1. n \in LastOf(got[f], Len(got[f]))
        BY <2>1, <3>2 DEF Latest, LastOf
      <4>2. parsed[n].guid \in index[f] /\ Same(items[Key(f, parsed[n])], parsed[n])
        BY <3>2, <4>1 DEF StoreInv, HeldInv, HeldOf
      <4>3. index[f] \subseteq Texts \ {Empty}
        BY DEF StoreInv, TypeInv, Indexes
      <4> QED
        BY <4>2, <4>3
    <3>4. s.items = items
      BY <2>1, <2>4, <3>3, SavedAgain DEF StoreInv
    <3> QED
      BY <2>3, <3>4
  <2>5. CASE g # f
    BY <2>2, <2>3, <2>5
  <2> QED
    BY <2>4, <2>5
<1>2. ASSUME NEW g \in Feeds, CollectFeed(g)
      PROVE  items'[k] = items[k]
  <2>1. /\ items' = [j \in FeedKeys |-> IF j[2] = g THEN None ELSE items[j]]
        /\ got' = [got EXCEPT ![g] = None]
    BY <1>2 DEF CollectFeed
  <2>2. g # f
    BY <2>1 DEF StoreInv, TypeInv
  <2> QED
    BY <2>1, <2>2
<1>3. CASE \/ Tick
           \/ \E p \in watched : FetchPage(p)
           \/ FeedHandler
           \/ \E e \in list : GetItem(e) \/ MarkUnread(e)
           \/ \E F \in SUBSET Feeds, W \in SUBSET Pages : SaveSettings(F, W)
           \/ UNCHANGED vars
  BY <1>3 DEF Tick, FetchPage, FeedHandler, GetItem, MarkUnread, SaveSettings, store, vars
<1> QED
  BY <1>1, <1>2, <1>3 DEF Next

(* An answer that is the same as the last one, no GUID twice in it, writes *)
(* no item: SaveFeeditems finds every one of them stored as it is.         *)
THEOREM RefetchingIsIdle == Spec => RefetchWritesNothing
<1>1. StoreInv /\ [Next]_vars =>
        [\A f \in Feeds :
           got[f] # None /\ got'[f] = got[f] /\ Latest(f) = DOMAIN got[f]
             /\ index[f] # Overwritten =>
               \A k \in FeedKeys : k[2] = f => items'[k] = items[k]]_vars
  BY RefetchStep
<1> QED
  BY <1>1, StoreAlways, PTL DEF Spec, RefetchWritesNothing
=============================================================================
