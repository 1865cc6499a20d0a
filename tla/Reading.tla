------------------------------ MODULE Reading -------------------------------
(***************************************************************************)
(* From the entry of a feed to the item that a user reads: ParseFeed,      *)
(* SaveFeeditems, the keys of items and pages, the list of GetAllItems,    *)
(* and FeedItemHandler, which finds an item by the key in its URL.         *)
(*                                                                         *)
(* One user, whose browser may show an old list.  Every call is one step;  *)
(* UserData, PageMonitor and FeedStore have them side by side.  Of the     *)
(* characters of a key only / and - matter: a URL has - for /, and - is    *)
(* also a digit of the base64 in which the parts of a key are written.     *)
(***************************************************************************)
EXTENDS Naturals, Sequences, FiniteSetsExt

CONSTANTS
  Feeds,
  Texts,          \* GUIDs, links and the parts of a page's key
  Empty,          \* the text of length 0
  Contents,       \* of an item, Empty among them
  Split,          \* [Texts -> Seq(Texts)], what the base64 is cut into at each -
  Pages,          \* <<URL, match, replace>>
  Answers,        \* what a feed may say: [form, channel, entries]
  None,           \* no date, no item
  Overwritten,    \* an index that an item was stored over
  MaxTime         \* bound: the clock stops here

FeedKey(f, guid) == <<"feed", f, guid>>
PageKey(p) == <<"pagemonitor", p[1], p[2], p[3]>>

FeedKeys == {FeedKey(f, guid) : f \in Feeds, guid \in Texts}
PageKeys == {PageKey(p) : p \in Pages}

Dates == 0..MaxTime

(* An entry of a feed, as the decoder fills it in.                         *)
Links == [href : Texts, html : BOOLEAN, alternate : BOOLEAN]

AtomEntries ==
  [guid : Texts, links : Seq(Links), updated : Dates \union {None},
   published : Dates \union {None}, content : Contents, summary : Contents]

RSSEntries ==
  [guid : Texts, link : Texts, published : Dates \union {None}, content : Contents,
   summary : Contents]

Records == [link : Texts, date : Dates, contents : Contents, updated : Dates]

ASSUME ReadingAssumption ==
  /\ Feeds \subseteq Texts
  /\ Empty \in Texts \intersect Contents
  /\ \A a \in Answers :
       \/ a \in [form : {"atom"}, channel : Dates \union {None}, entries : Seq(AtomEntries)]
       \/ a \in [form : {"rss", "rdf"}, channel : Dates \union {None}, entries : Seq(RSSEntries)]
  /\ None \notin Dates \union Records
  /\ \A T \in SUBSET Texts : T # Overwritten
  /\ Pages \subseteq Texts \X Texts \X Texts
  /\ Split \in [Texts -> Seq(Texts) \ {<<>>}]
  /\ \A t \in Texts : Len(Split[t]) = 1 => Split[t] = <<t>>
  /\ MaxTime \in Nat \ {0}

VARIABLES
  now,
  items,     \* feed/<feed>/<GUID> and its contents
  index,     \* feed/<feed>/: the GUIDs listed
  pages,     \* keys of the pages stored
  feeds, watched,  \* the user's OPML and pages
  marks,     \* the user's read marks
  list,      \* what the browser shows
  opened,    \* what it asked for last, and what it got
  (* history *)
  got,       \* items of a feed's last answer
  reader     \* what the user has read and not marked unread since

store == <<items, index, pages>>
settings == <<feeds, watched>>
vars == <<now, items, index, pages, feeds, watched, marks, list, opened, got, reader>>

Nothing == [asked |-> None, found |-> None, there |-> FALSE]

Init ==
  /\ now = 1
  /\ items = [k \in FeedKeys |-> None]
  /\ index = [f \in Feeds |-> {}]
  /\ pages = {}
  /\ feeds = {}
  /\ watched = {}
  /\ marks = {}
  /\ list = {}
  /\ opened = Nothing
  /\ got = [f \in Feeds |-> None]
  /\ reader = {}

Tick ==
  /\ now < MaxTime
  /\ now' = now + 1
  /\ UNCHANGED <<store, settings, marks, list, opened, got, reader>>

-----------------------------------------------------------------------------
(* ParseFeed.  A date that does not parse counts as none.                  *)

FirstGiven(s, missing) ==
  LET given == {n \in DOMAIN s : s[n] # missing} IN
    IF given = {} THEN missing ELSE s[Min(given)]

(* The first link of an Atom entry to HTML, as its alternate.              *)
AtomLink(e) ==
  LET L == {n \in DOMAIN e.links :
              e.links[n].href # Empty /\ e.links[n].html /\ e.links[n].alternate} IN
    IF L = {} THEN Empty ELSE e.links[Min(L)].href

ParseAtom(e) ==
  [guid |-> FirstGiven(<<e.guid, AtomLink(e)>>, Empty),
   link |-> AtomLink(e),
   date |-> FirstGiven(<<e.updated, e.published, now>>, None),
   contents |-> FirstGiven(<<e.content, e.summary>>, Empty)]

ParseRSS(e, channel) ==
  [guid |-> FirstGiven(<<e.guid, e.link>>, Empty),
   link |-> e.link,
   date |-> FirstGiven(<<e.published, channel, now>>, None),
   contents |-> FirstGiven(<<e.content, e.summary>>, Empty)]

ParseRDF(e) ==
  [guid |-> e.link,
   link |-> e.link,
   date |-> FirstGiven(<<e.published, now>>, None),
   contents |-> e.summary]

ParseFeed(a) ==
  [n \in DOMAIN a.entries |->
     CASE a.form = "atom" -> ParseAtom(a.entries[n])
       [] a.form = "rss" -> ParseRSS(a.entries[n], a.channel)
       [] a.form = "rdf" -> ParseRDF(a.entries[n])]

-----------------------------------------------------------------------------
(* SaveFeeditems, item by item until one fails.  Nothing is written where  *)
(* nothing has changed.  Without a GUID the key is that of the index: what *)
(* is read there is no item, the item goes over the index, and from then   *)
(* on nothing can be listed.                                               *)

Stored(i) == [link |-> i.link, date |-> i.date, contents |-> i.contents, updated |-> now]

(* Mutant: the time of the fetch is compared as well.                      *)
SameStored(old, i) == old = Stored(i)

Same(old, i) ==
  /\ old # None
  /\ old.link = i.link
  /\ old.date = i.date
  /\ old.contents = i.contents

(* Mutant: an item that is there is left alone.                            *)
SaveNewItem(f, s, i) ==
  LET k == FeedKey(f, i.guid) IN
  CASE ~s.ok -> s
    [] s.ok /\ s.index = Overwritten -> [s EXCEPT !.ok = FALSE]
    [] s.ok /\ s.index # Overwritten /\ i.guid = Empty ->
         [s EXCEPT !.index = Overwritten, !.items[k] = Stored(i)]
    [] OTHER ->
         [s EXCEPT !.index = @ \union {i.guid},
                   !.items[k] = IF @ # None THEN @ ELSE Stored(i)]

SaveItem(f, s, i) ==
  LET k == FeedKey(f, i.guid) IN
  CASE ~s.ok -> s
    [] s.ok /\ s.index = Overwritten -> [s EXCEPT !.ok = FALSE]
    [] s.ok /\ s.index # Overwritten /\ i.guid = Empty ->
         [s EXCEPT !.index = Overwritten, !.items[k] = Stored(i)]
    [] OTHER ->
         [s EXCEPT !.index = @ \union {i.guid},
                   !.items[k] = IF Same(@, i) THEN @ ELSE Stored(i)]

(* What the store is after the first n items.                              *)
SaveFeeditems(f, parsed) ==
  LET saved[n \in 0..Len(parsed)] ==
        IF n = 0 THEN [items |-> items, index |-> index[f], ok |-> TRUE]
                 ELSE SaveItem(f, saved[n - 1], parsed[n])
  IN saved

(* FetchFeed.                                                              *)
FetchFeed(f, a) ==
  LET parsed == ParseFeed(a)
      saved == SaveFeeditems(f, parsed)[Len(parsed)]
  IN /\ items' = saved.items
     /\ index' = [index EXCEPT ![f] = saved.index]
     /\ got' = [got EXCEPT ![f] = IF saved.ok THEN parsed ELSE None]
     /\ UNCHANGED <<now, pages, settings, marks, list, opened, reader>>

(* Mutant: a change does not make the page unread.                         *)
FetchPageQuietly(p) ==
  /\ pages' = pages \union {PageKey(p)}
  /\ reader' = reader \ {PageKey(p)}
  /\ UNCHANGED <<now, items, index, settings, marks, list, opened, got>>

(* FetchPage finds the page changed (PageMonitor): it is unread again.     *)
FetchPage(p) ==
  /\ pages' = pages \union {PageKey(p)}
  /\ marks' = marks \ {PageKey(p)}
  /\ reader' = reader \ {PageKey(p)}
  /\ UNCHANGED <<now, items, index, settings, list, opened, got>>

(* The GC after a feed was not fetched for long: its items and their marks *)
(* go (FeedStore, UserData).                                               *)
CollectFeed(f) ==
  /\ f \notin feeds
  /\ index[f] # Overwritten
  /\ items' = [k \in FeedKeys |-> IF k[2] = f THEN None ELSE items[k]]
  /\ marks' = marks \ {FeedKey(f, guid) : guid \in Texts}
  /\ reader' = reader \ {FeedKey(f, guid) : guid \in Texts}
  /\ got' = [got EXCEPT ![f] = None]
  /\ UNCHANGED <<now, index, pages, settings, list, opened>>

-----------------------------------------------------------------------------
(* escapeKeyForURL, and what FeedItemHandler makes of it: the parts of the *)
(* URL, cut at each -, which is what then stands between two /.            *)

EscapeKey(k) ==
  IF k[1] = "feed" THEN <<"feed">> \o Split[k[2]] \o Split[k[3]]
  ELSE <<"pagemonitor">> \o Split[k[2]] \o Split[k[3]] \o Split[k[4]]

(* Mutant: parts beyond the last are not looked at.                        *)
DecodePrefix(u) ==
  CASE u[1] = "feed" /\ Len(u) >= 3 -> FeedKey(u[2], u[3])
    [] u[1] = "pagemonitor" /\ Len(u) >= 4 -> PageKey(Tail(u))
    [] OTHER -> None

DecodeFeeditemKey(u) == IF Len(u) = 3 THEN FeedKey(u[2], u[3]) ELSE None

DecodePagemonitorKey(u) == IF Len(u) = 4 THEN PageKey(Tail(u)) ELSE None

DecodeKey(u) == IF u[1] = "feed" THEN DecodeFeeditemKey(u) ELSE DecodePagemonitorKey(u)

-----------------------------------------------------------------------------
(* GetAllItems: GetFeeditems passes over what is listed and not there, and *)
(* over a feed whose index cannot be read.                                 *)

Entry(k) == [key |-> k, url |-> EscapeKey(k), read |-> k \in marks]

GetFeeditems ==
  {k \in FeedKeys : k[2] \in feeds /\ index[k[2]] # Overwritten /\ k[3] \in index[k[2]]
                      /\ items[k] # None}

GetPages == {PageKey(p) : p \in watched} \intersect pages

GetAllItems == {Entry(k) : k \in GetFeeditems \union GetPages}

FeedHandler ==
  /\ list' = GetAllItems
  /\ UNCHANGED <<now, store, settings, marks, opened, got, reader>>

(* GetFeeditem and GetPage by key.                                         *)
Found(k) == k # None /\ ((k \in FeedKeys /\ items[k] # None) \/ k \in pages)

(* Mutant: the URL is marked before the item is looked for.                *)
GetItemMarkFirst(e) ==
  LET k == DecodeKey(e.url)
      found == IF Found(k) THEN k ELSE None
  IN /\ opened' = [asked |-> e.key, found |-> found, there |-> Found(e.key)]
     /\ marks' = marks \union {e.url}
     /\ reader' = IF found = None THEN reader ELSE reader \union {e.key}
     /\ UNCHANGED <<now, store, settings, list, got>>

GetItem(e) ==
  LET k == DecodeKey(e.url)
      found == IF Found(k) THEN k ELSE None
  IN /\ opened' = [asked |-> e.key, found |-> found, there |-> Found(e.key)]
     /\ marks' = IF found = None THEN marks ELSE marks \union {found}
     /\ reader' = IF found = None THEN reader ELSE reader \union {e.key}
     /\ UNCHANGED <<now, store, settings, list, got>>

(* POST Read=false.  The key is not decoded, and need not exist.           *)
MarkUnread(e) ==
  /\ marks' = marks \ {e.url}
  /\ reader' = reader \ {e.key}
  /\ UNCHANGED <<now, store, settings, list, opened, got>>

(* SettingsHandler: the OPML and the pages are what the user says.         *)
SaveSettings(F, W) ==
  /\ feeds' = F
  /\ watched' = W
  /\ UNCHANGED <<now, store, marks, list, opened, got, reader>>

-----------------------------------------------------------------------------
(* A feed is fetched for other users too, and a page for this one.         *)
Next ==
  \/ Tick
  \/ \E f \in Feeds, a \in Answers : FetchFeed(f, a)
  \/ \E p \in watched : FetchPage(p)
  \/ \E f \in Feeds : CollectFeed(f)
  \/ FeedHandler
  \/ \E e \in list : GetItem(e) \/ MarkUnread(e)
  \/ \E F \in SUBSET Feeds, W \in SUBSET Pages : SaveSettings(F, W)

Spec == Init /\ [][Next]_vars

-----------------------------------------------------------------------------
(* Properties.                                                             *)

Plain(k) == \A n \in 2..Len(k) : Len(Split[k[n]]) = 1

Parsed == [guid : Texts, link : Texts, date : Dates, contents : Contents]

(* Every variable has its type: only items are stored and only GUIDs are   *)
(* listed, whatever the answer of a feed lacks; marks are of keys.         *)
TypeOK ==
  /\ now \in 1..MaxTime
  /\ items \in [FeedKeys -> Records \union {None}]
  /\ index \in [Feeds -> {Overwritten} \union SUBSET (Texts \ {Empty})]
  /\ got \in [Feeds -> {None} \union Seq(Parsed)]
  /\ pages \subseteq PageKeys
  /\ feeds \subseteq Feeds
  /\ watched \subseteq Pages
  /\ marks \subseteq FeedKeys \union PageKeys
  /\ \A e \in list : e.key \in FeedKeys \union PageKeys
  /\ opened.found \in FeedKeys \union PageKeys \union {None}

(* The URL of an item that the list once showed never leads to another     *)
(* item or page, and where no part of the key has a - it leads to that     *)
(* item as long as it exists.                                              *)
OpensWhatIsAsked ==
  /\ opened.found \in {None, opened.asked}
  /\ opened.there /\ Plain(opened.asked) => opened.found = opened.asked

(* The list says of every item whether the user has read it, through       *)
(* fetches of new versions, through unsubscribing and coming back.         *)
ReadShown == \A e \in GetAllItems : e.read <=> e.key \in reader

Latest(f) ==
  {n \in DOMAIN got[f] : \A m \in DOMAIN got[f] : got[f][m].guid = got[f][n].guid => m <= n}

Listed(f) ==
  got[f] # None =>
    \A n \in Latest(f) :
      LET i == got[f][n]
          k == FeedKey(f, i.guid)
      IN k \in GetFeeditems /\ Same(items[k], i)

(* After a fetch that reported no error every item of the answer is        *)
(* listed, as the answer has it; the last one of those that share a GUID.  *)
(* An answer with an item that has neither GUID nor link is excepted.      *)
FetchedIsListed == \A f \in feeds : index[f] # Overwritten => Listed(f)

(* "GetFeeditems returns all Feeditem items for user."                     *)
AllFetchedIsListed == \A f \in feeds : Listed(f)

(* An answer that is the same as the last one changes nothing in the store *)
(* ("Avoid writing to the database if nothing has changed"), unless it has *)
(* a GUID twice; an item without a date is not the same at another time.   *)
RefetchWritesNothing ==
  [][\A f \in Feeds :
       got[f] # None /\ got'[f] = got[f] /\ Latest(f) = DOMAIN got[f] /\ index[f] # Overwritten =>
         \A k \in FeedKeys : k[2] = f => items'[k] = items[k]]_vars
=============================================================================
