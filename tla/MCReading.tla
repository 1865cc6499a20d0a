----------------------------- MODULE MCReading ------------------------------
(***************************************************************************)
(* Reading for TLC: one feed and two pages, a text d whose base64 is that  *)
(* of x and y with a - between, and answers of the three forms.            *)
(***************************************************************************)
EXTENDS Reading

CONSTANTS f, x, y, d, c1, c2

MCSplit == [t \in Texts |-> IF t = d THEN <<x, y>> ELSE <<t>>]

MCPages == {<<x, Empty, Empty>>, <<d, y, Empty>>}

RSS(guid, link, published, content, summary) ==
  [guid |-> guid, link |-> link, published |-> published, content |-> content,
   summary |-> summary]

Link(href, html, alternate) == [href |-> href, html |-> html, alternate |-> alternate]

Atom(guid, links, updated, published, summary) ==
  [guid |-> guid, links |-> links, updated |-> updated, published |-> published,
   content |-> Empty, summary |-> summary]

Answer(form, channel, entries) == [form |-> form, channel |-> channel, entries |-> entries]

Identified ==
  {Answer("rss", None, <<RSS(x, y, 1, c1, c2)>>),
   Answer("rss", None, <<RSS(x, y, 1, Empty, c2), RSS(x, y, None, c1, Empty)>>),
   Answer("rss", 1, <<RSS(d, x, None, c1, Empty)>>),
   Answer("atom", None, <<Atom(Empty, <<Link(y, FALSE, TRUE), Link(x, TRUE, TRUE)>>, None, 1, c1)>>),
   Answer("rdf", None, <<RSS(y, x, None, c1, c2)>>)}

(* An Atom entry that only links to a file.                                *)
MCAnswers ==
  Identified \union
  {Answer("atom", None, <<Atom(Empty, <<Link(x, FALSE, TRUE)>>, 1, None, c1)>>)}
=============================================================================
