--------------------------- MODULE MCBackupRestore --------------------------
(***************************************************************************)
(* BackupRestore for TLC: two names, two profiles that share a feed, one   *)
(* whose XML is broken; databases that a killed program may have left.     *)
(***************************************************************************)
EXTENDS BackupRestore, TLC

CONSTANTS a, b, all, some, broken, f, o, g, h, p, v1, v2, bytes, k

MCFeedsOf == [q \in Profiles |-> IF q = broken THEN {} ELSE {f}]
MCPagesOf == [q \in Profiles |-> IF q = all THEN {p} ELSE {}]

(* A page that is not UTF-8.                                               *)
MCEncoded == [x \in Versions |-> IF x = bytes THEN v2 ELSE x]

I == <<f, g>>  \* items of the feed they share
H == <<f, h>>
O == <<o, g>>  \* an item of a feed nobody has

(* A record is listed first and written then.                              *)
MCSources ==
  {[users |-> (a :> x @@ b :> y), userIndex |-> {a} \union B,
    marks |-> (a :> M @@ b :> {I}),
    items |-> (I :> i[1] @@ H :> v1 @@ O :> v1 @@ <<o, h>> :> None), itemIndex |-> {I, H, O},
    contents |-> (I :> i[2] @@ H :> v2 @@ O :> v1 @@ <<o, h>> :> None),
    pages |-> (p :> q),
    vars |-> (k :> v), varIndex |-> {k},
    stale |-> {}, unseen |-> {O, <<o, h>>}] :
      x \in {all, None}, y \in {some, None, broken}, B \in {{}, {b}},
      M \in SUBSET {I, p},
      i \in {<<None, None>>, <<v1, None>>, <<v1, v1>>}, q \in {None, v1, bytes}, v \in {None, v1}}

Old ==
  [users |-> (a :> some @@ b :> None), userIndex |-> {a, b},
   marks |-> (a :> {O} @@ b :> {p}),
   items |-> (I :> v1 @@ H :> None @@ O :> v2 @@ <<o, h>> :> None), itemIndex |-> {I, O},
   contents |-> (I :> v2 @@ H :> None @@ O :> v2 @@ <<o, h>> :> None),
   pages |-> (p :> v2),
   vars |-> (k :> None), varIndex |-> {},
   stale |-> {f, p}, unseen |-> {I, H, <<o, h>>}]

MCTargets == {Old, [Old EXCEPT !.stale = {o}, !.userIndex = {a}, !.items[I] = v2]}
=============================================================================
