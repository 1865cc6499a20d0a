---------------------------- MODULE MCLifecycle ----------------------------
(***************************************************************************)
(* Lifecycle for TLC: one user with a page and two feeds, one who shares   *)
(* the page and whose feeds are broken, and one who shares a feed and      *)
(* whose pages are broken.                                                 *)
(***************************************************************************)
EXTENDS Lifecycle

CONSTANTS u, v, w, p, f, g

MCPagesOf == [n \in Users |-> IF n = w THEN {} ELSE {p}]
MCFeedsOf == [n \in Users |-> IF n = u THEN {f, g} ELSE IF n = v THEN {} ELSE {f}]
=============================================================================
