--------------------------- MODULE MCPageMonitor ----------------------------
(***************************************************************************)
(* PageMonitor for TLC.  Two texts may be the same once filtered, as when  *)
(* Match strips a date from the page.                                      *)
(***************************************************************************)
EXTENDS PageMonitor

CONSTANTS A, B

(* B differs from A only in what Match removes.                            *)
MergingFilter == [t \in Texts |-> IF t = B THEN A ELSE t]
=============================================================================
