----------------------------- MODULE MCUserData -----------------------------
(***************************************************************************)
(* UserData for TLC.  The .cfg gives every set of names, keys and          *)
(* goroutines as model values.                                             *)
(***************************************************************************)
EXTENDS UserHistory, TLC

(* Nothing tells two registered names, two free names, two keys or two     *)
(* goroutines of a kind apart.  Only runs that check safety use this.      *)
Symmetry ==
  UNION {Permutations(S) : S \in {Registered, Names \ Registered, Keys, Settings, Viewers}}
=============================================================================
