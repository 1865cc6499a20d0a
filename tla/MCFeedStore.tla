----------------------------- MODULE MCFeedStore ----------------------------
(***************************************************************************)
(* FeedStore for TLC.  Skip is half of TTL, as in the program.             *)
(***************************************************************************)
EXTENDS FeedStore

CONSTANTS a, b

MCAnswers == {<<a, b>>}
=============================================================================
