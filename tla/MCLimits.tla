------------------------------ MODULE MCLimits -------------------------------
(* A small instance of Limits for TLC.                                      *)
EXTENDS Limits

CONSTANTS k1, u1

(* An API key of a user, the user alone, or nothing: two requests meet at  *)
(* the user's scope, and one of them may hold a slot already.              *)
MaybeNoScope == {<<k1, u1>>, <<u1>>, <<>>}
==============================================================================
