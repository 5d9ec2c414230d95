-------------------------- MODULE MCFriendships --------------------------
(* TLC instance of Friendships.  Requests, users and row identifiers are  *)
(* interchangeable.                                                       *)
EXTENDS Friendships, TLC

Interchangeable ==
  Permutations(Calls) \cup Permutations(Users) \cup Permutations(RowIds)
==========================================================================
