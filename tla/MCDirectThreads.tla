------------------------- MODULE MCDirectThreads -------------------------
(* TLC instance of DirectThreads.  Users, requests and identifiers are    *)
(* interchangeable.                                                       *)
EXTENDS DirectThreads, TLC

Interchangeable ==
  Permutations(People) \cup Permutations(Requests) \cup Permutations(ThreadIds)
==========================================================================
