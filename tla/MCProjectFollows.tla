------------------------ MODULE MCProjectFollows -------------------------
(* TLC instance of ProjectFollows.  Requests are interchangeable, and so  *)
(* are users.                                                             *)
EXTENDS ProjectFollows, TLC

Interchangeable == Permutations(Calls) \cup Permutations(Users)
==========================================================================
