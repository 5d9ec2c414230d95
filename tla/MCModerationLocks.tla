------------------------ MODULE MCModerationLocks ------------------------
(* TLC instance of ModerationLocks.  Requests are interchangeable, and so *)
(* are moderators.                                                        *)
EXTENDS ModerationLocks, TLC

Interchangeable == Permutations(Calls) \cup Permutations(Moderators)
==========================================================================
