--------------------------- MODULE MCReleases ----------------------------
(* TLC instance of Releases.  Requests, identifiers and files are         *)
(* interchangeable.                                                       *)
EXTENDS Releases, TLC

Interchangeable ==
  Permutations(Calls) \cup Permutations(VersionIds)
    \cup Permutations(Files)
==========================================================================
