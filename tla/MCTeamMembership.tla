------------------------ MODULE MCTeamMembership -------------------------
(* TLC instance of TeamMembership.  The requests, the users other than    *)
(* the founder and the identifiers of new rows are interchangeable.       *)
EXTENDS TeamMembership, TLC

Interchangeable ==
  Permutations(Calls) \cup Permutations(Users \ {Founder})
    \cup Permutations(RowIds \ {FounderId})
==========================================================================
