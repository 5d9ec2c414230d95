-------------------------- MODULE MCCredentials --------------------------
(* TLC instance of Credentials.  Requests, keys, reset tokens and secrets *)
(* are interchangeable.                                                   *)
EXTENDS Credentials, TLC

Interchangeable ==
  Permutations(Calls) \cup Permutations(KeyIds)
    \cup Permutations(ResetIds) \cup Permutations(Secrets)
==========================================================================
