------------------------- MODULE MCAccountEmail --------------------------
(* TLC instance of AccountEmail.                                          *)
EXTENDS AccountEmail, TLC

Interchangeable ==
  Permutations(Users) \cup Permutations(Addresses)
    \cup Permutations(Tokens) \cup Permutations(Requests)
==========================================================================
