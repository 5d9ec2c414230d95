------------------------ MODULE MCProjectCatalog -------------------------
(* TLC instance of ProjectCatalog: CacheSettles is about fairness, which  *)
(* leaves no room for symmetry.                                           *)
EXTENDS ProjectCatalog
==========================================================================
