--------------------------- MODULE MCNavigation ---------------------------
(* TLC instance of Navigation: two lists, a project in each, one page of   *)
(* every other kind.                                                       *)
EXTENDS Navigation

CONSTANTS p1, p2, mod, plugin

MCTypeOf(p) == IF p = p1 THEN mod ELSE plugin
===========================================================================
