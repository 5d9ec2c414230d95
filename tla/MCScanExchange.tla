------------------------- MODULE MCScanExchange --------------------------
(* TLC instance of ScanExchange: a liveness property is checked, so that  *)
(* no symmetry is declared.                                               *)
EXTENDS ScanExchange
==========================================================================
