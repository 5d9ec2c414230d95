CONSTANTS
  Scans = {s1, s2}
  MaxChunks = 2
SPECIFICATION Spec
INVARIANTS VerdictOfWholeFile ExposedWhileSending
PROPERTIES EveryScanEnds
CHECK_DEADLOCK FALSE
