CONSTANTS
  Calls = {c1, c2, c3}
  VersionIds = {v1, v2}
  Files = {f1, f2}
  Numbers = {n1, empty}
  EmptyNumber = empty
  NoId = noVersion
  NoNumber = noNumber
SYMMETRY Interchangeable
SPECIFICATION Spec
INVARIANTS RulingStands VettedOnArrival DownloadedWasPublished CountersAgree DecisionsRecorded
CHECK_DEADLOCK FALSE
