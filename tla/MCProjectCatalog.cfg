CONSTANTS
  Calls = {c1, c2}
  ProjectIds = {p1, p2}
  NoId = noProject
SPECIFICATION FairSpec
INVARIANTS OnlyPublishedShown IndexFollowsRow CacheFollowsRow
PROPERTY CacheSettles
CHECK_DEADLOCK FALSE
