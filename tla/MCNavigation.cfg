CONSTANTS
  p1 = p1
  p2 = p2
  mod = mod
  plugin = plugin
  Types = {mod, plugin}
  DefaultType = mod
  Projects = {p1, p2}
  TypeOf <- MCTypeOf
  Users = {alex}
  Organizations = {team}
  Collections = {picks}
  Targets = {draft}
  StaticViews = {"home", "dashboard"}
  Versions = {v1}
  Sections = {overview, moderation}
  Overview = overview
  None = None
  MaxHistory = 3
SPECIFICATION NavSpec
INVARIANTS ShownIsAddressed SearchIsAddressed
PROPERTIES StepsShowWhatWasLeft OnlyOwnLinksPart
CHECK_DEADLOCK FALSE
