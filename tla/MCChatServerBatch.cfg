SPECIFICATION Spec
CONSTANTS
  Line <- MCLine
  Typed <- MCTyped
  Client = {"ann", "bob"}
  Says <- MCSays
  Patient = {"ann"}
  Fragile = {"bob"}
  Reading = {"ann"}
  QuitWords = {"bye"}
  Window = 1
PROPERTY EveryMessageIsEchoed
CHECK_DEADLOCK FALSE
