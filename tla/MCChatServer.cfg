SPECIFICATION FairSpec
CONSTANTS
  Line <- MCLine
  Typed <- MCTyped
  Client = {"ann", "bob"}
  Says <- MCSays
  Patient = {"ann"}
  Fragile = {"bob"}
  Reading = {"ann"}
  QuitWords = {"bye"}
  Window = 1
INVARIANTS TypeOK SameConversation EchoesInOrder
PROPERTIES UsesStreams PatientAreEchoed AllAreTold
CHECK_DEADLOCK FALSE
