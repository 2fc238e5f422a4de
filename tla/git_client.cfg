CONSTANTS
  tab1 = tab1
  tab2 = tab2
  fiber1 = fiber1
  fiber2 = fiber2
  Tabs = {tab1, tab2}
  Slots = {fiber1, fiber2}
  Calls <- SmallCalls
  NoCall = NoCall
  maxWorkerOperations = 2
  MaxRequests = 4
  MaxReloads = 1
SPECIFICATION Spec
INVARIANTS
  NoLostUpdate
  AnswersAreHonest
  WaitsForLiveWorker
PROPERTIES
  EveryRequestEnds
