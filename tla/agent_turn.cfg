CONSTANTS
  shape1 = shape1
  shape2 = shape2
  cancel1 = cancel1
  session1 = session1
  session2 = session2
  document1 = document1
  document2 = document2
  request1 = request1
  request2 = request2
  Shapes = {shape1, shape2}
  Cancels = {cancel1}
  Selects = {cancel1}
  Proposers = {shape1}
  Requests = {request1, request2}
  Sessions = {session1, session2}
  Documents = {document1, document2}
  Plain = Plain
  Controlled = {shape2}
  BUS_CAPACITY = 1
  MaxDisturbances = 1
  MaxEvents = 2
  NoCommand = NoCommand
  NoSession = NoSession
  NoDocument = NoDocument
  NoRequest = NoRequest
SPECIFICATION EndingSpec
INVARIANTS
  PromisesKept
  RoleFollowsTurn
  NoSessionLost
PROPERTIES
  BusyOnlyAfterInterruption
  EveryCommandEnds
CHECK_DEADLOCK FALSE
