CONSTANTS
  shape1 = shape1
  shape2 = shape2
  cancel1 = cancel1
  session1 = session1
  session2 = session2
  document1 = document1
  document2 = document2
  request1 = request1
  request2 = request2
  Shapes = {shape1}
  Cancels = {cancel1}
  Selects = {}
  Proposers = {}
  Requests = {request1}
  Sessions = {session1, session2}
  Documents = {document1, document2}
  Plain = Plain
  Controlled = {}
  BUS_CAPACITY = 1
  MaxDisturbances = 0
  MaxEvents = 0
  NoCommand = NoCommand
  NoSession = NoSession
  NoDocument = NoDocument
  NoRequest = NoRequest
SPECIFICATION Spec
PROPERTIES
  CancelStops
CHECK_DEADLOCK FALSE
