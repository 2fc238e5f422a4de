CONSTANTS
  command1 = command1
  revocation1 = revocation1
  another = another
  Commands = {command1}
  Revocations = {revocation1}
  Another = another
  MAX_PENDING = 1
  MAX_RECEIPTS = 2
  MaxGrants = 2
  MaxSubmits = 1
  MaxToggles = 2
  MaxOthers = 0
  MaxDisturbances = 1
SPECIFICATION Spec
PROPERTIES
  RevocationCompletes
  EnableTakesEffectUndisturbed
CHECK_DEADLOCK FALSE
