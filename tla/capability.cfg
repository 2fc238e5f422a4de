CONSTANTS
  workspace1 = workspace1
  Workspaces = {workspace1, workspace2}
  Digests = {digest1}
  digest1 = digest1
  workspace2 = workspace2
  Callers = {caller1, caller2}
  caller1 = caller1
  caller2 = caller2
  confirmationPolicies = {"once", "session", "workspace", "persistent"}
  maxRate <- OncePerTwo
  maxGrantDurationMs = 1
  AllowChoices <- SmallChoices
  LegacyStates = {"granted"}
  legacyOthers = FALSE
  MaxDecisions = 1
  MaxTime = 2
  MaxInvocations = 3
  MaxFaults = 2
  MaxReloads = 2
SPECIFICATION Spec
INVARIANTS
  AuthorityIsLatest
  StoreFollowsMemory
  RevocationStops
  OnceIsOnce
  RateBounded
PROPERTIES
  BeginsUnderLastWord
  StreamEnds
