CONSTANTS
  workspace1 = workspace1
  Workspaces = {workspace1, workspace2}
  Digests = {digest1}
  digest1 = digest1
  workspace2 = workspace2
  Callers = {caller1}
  caller1 = caller1
  caller2 = caller2
  confirmationPolicies = {"once", "session", "workspace", "persistent"}
  maxRate <- OncePerTwo
  maxGrantDurationMs = 1
  AllowChoices <- SmallChoices
  LegacyStates = {"granted"}
  legacyOthers = TRUE
  MaxDecisions = 1
  MaxTime = 2
  MaxInvocations = 3
  MaxFaults = 0
  MaxReloads = 1
SPECIFICATION Spec
PROPERTIES
  RevokingPreventsLaterInvocations
