CONSTANTS
  session1 = session1
  session2 = session2
  prompt1 = prompt1
  prompt2 = prompt2
  Sessions = {session1, session2}
  Prompts = {prompt1, prompt2}
  Stuck = {prompt2}
  MAX_ACTIVE_SESSIONS = 1
  MaxCancels = 2
  NoPrompt = NoPrompt
  NoSession = NoSession
SPECIFICATION RuntimeSpec
INVARIANTS
  AbortsItsOwn
PROPERTIES
  IsTurnService
  CancelFrees
