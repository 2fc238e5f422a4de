CONSTANTS
  d0 = d0
  d1 = d1
  Documents = {d0, d1}
  BuiltIn = d0
  Extensions = {e1}
  NoExtension = NoExtension
  SafeStarts = {FALSE, TRUE}
  MaxSequence = 3
  MaxId = 2
  MaxCommits = 5
  MaxStops = 1
  MaxFaults = 1
  MaxSource = 1
SPECIFICATION Spec
CONSTRAINT OneDisturbance
INVARIANTS
  RecoverySurvives
  SourceFollowsDocument
  ShownIsDecided
  CrashShowsOldOrNew
  RefsMatchReceipt
