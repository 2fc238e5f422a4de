CONSTANTS
  d0 = d0
  d1 = d1
  d2 = d2
  Documents = {d0, d1, d2}
  BuiltIn = d0
  Extensions = {e1}
  NoExtension = NoExtension
  RequestSources = {"shaper"}
  MaxSequence = 5
  MaxId = 3
  MaxFaults = 1
SPECIFICATION Spec
SYMMETRY DocumentSymmetry
INVARIANTS
  TypeOK
  CandidateFollowsActive
  SafeModeIsProtected
  OnlyDecidedIsShown
  JournalLoadsUnlessExtensionEvent
  ReportedSafeModeSurvives
  RestartKeepsReportedState
