CONSTANTS
  builtIn = builtIn
  plain = plain
  static = static
  framework = framework
  demanding = demanding
  Documents = {builtIn, plain, static, framework, demanding}
  BuiltIn = builtIn
  Extensions = {}
  NoExtension = NoExtension
  RequestSources = {"user", "shaper"}
  MaxSequence = 5
  MaxId = 3
  MaxFaults = 1
  Apps = {static, framework, demanding}
  Sourced = {framework}
  Frameworks = {framework}
  Blocked = {demanding}
  Imported = {framework}
  NoApp = NoApp
SPECIFICATION Spec
INVARIANTS
  ActivationIsReviewed
  AppFollowsDocument
  ShownAppStaysBound
  FailedDecisionChangesNothing
