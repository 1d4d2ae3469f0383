SPECIFICATION Spec
CONSTANTS
  Language = {"python", "go"}
  MinSample = 3
  NoDigest = NoDigest
  SubjectDigest = "app"
  RunMinRcs = 70
  TestCase = {"a", "b"}
  TestName = {"smoke", "checks"}
  ScanFile = {"lint"}
  Rule = {"eval", "secret", "style"}
  Path <- MCPath
  Line <- MCLine
  LanguageOf <- MCLanguageOf
  Diffs <- MCDiffs
  ReportInputs <- MCReportInputs
  ContextInputs <- MCContextInputs
  PullRequests <- MCPullRequests
  GovernanceInputs <- MCGovernanceInputs
  ScanInputs <- MCScanInputs
  LanguageOutcomes <- MCLanguageOutcomes
  Gates <- MCGates
INVARIANTS TypeOK StrictAdmissionSafe NewFindingsAreOfThePatch RealCoverageIsOfTheSamePatch LosingAControlNeverHelps UnconfiguredLanguageNeverHelps
PROPERTY PromiseSpec
