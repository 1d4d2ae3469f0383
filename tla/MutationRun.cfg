SPECIFICATION DispatchSpec
CONSTANTS
  File = {"a", "b", "tool"}
  InSource = {"a", "b"}
  MaxRuns = 2
  Source = {"x", "y"}
  Module = {"m1", "m2", "old"}
  Reactor = {"m1", "m2"}
  Testing <- MCTesting
  Diff <- MCDiff
INVARIANTS DispatchTypeOK CountsAreOfThisRun ScopeRestored OneConfigurationPerRun
  ReportsOfThisRun NoEscapeeForgotten
PROPERTY DispatchEnds
