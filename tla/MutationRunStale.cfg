SPECIFICATION Spec
CONSTANTS
  File = {"a", "b", "tool"}
  InSource = {"a", "b"}
  MaxRuns = 3
INVARIANT NoStaleCounts
