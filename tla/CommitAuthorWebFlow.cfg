SPECIFICATION Spec
CONSTANTS
  Commit = {"c1", "c2", "c3", "c4"}
  NoCommit = NoCommit
  MaxHops = 3
  MaxAttempts = 3
  PerPage = 3
  Histories <- MCHistories
INVARIANT NoWebFlowEverCredited
