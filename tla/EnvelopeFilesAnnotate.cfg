SPECIFICATION Spec
CONSTANTS
  Companions <- MCCompanions
  Verifier = {}
  MaxAttempts = 3
  MaxRuns = 2
INVARIANT PassingRunKeepsItsScore
