SPECIFICATION Spec
CONSTANTS
  Companions <- MCCompanions
  Verifier = {"v1", "v2"}
  MaxAttempts = 3
  MaxRuns = 2
INVARIANTS TypeOK CompanionsOfThisRun VerdictOnOwnPayload OldScoreNeedsARace
PROPERTY RunsEnd
