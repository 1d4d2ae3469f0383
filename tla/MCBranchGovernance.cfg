SPECIFICATION Spec
CONSTANTS
  MaxPages = 2
  PageSize = 1
  RulesetIds = {1, 2, 3}
  MaxEdits = 2
  RulePages <- MCRulePages
  Configurations <- MCConfigurations
INVARIANTS TypeOK AvailableReportIsAnswered UnwarnedCleanIsWitnessed RequestsBounded
