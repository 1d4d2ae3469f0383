SPECIFICATION Spec
CONSTANTS
  MaxPages = 2
  PageSize = 2
  RulesetIds = {1, 2}
  MaxEdits = 2
  RulePages <- MCRulePages
  Configurations <- MCConfigurations
INVARIANT CleanIsWitnessed
