SPECIFICATION EvidenceSpec
CONSTANTS
  Commit = {"c1", "c2", "c3", "c4"}
  NoCommit = NoCommit
  MaxHops = 3
  MaxAttempts = 3
  PerPage = 3
  Histories <- MCHistories
  Quiet <- MCQuiet
  Worlds <- MCWorlds
  Name = {"a", "ab", "b"}
  Version = {"1", "2"}
  NoName = NoName
  Hash <- MCHash
  Term = {"mit", "gpl", "odd"}
  Policy <- MCPolicy
  Dir = {"root", "d1", "d2", "d3"}
  Root = "root"
  StartsWith <- MCStartsWith
  Journey = {"j1", "j2"}
  NoId = NoId
  Stage = {"s1", "s2"}
  Contracts <- MCContracts
  StageTests <- MCStageTests
  MaxReported = 2
INVARIANTS
  EvidenceTypeOK HeadWebFlowNeverCredited IncompleteWalkDeterminesNothing ResolvedWithoutFailure
  LicenseNeverLaundered ListedAsDeclared NoVerdictFromSilence DenylistedNeverSlipsThrough
  MetIsEarned NothingFallsBetweenTiers
PROPERTY EvidenceRunEnds
