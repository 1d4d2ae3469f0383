-------------------------- MODULE ComplianceTracks --------------------------
(***************************************************************************)
(* The SLSA checklists of cli/verify.py: the Source track, levels 1 to 4,  *)
(* read from an assay statement, and the Build track, levels 1 to 3, read  *)
(* from a provenance statement and from what is known of the signer.  A    *)
(* statement is a decoded in-toto payload of any predicate type; a field   *)
(* that is missing or of the wrong shape is `Absent`, FALSE or {}.         *)
(***************************************************************************)
EXTENDS Integers, Sequences, FiniteSets

CONSTANTS
  Absent,      \* a field, a flag or a file that was not given
  Malformed,   \* a field of the wrong type
  Digest,      \* subject digests
  Builder,     \* runDetails.builder.id, and the workflow of a certificate
  Repository,  \* repository names, as text
  Reason,      \* degraded reasons
  Contains     \* the pairs <<a, b>> of repository names where b is a substring of a

ASSUME ContainsAssumption == Contains \subseteq Repository \X Repository

ControlPlaneBuilders == {"sign-client"} \cap Builder
HostedBuilders == {"actions-runner", "sign-client"} \cap Builder

PredicateType == {"assay", "slsa", "other"}

ScoreBlock ==
  [value : Int \cup {Malformed}, degraded : BOOLEAN \cup {Absent, Malformed},
   reasons : (SUBSET Reason) \cup {Absent, Malformed}]

\* `named`: provider, repository and branch; `revisions`: both commit hashes.
Vcs ==
  [named : BOOLEAN, revisions : BOOLEAN, pr : {"none", "partial", "complete"},
   author : {"absent", "unavailable", "unlinked", "linked"}]

\* `approvals` is Absent when it is missing or no integer.
BranchRules == [unsupportedTier : BOOLEAN, approvals : Int \cup {Absent}]

\* `invoked`: an invocation id, or both timestamps.
Build ==
  [defined : BOOLEAN, invoked : BOOLEAN, builder : Builder \cup {Absent},
   repository : Repository \cup {Absent}]

Statement ==
  [type : PredicateType, intoto : BOOLEAN, digests : SUBSET Digest, score : ScoreBlock,
   commitSignature : {"absent", "unavailable", "unverified", "verified"},
   mutation : {"absent", "passed", "degraded", "failed"},
   vcs : Vcs, rules : BranchRules, build : Build]

\* A predicate in which nothing is found.
EmptyStatement ==
  [type |-> "other", intoto |-> FALSE, digests |-> {},
   score |-> [value |-> Malformed, degraded |-> Absent, reasons |-> Absent],
   commitSignature |-> "absent", mutation |-> "absent",
   vcs |-> [named |-> FALSE, revisions |-> FALSE, pr |-> "none", author |-> "absent"],
   rules |-> [unsupportedTier |-> FALSE, approvals |-> Absent],
   build |-> [defined |-> FALSE, invoked |-> FALSE, builder |-> Absent, repository |-> Absent]]

-----------------------------------------------------------------------------
(* Which statement each track is read from.                                 *)

\* Mistake: the last statement of the type wins, not the first.
AssayStatementLastWins(primary, secondary) ==
  IF secondary # Absent /\ secondary.type = "assay" THEN secondary ELSE primary

\* The first statement of the type wanted; the primary one if there is none.
AssayStatement(primary, secondary) ==
  IF primary.type # "assay" /\ secondary # Absent /\ secondary.type = "assay"
    THEN secondary ELSE primary

BuildStatement(primary, secondary) ==
  IF primary.type # "slsa" /\ secondary # Absent /\ secondary.type = "slsa"
    THEN secondary ELSE primary

-----------------------------------------------------------------------------
(* The checklists: a sequence of levels, TRUE where all of its own items    *)
(* pass.  Items of one level are judged whatever the levels below it say.   *)

VerifiedHistory(vcs) == vcs.revisions /\ vcs.pr # "partial"

TwoPartyReview(rules) ==
  /\ ~rules.unsupportedTier
  /\ rules.approvals # Absent
  /\ rules.approvals >= 1

SourceLevels(s) ==
  <<s.vcs.named, VerifiedHistory(s.vcs), s.vcs.author = "linked", TwoPartyReview(s.rules)>>

\* Mistake: without an asserted signer there is nothing to compare.
IsolatedGenerationOptional(build, identity, signer) ==
  identity = "verified" /\ (signer # Absent => signer.workflow = build.builder)

\* The signer the caller asked for, once verified, is the builder named.
IsolatedGeneration(build, identity, signer) ==
  /\ identity = "verified"
  /\ signer # Absent
  /\ signer.workflow = build.builder

\* `expected` is the repository asked for; the comparison is by substring.
SourceBound(build, expected) ==
  /\ build.repository # Absent
  /\ expected # Absent => <<build.repository, expected>> \in Contains

BuildLevels(s, identity, signer, expected) ==
  << /\ s.intoto
     /\ s.type = "slsa"
     /\ s.build.defined /\ s.build.invoked
     /\ s.digests # {},
     /\ s.build.builder \in HostedBuilders
     /\ identity = "verified"
     /\ SourceBound(s.build, expected),
     /\ s.build.builder \in ControlPlaneBuilders
     /\ IsolatedGeneration(s.build, identity, signer) >>

\* Levels are cumulative: one counts only when all below it pass too.
CumulativeTrackStatus(levels) == [n \in DOMAIN levels |-> \A k \in 1..n : levels[k]]

\* Mistake: the highest level whose own items pass.
HighestPassingLevelOwn(levels) ==
  LET passing == {n \in DOMAIN levels : levels[n]}
  IN  IF passing = {} THEN 0 ELSE CHOOSE n \in passing : \A k \in passing : k <= n

HighestPassingLevel(levels) == Cardinality({n \in DOMAIN levels : CumulativeTrackStatus(levels)[n]})
=============================================================================
