-------------------------- MODULE ProvenanceEvidence --------------------------
(***************************************************************************)
(* Steps 3b to 6e of main() in cli/main.py, in their order: the author of   *)
(* the head commit is inspected, the scans and the SBOM are read, the       *)
(* lockfiles are walked, the supply chain controls are evaluated over what  *)
(* these steps found, and the functional reports are held against the       *)
(* contract (again after deployment, by the command of that name).  What a  *)
(* step keeps to itself is gone when it returns; what it hands on is still  *)
(* there when the next one reads it.  An exception that nothing catches     *)
(* ends the run without a statement.                                        *)
(***************************************************************************)
EXTENDS CommitAuthor, ResolvedDependencies, S2C2F, FunctionalAdequacy

CONSTANTS
  Worlds,  \* the inputs, checkouts and settings to run against
  Quiet    \* a history, for the time after the inspection

\* What a run is given and finds.
World(w) ==
  /\ w.bill \in Bill
  /\ \A p \in DOMAIN w.curated : w.curated[p] \in Expression
  /\ IsScanReport(w.sarif)
  /\ DOMAIN w.repository = Dir /\ \A d \in Dir : IsDirectory(w.repository[d])
  /\ w.evidence \in Evidence
  /\ w.setting \in Setting

ASSUME EvidenceAssumption == Quiet \in Histories /\ \A w \in Worlds : World(w)

VARIABLE stage  \* the step main() is in

evidenceVars == <<vars, sbomVars, dependencyVars, s2c2fVars, adequacyVars, stage>>

-----------------------------------------------------------------------------
EvidenceInit ==
  /\ Init
  /\ bill = NoBill /\ sbom = NoSbom /\ curated = NoCurations /\ sarif = NoScan /\ scan = NoScan
  /\ repository = NoRepository /\ pending = << >> /\ resolved = {}
  /\ setting = NoSetting /\ evidence = NoEvidence /\ NothingRequested
  /\ AdequacyInit
  /\ stage = "author"

\* inspect_commit_author returns.
AuthorInspected ==
  /\ stage = "author" /\ pc = "done"
  /\ stage' = "inputs"
  /\ history' = Quiet /\ indexed' = FALSE /\ early' = FALSE /\ pc' = "commit"
  /\ current' = NoCommit /\ source' = NoCommit /\ target' = Quiet.head
  /\ hop' = 0 /\ attempts' = 0 /\ failed' = FALSE /\ verified' = "unknown"
  /\ UNCHANGED <<sbomVars, dependencyVars, s2c2fVars, adequacyVars>>

\* The inputs and the repository the later steps read are chosen here, where
\* nothing has read them yet.
InputsGiven ==
  /\ stage = "inputs"
  /\ stage' = "scans"
  /\ \E w \in Worlds :
       /\ bill' = w.bill /\ curated' = w.curated /\ sarif' = w.sarif
       /\ repository' = w.repository
       /\ evidence' = w.evidence /\ setting' = w.setting
  /\ UNCHANGED <<vars, sbom, scan, pending, resolved, moved, request, place, candidate,
                 alerts, dependabot, securityMd, controls, adequacyVars>>

\* _ingest_sbom and _merge_sbom_into_sarif.
ScansIngested ==
  /\ stage = "scans"
  /\ IngestScans
  /\ stage' = "dependencies"
  /\ UNCHANGED <<vars, dependencyVars, s2c2fVars, adequacyVars>>

\* _detect_lockfile_dependencies.
WalkStarted ==
  /\ stage = "dependencies"
  /\ StartWalk
  /\ stage' = "walk"
  /\ UNCHANGED <<vars, sbomVars, s2c2fVars, adequacyVars>>

DirectoryListed ==
  /\ stage = "walk"
  /\ ListDirectory
  /\ UNCHANGED <<vars, sbomVars, s2c2fVars, adequacyVars, stage>>

DependenciesDetected ==
  /\ stage = "walk"
  /\ WalkEnds
  /\ stage' = "controls"
  /\ UNCHANGED <<vars, sbomVars, s2c2fVars, adequacyVars>>

\* _evaluate_s2c2f_controls: what it is handed is what the steps before left.
ControlsEvaluated ==
  /\ stage = "controls"
  /\ ControlRequests \/ EvaluateControls(resolved, scan.tools)
  /\ UNCHANGED <<vars, sbomVars, dependencyVars, adequacyVars, stage>>

\* The controls are on record, or the run ended with a traceback.
ControlsEnd ==
  /\ stage = "controls" /\ request \in {"reported", "raised"}
  /\ stage' = IF request = "raised" THEN "raised" ELSE "functional"
  /\ bill' = NoBill /\ sbom' = NoSbom /\ curated' = NoCurations /\ sarif' = NoScan
  /\ scan' = NoScan
  /\ repository' = NoRepository /\ resolved' = {}
  /\ setting' = NoSetting /\ evidence' = NoEvidence /\ RequestsForgotten
  /\ UNCHANGED <<vars, pending, adequacyVars>>

\* _evaluate_functional_adequacy, and the same evaluator after deployment.
FunctionalStep ==
  /\ stage = "functional"
  /\ AdequacyStep
  /\ UNCHANGED <<vars, sbomVars, dependencyVars, s2c2fVars, stage>>

EvidenceCollected ==
  /\ stage = "functional" /\ tier = "cd" /\ suite = "evaluated"
  /\ stage' = "done"
  /\ UNCHANGED <<vars, sbomVars, dependencyVars, s2c2fVars, adequacyVars>>

InspectAuthor ==
  /\ stage = "author"
  /\ Inspect
  /\ UNCHANGED <<sbomVars, dependencyVars, s2c2fVars, adequacyVars, stage>>

\* GitHub indexes a pull request, or somebody moves a file, meanwhile.
Meanwhile ==
  \/ /\ stage = "author" /\ GitHubIndexes
     /\ UNCHANGED <<sbomVars, dependencyVars, s2c2fVars, adequacyVars, stage>>
  \/ /\ stage = "controls" /\ SecurityMdMoves
     /\ UNCHANGED <<vars, sbomVars, dependencyVars, adequacyVars, stage>>

\* A step of the run itself.
Proceed ==
  \/ InspectAuthor \/ AuthorInspected \/ InputsGiven
  \/ ScansIngested
  \/ WalkStarted \/ DirectoryListed \/ DependenciesDetected
  \/ ControlsEvaluated \/ ControlsEnd
  \/ FunctionalStep \/ EvidenceCollected

Over == stage \in {"done", "raised"} /\ UNCHANGED evidenceVars

EvidenceNext == Proceed \/ Meanwhile \/ Over

\* The run is sequential, every request has a socket timeout, and a suite
\* either goes on or is cut short.
EvidenceSpec ==
  EvidenceInit /\ [][EvidenceNext]_evidenceVars /\ WF_evidenceVars(Proceed)

-----------------------------------------------------------------------------
(* Properties.                                                              *)

\* The types of every step's variables; a run that has a step to make is in
\* one of the steps of main().
EvidenceTypeOK ==
  /\ TypeOK /\ SbomTypeOK /\ DependencyTypeOK /\ S2C2FTypeOK /\ AdequacyTypeOK
  /\ stage \in {"author", "inputs", "scans", "dependencies", "walk", "controls", "functional",
                "done", "raised"}

\* What the statement lists is what the lockfiles in reach declare: every
\* package that is declared by one of them is listed, once, with the digest
\* one of them declares for it, never with that of a neighbouring entry; and
\* the SBOM is listed only where they declare nothing.
ListedAsDeclared ==
  stage \in {"walk", "controls"} =>
    LET declared == Declared(repository)
    IN  /\ \A d, e \in resolved : d.uri = e.uri => d = e
        /\ IF declared = {}
             THEN resolved \subseteq SbomDependencies(sbom)
             ELSE /\ resolved \subseteq declared
                  /\ stage = "controls" => Uris(resolved) = Uris(declared)

\* The packages the run has to answer for: those the lockfiles in reach
\* declare, or, where they declare none, those of the SBOM.
Consumed ==
  LET declared == Declared(repository)
  IN  IF declared # {} THEN Uris(declared)
      ELSE {c.purl : c \in {b \in ToSet(sbom.components) : b.purl # NoPurl}}

\* ING-3 is met only if no package the build consumes is matched by the
\* denylist of its checkout, whichever lockfile, in whichever directory and
\* format, declares it: no step between the walk and the control drops one.
DenylistedNeverSlipsThrough ==
  Reported /\ controls["ING-3"] = "met" =>
    \A p \in Consumed, listed \in evidence.checkout.denylist.names :
      <<listed, p[1]>> \notin StartsWith

\* A run comes to an end, with the evidence or with a traceback.
EvidenceRunEnds == <>(stage \in {"done", "raised"})
=============================================================================
