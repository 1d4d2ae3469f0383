----------------------------- MODULE ScanReports -----------------------------
(***************************************************************************)
(* cli/parsers/sarif.py: the --sarif inputs of a run, merged with each     *)
(* other and with the license findings of the SBOM (main.py's              *)
(* _merge_sbom_into_sarif), and which of their findings the patch is       *)
(* answerable for.                                                         *)
(***************************************************************************)
EXTENDS ChangedLines

CONSTANTS
  ScanFile,  \* the --sarif arguments
  Rule       \* rule identifiers

\* A result at the first location it gives; none is << >> and line 0.  A run
\* or a result of the file that is no object is malformed.
Result ==
  [file : ScanFile, rule : Rule, level : {"error", "warning", "note", "none", "missing"},
   path : Path \cup {<< >>}, line : Line \cup {0}, malformed : BOOLEAN]

\* What the --sarif and --sbom arguments hold.
ScanInput ==
  [given : SUBSET ScanFile, unreadable : SUBSET ScanFile, results : SUBSET Result,
   sbom : {"absent", "lost", "read"}, licenseErrors : Nat]

NoScan ==
  [given |-> {}, unreadable |-> {}, results |-> {}, sbom |-> "absent", licenseErrors |-> 0]

\* _normalize_level: what is no SARIF level counts as a warning.
LevelOf(result) == IF result.level = "missing" THEN "warning" ELSE result.level

\* parse_sarif_file: a malformed run or result is skipped, the rest counts.
Findings(scan) == {r \in scan.results : r.file \in scan.given /\ ~r.malformed}

\* Mistake: a finding anywhere in a changed file is one of this patch.
IsNewInFile(result, changed) == Resolve(DOMAIN changed, result.path) # {}

\* _build_finding: new when it lies on a line the patch added.
IsNew(result, changed) ==
  /\ result.path # << >>
  /\ result.line # 0
  /\ \E key \in Resolve(DOMAIN changed, result.path) : result.line \in changed[key]

AtLevel(scan, level) == {r \in Findings(scan) : LevelOf(r) = level}

NewAtLevel(scan, level, changed) == {r \in AtLevel(scan, level) : IsNew(r, changed)}

\* aggregate_sarif_reports: one unreadable input taints the whole report, the
\* SBOM's part included; an SBOM that was lost leaves it as it is.
ScanKind(scan) ==
  IF scan.given \cap scan.unreadable # {} THEN "broken"
  ELSE IF scan.given = {} /\ scan.sbom # "read" THEN "absent"
  ELSE "findings"

LicenseErrors(scan) == IF scan.sbom = "read" THEN scan.licenseErrors ELSE 0

SarifState(state, patchErrors, patchWarnings, errors) ==
  [state |-> state, patchErrors |-> patchErrors, patchWarnings |-> patchWarnings,
   errors |-> errors]

\* The merged report, as the scorer sees it.  A license finding has no place.
SarifOf(scan, changed) ==
  CASE ScanKind(scan) = "absent" -> SarifState("absent", 0, 0, 0)
    [] ScanKind(scan) = "broken" -> SarifState("unavailable", 0, 0, 0)
    [] OTHER ->
         SarifState("available",
                    Cardinality(NewAtLevel(scan, "error", changed)),
                    Cardinality(NewAtLevel(scan, "warning", changed)),
                    Cardinality(AtLevel(scan, "error")) + LicenseErrors(scan))
=============================================================================
