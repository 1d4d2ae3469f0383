---------------------------- MODULE SbomIngestion ----------------------------
(***************************************************************************)
(* cli/parsers/sbom.py and the two steps of cli/main.py that use it: an     *)
(* SBOM's licenses are held against a policy and the findings are folded    *)
(* into the static analysis report; its components may stand in for the     *)
(* lockfiles (ResolvedDependencies).                                        *)
(*                                                                         *)
(* A license expression is the set of choices it leaves a consumer, each    *)
(* the set of terms that then apply together: "A OR B" is {{A}, {B}}, "A    *)
(* AND B" is {{A, B}}.  An expression the SBOM does not state, or states as *)
(* NOASSERTION, is the empty set of choices.                                *)
(***************************************************************************)
EXTENDS Integers, Sequences, SequencesExt, FiniteSetsExt

CONSTANTS
  Name, Version,  \* of a package
  Hash,           \* digests: records with an algo
  Term,           \* license ids
  Policy          \* what the policy says of each: permissive, forbidden or neither

Purl == Name \X Version
NoPurl == << >>

Expression == SUBSET ((SUBSET Term) \ {{}})
Unspecified == {}

\* A digest is the set of hashes it carries, at most one for each algorithm;
\* the empty one is `{}` in the source too.
Digest == {d \in SUBSET Hash : \A g, h \in d : g.algo = h.algo => g = h}

Format == {"cyclonedx", "spdx2", "spdx3", "unrecognized"}

\* `stated` is what a component says of its license: in CycloneDX the entries
\* of `licenses`, in SPDX the concluded and the declared expression, where
\* there.  Components are listed in the order their parser walks them.
\* `shipped` is whether its PURL is of a distribution ecosystem.
Component ==
  [kind : {"file", "unnamed", "library"}, purl : Purl \cup {NoPurl}, shipped : BOOLEAN,
   stated : Seq(Expression), digest : Digest]

ScanReport(state, errors, warnings, tools) ==
  [state |-> state, errors |-> errors, warnings |-> warnings, tools |-> tools]

\* A report that is not available counts nothing.
IsScanReport(r) ==
  /\ r = ScanReport(r.state, r.errors, r.warnings, r.tools)
  /\ r.state \in {"none", "available", "unavailable"} /\ r.errors \in Nat /\ r.warnings \in Nat
  /\ r.state # "available" => r.errors = 0 /\ r.warnings = 0 /\ r.tools = {}

\* The file given with --sbom, if one is.
Bill == [given : BOOLEAN, readable : BOOLEAN, format : Format, listed : Seq(Component)]
NoBill == [given |-> FALSE, readable |-> FALSE, format |-> "unrecognized", listed |-> << >>]

ASSUME SbomAssumption == Policy \in [Term -> {"permissive", "forbidden", "neither"}]

VARIABLES
  bill,        \* the SBOM
  sbom,        \* the SbomReport
  curated,     \* the PURLs somebody asserted a license for, and that license
  sarif,       \* the aggregated --sarif report before the merge
  scan         \* the report the scorer and S2C2F read

sbomVars == <<bill, sbom, curated, sarif, scan>>

-----------------------------------------------------------------------------
(* Licenses.                                                                *)

\* The entries that say something.  In CycloneDX that is any entry with an id,
\* a name or an expression: NOASSERTION among others is a term like them, and
\* one the policy knows nothing of.
Known(stated) == {i \in DOMAIN stated : stated[i] # Unspecified}

\* Every way to make a choice in each of these entries.
Picks(stated, entries) ==
  {pick \in [entries -> UNION {stated[i] : i \in entries}] :
     \A i \in entries : pick[i] \in stated[i]}

\* _cdx_license_expression joins the entries with AND.
AllOf(stated, entries) ==
  {UNION {pick[i] : i \in entries} : pick \in Picks(stated, entries)}

\* _spdx2_license_expression skips a concluded NOASSERTION, SPDX 3 does not.
StatedLicense(format, stated) ==
  IF stated = << >> \/ (format # "spdx3" /\ Known(stated) = {}) THEN Unspecified
  ELSE CASE format = "cyclonedx" -> AllOf(stated, Known(stated))
         [] format = "spdx2" -> stated[Min(Known(stated))]
         [] OTHER -> stated[1]

\* What the policy says of the terms of an expression.
Verdicts(terms) == {Policy[t] : t \in terms}

\* classify_license_expression: the terms are flattened, and one OR anywhere
\* makes the whole expression a choice between them.
Classify(expression) ==
  LET verdicts == Verdicts(UNION expression)
  IN  CASE verdicts = {"permissive"} -> "permissive"
        [] verdicts = {"forbidden"} -> "forbidden"
        [] "forbidden" \in verdicts /\ Cardinality(expression) = 1 -> "forbidden"
        [] OTHER -> "unclassified"

\* _find_curation: keyed by the whole PURL, else by its name alone.
FindCuration(purl, curations) ==
  IF purl = NoPurl THEN << >>
  ELSE IF purl \in DOMAIN curations THEN <<curations[purl]>>
  ELSE IF <<purl[1]>> \in DOMAIN curations THEN <<curations[<<purl[1]>>]>> ELSE << >>

\* Mistake: a curation outranks what the SBOM says.
CuratedFirst(class, purl, curations) ==
  LET found == FindCuration(purl, curations)
  IN  IF found = << >> THEN class
      ELSE IF Classify(found[1]) = "forbidden" THEN "forbidden" ELSE "curated"

\* A curation is consulted for an unclassified component only, and what it
\* asserts is held against the policy too.
Curated(class, purl, curations) ==
  LET found == FindCuration(purl, curations)
  IN  IF class # "unclassified" \/ found = << >> THEN class
      ELSE IF Classify(found[1]) = "forbidden" THEN "forbidden" ELSE "curated"

\* build_license_findings: the level of the finding of a component.
Level(class, shipped) ==
  CASE class = "permissive" -> "none"
    [] class = "curated" -> "note"
    [] class = "forbidden" -> "error"
    [] OTHER -> IF shipped THEN "error" ELSE "warning"

-----------------------------------------------------------------------------
(* The report.                                                              *)

\* The components a parser keeps, by their place in the file.
Kept(format, listed) ==
  {i \in DOMAIN listed : /\ listed[i].kind # "unnamed"
                         /\ format = "cyclonedx" => listed[i].kind # "file"}

Parsed(format, listed) ==
  [i \in Kept(format, listed) |->
     [purl |-> listed[i].purl, shipped |-> listed[i].shipped, digest |-> listed[i].digest,
      license |-> StatedLicense(format, listed[i].stated)]]

NoSbom == [state |-> "none", format |-> "unrecognized", components |-> << >>]
LostSbom == [state |-> "unavailable", format |-> "unrecognized", components |-> << >>]

\* parse_sbom_file: a file that is missing, too large or no JSON object is
\* lost, and so is one in no recognised format.
ParseSbom(b) ==
  IF ~b.given THEN NoSbom
  ELSE IF ~b.readable \/ b.format = "unrecognized" THEN LostSbom
  ELSE [state |-> "read", format |-> b.format, components |-> Parsed(b.format, b.listed)]

Finding(component, curations) ==
  Level(Curated(Classify(component.license), component.purl, curations), component.shipped)

CountLevel(report, curations, level) ==
  Cardinality({i \in DOMAIN report.components : Finding(report.components[i], curations) = level})

NoScan == ScanReport("none", 0, 0, {})

\* build_sbom_sarif_report
SbomScan(report, curations) ==
  ScanReport("available", CountLevel(report, curations, "error"),
             CountLevel(report, curations, "warning"), {"sbom-license"})

\* aggregate_sarif_reports: one unavailable input taints the whole.
Aggregate(a, b) ==
  IF "unavailable" \in {a.state, b.state} THEN ScanReport("unavailable", 0, 0, {})
  ELSE ScanReport("available", a.errors + b.errors, a.warnings + b.warnings, a.tools \cup b.tools)

\* _merge_sbom_into_sarif: an SBOM that was lost leaves the report as it was.
MergeSbom(report, parsed, curations) ==
  IF parsed.state # "read" THEN report
  ELSE IF report.state = "none" THEN SbomScan(parsed, curations)
  ELSE Aggregate(report, SbomScan(parsed, curations))

NoCurations == [p \in {} |-> Unspecified]

\* Steps 3c and 3d of main().
IngestScans ==
  /\ sbom' = ParseSbom(bill)
  /\ scan' = MergeSbom(sarif, sbom', curated)
  /\ UNCHANGED <<bill, curated, sarif>>

-----------------------------------------------------------------------------
(* Properties.                                                              *)

\* The type of the variables.
SbomTypeOK ==
  /\ bill \in Bill
  /\ sbom.state \in {"none", "unavailable", "read"} /\ sbom.format \in Format
  /\ \A i \in DOMAIN sbom.components :
       /\ i \in Nat
       /\ sbom.components[i].purl \in Purl \cup {NoPurl}
       /\ sbom.components[i].license \in Expression /\ sbom.components[i].digest \in Digest
  /\ IsScanReport(sarif) /\ IsScanReport(scan)

\* Whichever choice a consumer makes, a forbidden term comes with it, and no
\* choice mixes the question up with another term.
ForbiddenOutright(expression) ==
  /\ expression # Unspecified
  /\ \A choice \in expression : "forbidden" \in Verdicts(choice)
  /\ Cardinality(expression) = 1 \/ Verdicts(UNION expression) = {"forbidden"}

\* A license nobody may use is an error of the report that is scored,
\* whatever any curation asserts, and never lost to the merge; a clean
\* component is one of which every term is known to be permissive; and an
\* SBOM that could be read never makes up for a scan that could not ("must
\* not quietly launder that").
LicenseNeverLaundered ==
  sbom.state = "read" =>
    /\ sarif.state = "unavailable" => scan.state = "unavailable"
    /\ sarif.state # "unavailable" =>
         scan.errors >= sarif.errors
           + Cardinality({i \in DOMAIN bill.listed :
                            /\ bill.listed[i].kind = "library"
                            /\ ForbiddenOutright(StatedLicense(bill.format, bill.listed[i].stated))})
    /\ \A i \in DOMAIN sbom.components :
         Finding(sbom.components[i], curated) = "none" =>
           /\ sbom.components[i].license # Unspecified
           /\ \A choice \in sbom.components[i].license : Verdicts(choice) = {"permissive"}
=============================================================================
