--------------------------------- MODULE S2C2F ---------------------------------
(***************************************************************************)
(* cli/parsers/s2c2f.py: the supply chain controls evaluated from the       *)
(* resolved dependencies, the scans, the governance report, the checkout    *)
(* and a few requests to GitHub, one after the other, each of which may     *)
(* fail on its own.  GitHub's settings are external.                        *)
(***************************************************************************)
EXTENDS Integers, Sequences, SequencesExt, FiniteSetsExt

CONSTANT
  StartsWith      \* <<s, n>>: the PURL of package n starts with an entry spelled s

\* Where GitHub looks for a SECURITY.md, in the repository and then in the
\* organisation's .github repository (_SECURITY_MD_CANDIDATE_PATHS).
Place == {"own", "org"}
Candidates == 3

Setting == [alerts : BOOLEAN, dependabot : BOOLEAN, securityMd : SUBSET (Place \X (1..Candidates))]

GovernanceReport ==
  [available : BOOLEAN, pullRequest : BOOLEAN, pushPrevented : BOOLEAN, codeOwners : BOOLEAN,
   provenanceCheck : BOOLEAN]

\* A checkout, as far as the controls look at it.  npm and pom say where the
\* packages come from; processRef is what .lucid/manual-updates.json asserts.
Checkout ==
  [resolvable : BOOLEAN,
   npm : {"absent", "malformed", "no object", "no url", "internal", "mixed"},
   pipManifest : BOOLEAN, proxyConfig : BOOLEAN,
   pom : {"absent", "central", "outside"},
   denylist : [state : {"absent", "not utf-8", "malformed", "tampered", "valid"},
               names : SUBSET STRING],
   processRef : {"none", "not utf-8", "no url", "url", "file", "dangling"}, runbook : BOOLEAN,
   automation : BOOLEAN, automerge : BOOLEAN, codeOwners : BOOLEAN]

\* What the controls are evaluated from, besides the run's own results.
Evidence == [token : BOOLEAN, checkout : Checkout, governance : GovernanceReport]

Controls == {"ING-1", "ING-2", "SCA-1", "SCA-2", "INV-1", "UPD-1", "SCA-3", "INV-2", "UPD-2",
             "UPD-3", "AUD-2", "AUD-3", "ENF-1", "AUD-1", "ING-3", "ING-4", "SCA-4", "SCA-5",
             "ENF-2"}
Status == {"met", "unmet", "not_yet_reported"}

VARIABLES
  setting,     \* what is configured on GitHub now
  moved,       \* was a SECURITY.md moved while the controls were evaluated
  request,     \* the request about to be made
  place,       \* where it looks for SECURITY.md
  candidate,
  alerts,      \* vuln_alerts_status
  dependabot,  \* dependabot_alerts_status
  securityMd,  \* security_md_present
  evidence,    \* the token, the checkout and the governance report of the run
  controls     \* the report: a status for each control, once evaluated

s2c2fVars ==
  <<setting, moved, request, place, candidate, alerts, dependabot, securityMd, evidence, controls>>

-----------------------------------------------------------------------------
(* The controls.                                                            *)

Verdict(met) == IF met THEN "met" ELSE "unmet"

\* Controls that read the governance report.
Governed(g, met) == IF ~g.available THEN "not_yet_reported" ELSE Verdict(met)

SecureSourceConfig(g) == Governed(g, g.pullRequest /\ g.pushPrevented)
EnforcingProvenance(g) == Governed(g, g.provenanceCheck)
ProactiveReviews(co, g) == Governed(g, co.resolvable /\ co.codeOwners /\ g.codeOwners)

\* Controls that look for a tool among the scans.
Scanned(tools, known) == Verdict(tools \cap known # {})

LicenseChecks(tools) == Scanned(tools, {"licensee", "sbom-license"})
MalwareScans(tools) == Scanned(tools, {"osv-scanner", "socket"})

\* An answer other than the two expected ones counts as "off".
VulnerabilityScans(tools, status) ==
  IF tools \cap {"trivy", "osv-scanner"} # {} \/ status = "204" THEN "met"
  ELSE IF status = "none" THEN "not_yet_reported" ELSE "unmet"

EolScans(status) ==
  CASE status = "200" -> "met"
    [] status \in {"404", "403"} -> "unmet"
    [] OTHER -> "not_yet_reported"

IncidentPlans(present) ==
  CASE present = "true" -> "met" [] present = "false" -> "unmet" [] OTHER -> "not_yet_reported"

\* Controls over the resolved dependencies.
Inventory(deps) == Verdict(deps # {})

\* _has_materialized_package_dependency
IntegrityValidation(deps) ==
  Verdict(\E d \in deps : \E h \in d.digest : h.algo \in {"sha256", "sha512"})

\* Mistake: an entry matches the package that is spelled like it only.
DenylistsExact(co, deps) ==
  IF co.denylist.state # "valid" THEN "unmet"
  ELSE Verdict(\A d \in deps : d.uri[1] \notin co.denylist.names)

\* load_denylist fails closed; the match is on the start of the PURL, so an
\* entry also matches the names it is a prefix of, and only as spelled.
Denylists(co, deps) ==
  IF co.denylist.state # "valid" THEN "unmet"
  ELSE Verdict(\A d \in deps, listed \in co.denylist.names : <<listed, d.uri[1]>> \notin StartsWith)

\* _evaluate_feed_provenance: npm is judged by every resolved URL, pip and
\* Maven by a configuration file, and pip by any package manager's.
FeedResults(co) ==
  IF ~co.resolvable THEN << >>
  ELSE (IF co.npm = "absent" THEN << >> ELSE <<co.npm = "internal">>)
       \o (IF ~co.pipManifest THEN << >> ELSE <<co.proxyConfig>>)
       \o (IF co.pom = "absent" THEN << >> ELSE <<co.pom = "outside">>)

\* ING-2 and ENF-2 read the same feeds.
LocalCopies(co) ==
  IF FeedResults(co) = << >> THEN "not_yet_reported" ELSE Verdict(FALSE \notin ToSet(FeedResults(co)))

\* UPD-1: an assertion that is made is checked before any runbook is looked
\* for, and a dangling one is not made up for by a runbook.
ManualUpdates(co) ==
  IF ~co.resolvable THEN "not_yet_reported"
  ELSE IF co.processRef # "none" THEN Verdict(co.processRef \in {"url", "file"})
  ELSE Verdict(co.runbook)

PrAlerts(co) == Verdict(co.resolvable /\ co.automation)
AutoUpdates(co) == Verdict(co.resolvable /\ co.automation /\ co.automerge)

Evaluation(deps, tools, g, co, vuln, eol, md) ==
  [c \in Controls |->
     CASE c \in {"ING-1", "INV-1", "AUD-2"} -> Inventory(deps)
       [] c = "AUD-3" -> IntegrityValidation(deps)
       [] c = "ING-3" -> Denylists(co, deps)
       [] c \in {"ING-2", "ENF-2"} -> LocalCopies(co)
       [] c = "ING-4" -> "unmet"
       [] c = "SCA-1" -> VulnerabilityScans(tools, vuln)
       [] c = "SCA-2" -> LicenseChecks(tools)
       [] c = "SCA-3" -> EolScans(eol)
       [] c = "SCA-4" -> MalwareScans(tools)
       [] c = "SCA-5" -> ProactiveReviews(co, g)
       [] c = "INV-2" -> IncidentPlans(md)
       [] c = "UPD-1" -> ManualUpdates(co)
       [] c = "UPD-2" -> AutoUpdates(co)
       [] c = "UPD-3" -> PrAlerts(co)
       [] c = "ENF-1" -> SecureSourceConfig(g)
       [] c = "AUD-1" -> EnforcingProvenance(g)]

-----------------------------------------------------------------------------
(* The requests.                                                             *)

NoSetting == [alerts |-> FALSE, dependabot |-> FALSE, securityMd |-> {}]
NoEvidence ==
  [token |-> FALSE,
   checkout |-> [resolvable |-> FALSE, npm |-> "absent", pipManifest |-> FALSE,
                 proxyConfig |-> FALSE, pom |-> "absent",
                 denylist |-> [state |-> "absent", names |-> {}], processRef |-> "none",
                 runbook |-> FALSE, automation |-> FALSE, automerge |-> FALSE,
                 codeOwners |-> FALSE],
   governance |-> [available |-> FALSE, pullRequest |-> FALSE, pushPrevented |-> FALSE,
                   codeOwners |-> FALSE, provenanceCheck |-> FALSE]]
NoControls == [c \in {} |-> "met"]

\* Nothing asked and nothing answered yet.
NothingRequested ==
  /\ moved = FALSE
  /\ request = "idle" /\ place = "own" /\ candidate = 1
  /\ alerts = "none" /\ dependabot = "none" /\ securityMd = "none"
  /\ controls = NoControls

\* evaluate_s2c2f returns, and what it asked and was answered is gone.
RequestsForgotten ==
  /\ moved' = FALSE
  /\ request' = "idle" /\ place' = "own" /\ candidate' = 1
  /\ alerts' = "none" /\ dependabot' = "none" /\ securityMd' = "none"
  /\ controls' = NoControls

\* _resolve_github_context: without a token or with a malformed repository
\* name no request is made.
BeginControls ==
  /\ request = "idle"
  /\ request' = IF evidence.token THEN "alerts" ELSE "evaluate"
  /\ UNCHANGED <<setting, moved, place, candidate, alerts, dependabot, securityMd, evidence, controls>>

\* _github_api_status: every HTTP answer is returned, a connection that fails
\* is "none".  An answer that comes too late is neither (see LateAnswer).
AlertsAnswer ==
  /\ request = "alerts"
  /\ alerts' \in {IF setting.alerts THEN "204" ELSE "404", "refused", "none"}
  /\ request' = "dependabot"
  /\ UNCHANGED <<setting, moved, place, candidate, dependabot, securityMd, evidence, controls>>

\* A rate limit and a missing permission are a 403 too.
DependabotAnswer ==
  /\ request = "dependabot"
  /\ dependabot' \in {IF setting.dependabot THEN "200" ELSE "404", "403", "refused", "none"}
  /\ request' = "security_md"
  /\ UNCHANGED <<setting, moved, place, candidate, alerts, securityMd, evidence, controls>>

\* Mistake: a place whose lookup failed counts as empty.
SecurityMdFailsNextPlace ==
  /\ request = "security_md"
  /\ IF place = "own"
       THEN place' = "org" /\ candidate' = 1 /\ UNCHANGED <<request, securityMd>>
       ELSE securityMd' = "false" /\ request' = "evaluate" /\ UNCHANGED <<place, candidate>>
  /\ UNCHANGED <<setting, moved, alerts, dependabot, evidence, controls>>

\* A lookup that fails leaves the whole question open.
SecurityMdFails ==
  /\ request = "security_md"
  /\ securityMd' = "none" /\ request' = "evaluate"
  /\ UNCHANGED <<setting, moved, place, candidate, alerts, dependabot, evidence, controls>>

\* Mistake: one candidate too many is looked up.
SecurityMdAnswerOnceMore ==
  /\ request = "security_md"
  /\ IF <<place, candidate>> \in setting.securityMd
       THEN securityMd' = "true" /\ request' = "evaluate" /\ UNCHANGED <<place, candidate>>
     ELSE IF candidate <= Candidates
       THEN candidate' = candidate + 1 /\ UNCHANGED <<securityMd, request, place>>
     ELSE IF place = "own"
       THEN place' = "org" /\ candidate' = 1 /\ UNCHANGED <<securityMd, request>>
     ELSE securityMd' = "false" /\ request' = "evaluate" /\ UNCHANGED <<place, candidate>>
  /\ UNCHANGED <<setting, moved, alerts, dependabot, evidence, controls>>

\* _has_security_md_at and _detect_security_md: six lookups, ended by the
\* first that finds one.
SecurityMdAnswer ==
  /\ request = "security_md"
  /\ IF <<place, candidate>> \in setting.securityMd
       THEN securityMd' = "true" /\ request' = "evaluate" /\ UNCHANGED <<place, candidate>>
     ELSE IF candidate < Candidates
       THEN candidate' = candidate + 1 /\ UNCHANGED <<securityMd, request, place>>
     ELSE IF place = "own"
       THEN place' = "org" /\ candidate' = 1 /\ UNCHANGED <<securityMd, request>>
     ELSE securityMd' = "false" /\ request' = "evaluate" /\ UNCHANGED <<place, candidate>>
  /\ UNCHANGED <<setting, moved, alerts, dependabot, evidence, controls>>

\* urlopen raises TimeoutError, which is no URLError, when the connection was
\* made and the answer does not come in time: it is caught nowhere.
LateAnswer ==
  /\ request \in {"alerts", "dependabot"}
  /\ request' = "raised"
  /\ UNCHANGED <<setting, moved, place, candidate, alerts, dependabot, securityMd, evidence, controls>>

\* Somebody moves a SECURITY.md while the six lookups go on.
SecurityMdMoves ==
  /\ request = "security_md" /\ ~moved
  /\ \E from \in setting.securityMd, to \in ({"own"} \X (1..Candidates)) \ setting.securityMd :
       setting' = [setting EXCEPT !.securityMd = (@ \ {from}) \cup {to}]
  /\ moved' = TRUE
  /\ UNCHANGED <<request, place, candidate, alerts, dependabot, securityMd, evidence, controls>>

\* Files that are not what they should be, where nothing catches it: a
\* package-lock.json that is no object, text that is no UTF-8, a URL that
\* urlparse refuses.  The denylist need not be in the checkout.
Raises(co) ==
  \/ co.denylist.state = "not utf-8"
  \/ co.resolvable /\ co.npm \in {"no object", "no url"}
  \/ co.resolvable /\ co.processRef \in {"not utf-8", "no url"}

ControlRequests ==
  \/ BeginControls \/ AlertsAnswer \/ DependabotAnswer
  \/ SecurityMdAnswer \/ SecurityMdFails \/ LateAnswer

\* The end of evaluate_s2c2f: nineteen controls, from what the run holds.
EvaluateControls(deps, tools) ==
  /\ request = "evaluate"
  /\ IF Raises(evidence.checkout)
       THEN request' = "raised" /\ UNCHANGED controls
       ELSE /\ controls' = Evaluation(deps, tools, evidence.governance, evidence.checkout,
                                     alerts, dependabot, securityMd)
            /\ request' = "reported"
  /\ UNCHANGED <<setting, moved, place, candidate, alerts, dependabot, securityMd, evidence>>

-----------------------------------------------------------------------------
(* Properties.                                                              *)

\* The type of the variables.
S2C2FTypeOK ==
  /\ setting \in Setting /\ moved \in BOOLEAN
  /\ request \in {"idle", "alerts", "dependabot", "security_md", "evaluate", "reported", "raised"}
  /\ place \in Place /\ candidate \in 1..Candidates
  /\ alerts \in {"none", "204", "404", "refused"}
  /\ dependabot \in {"none", "200", "404", "403", "refused"}
  /\ securityMd \in {"none", "true", "false"}
  /\ evidence \in Evidence
  /\ controls \in [Controls -> Status] \cup {NoControls}

Reported == request = "reported"

\* No verdict comes of silence ("a check that couldn't run must never be
\* indistinguishable from one that ran and failed"): without a token, a
\* connection, or a governance report, the controls that need one are not
\* reported; "met" is only said of what is so configured; and "no incident
\* plan" only when all six places answered and, unless somebody moved the
\* file meanwhile, none of them has it.
NoVerdictFromSilence ==
  Reported =>
    /\ ~evidence.governance.available =>
         \A c \in {"ENF-1", "AUD-1", "SCA-5"} : controls[c] = "not_yet_reported"
    /\ alerts = "none" => controls["SCA-1"] # "unmet"
    /\ controls["SCA-3"] = "met" => setting.dependabot
    /\ controls["SCA-3"] = "unmet" => dependabot # "none"
    /\ controls["INV-2"] = "met" => setting.securityMd # {}
    /\ controls["INV-2"] = "unmet" =>
         place = "org" /\ candidate = Candidates /\ (moved \/ setting.securityMd = {})
=============================================================================
