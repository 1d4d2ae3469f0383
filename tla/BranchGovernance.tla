--------------------------- MODULE BranchGovernance ---------------------------
(***************************************************************************)
(* inspect_branch_governance of cli/parsers/github_rules.py, one HTTP      *)
(* request per step: the effective rules of the branch, an existence check *)
(* when that answers 404, the list of rulesets, and one detail request per *)
(* active branch ruleset for its bypass actors.  Any request can fail, and *)
(* an administrator can edit the rulesets between two of them.             *)
(*                                                                         *)
(* The platform is external: `protected` and `rulesets` are its state, and *)
(* a request answers from that state at the moment it is served.  It need  *)
(* not show all of it: a listing may end early, and a 404 or a body of     *)
(* another shape may stand where a ruleset is, because the token may not   *)
(* see it, or a proxy answers.  The code takes each of these as an answer. *)
(***************************************************************************)
EXTENDS GovernanceRules, FiniteSets

CONSTANTS
  MaxPages,   \* MAX_PAGES, the pages of a listing that are followed
  PageSize,   \* rulesets per page of the listing
  RulesetIds, \* the ids of the rulesets there may be
  Configurations, \* what a ruleset may be configured to, or "gone"
  RulePages,  \* the pages of the rules of a protected branch, as sets of rule types
  MaxEdits    \* bound on the administrator's edits during one inspection

\* A ruleset is gone, or has an enforcement and bypass actors' modes.
Ruleset == [state : {"active", "disabled", "gone"}, actors : Seq(BypassMode)]

ASSUME BranchGovernanceAssumption ==
  /\ Configurations \subseteq Ruleset
  /\ MaxPages \in Nat \ {0} /\ PageSize \in Nat \ {0}
  /\ IsFiniteSet(RulesetIds) /\ RulesetIds \subseteq Nat
  /\ RulePages \in Seq(SUBSET RuleType) \ {<< >>}
  /\ MaxEdits \in Nat

VARIABLES
  branchExists, \* does the branch exist (platform)
  protected,    \* do any rules apply to it (platform)
  rulesets,     \* id -> what the platform holds for it
  edits,        \* edits made so far
  pc,           \* the request inspect_branch_governance is about to make
  page,         \* pages already read of the current listing
  rules,        \* rule types read so far
  todo,         \* active rulesets listed whose details are still to be read
  modes,        \* bypass modes collected so far
  report,       \* the report returned
  requests,     \* requests made
  authFailed,   \* some request was answered 401 or 403
  wasHarmless,  \* rulesets that at some moment of the inspection let nobody bypass
  unseen        \* rulesets that an answer taken as good did not show

platform == <<branchExists, protected, rulesets, edits>>
vars == <<branchExists, protected, rulesets, edits, pc, page, rules, todo, modes, report, requests,
          authFailed, wasHarmless, unseen>>

NoReport == UnavailableGovernance("none")

Harmless(ruleset) == ruleset.state # "active" \/ ruleset.actors = << >>

HarmlessNow(all) == {i \in RulesetIds : Harmless(all[i])}

\* The listing is in order of id, a page at a time.
Listed == {i \in RulesetIds : rulesets[i].state # "gone"}

Rank(i) == Cardinality({j \in Listed : j <= i})

OnPage(p) == {i \in Listed : p * PageSize < Rank(i) /\ Rank(i) <= (p + 1) * PageSize}

PastEnd(p) == Cardinality(Listed) <= p * PageSize

\* What is listed after the first p pages.
After(p) == {i \in Listed : p * PageSize < Rank(i)}

LowerOf(a, b) == IF a < b THEN a ELSE b

-----------------------------------------------------------------------------
Init ==
  /\ branchExists \in BOOLEAN /\ protected \in BOOLEAN
  /\ rulesets \in [RulesetIds -> Configurations]
  /\ edits = 0
  /\ pc \in {"start", "rules"}
  /\ page = 0
  /\ rules = {}
  /\ todo = {}
  /\ modes = << >>
  /\ report = NoReport
  /\ requests = 0
  /\ authFailed = FALSE
  /\ wasHarmless = HarmlessNow(rulesets)
  /\ unseen = {}

\* An administrator changes or deletes a ruleset while the run inspects.  A
\* deletion during the listing moves those after it to an earlier place, and
\* the first of the next page to the page already read.
AdminEdits ==
  /\ pc # "done" /\ edits < MaxEdits
  /\ UNCHANGED <<branchExists, protected, pc, page, rules, todo, modes, report, requests,
                 authFailed>>
  /\ \E i \in RulesetIds, new \in Configurations :
       /\ rulesets[i].state # "gone"
       /\ rulesets' = [rulesets EXCEPT ![i] = new]
  /\ edits' = edits + 1
  /\ wasHarmless' = wasHarmless \cup HarmlessNow(rulesets')
  /\ unseen' = IF pc = "rulesets" THEN unseen \cup (After(page) \ After(page)') ELSE unseen

Return(result) == pc' = "done" /\ report' = result

\* No token, or a repository name that is not owner/repo.
RefuseInputs ==
  /\ pc = "start"
  /\ Return(UnavailableGovernance("none"))
  /\ UNCHANGED <<platform, page, rules, todo, modes, requests, authFailed, wasHarmless, unseen>>

Request(step) ==
  /\ pc = step
  /\ requests' = requests + 1
  /\ UNCHANGED <<platform, wasHarmless>>

\* Mistake: an authentication failure on the enrichment only warns.
AuthFailsSoftly ==
  /\ \E step \in {"rules", "rulesets", "details"} : Request(step)
  /\ authFailed' = TRUE
  /\ IF pc = "rules" THEN Return(UnavailableGovernance("none"))
                     ELSE Return(DeriveReport(rules, << >>, TRUE))
  /\ UNCHANGED <<page, rules, todo, modes, unseen>>

\* 401 or 403, on any request: the whole report is refused.  GitHub says in
\* the body when it is the plan, and not the token, that is too small.
AuthFails ==
  /\ \E step \in {"rules", "rulesets", "details"} : Request(step)
  /\ authFailed' = TRUE
  /\ \E reason \in GovReasonCode : Return(UnavailableGovernance(reason))
  /\ UNCHANGED <<page, rules, todo, modes, unseen>>

\* _branch_exists swallows the status: any failure is "could not confirm".
BranchCheckFails ==
  /\ Request("branch")
  /\ authFailed' \in {authFailed, TRUE}
  /\ Return(UnavailableGovernance("none"))
  /\ UNCHANGED <<page, rules, todo, modes, unseen>>

-----------------------------------------------------------------------------
(* _fetch_rules_for_branch.                                                 *)

RulesRead ==
  /\ pc' = "rulesets" /\ page' = 0
  /\ UNCHANGED report

\* A branch without rules is answered with an empty page.
PagesOfRules == IF protected THEN RulePages ELSE <<{}>>

\* After the last page, after MAX_PAGES, or without a next link to follow on
\* GitHub's own host, the rules read so far are the rules.
GetRules ==
  /\ Request("rules")
  /\ branchExists
  /\ rules' = rules \cup PagesOfRules[page + 1]
  /\ \/ /\ page + 1 < LowerOf(Len(PagesOfRules), MaxPages)
        /\ page' = page + 1 /\ UNCHANGED <<pc, report>>
     \/ RulesRead
  /\ UNCHANGED <<todo, modes, authFailed, unseen>>

\* A page that is no list replaces what was read, and is read as no rules; one
\* that is null reads as a 404.
RulesMisshapen ==
  /\ Request("rules")
  /\ branchExists
  /\ rules' = {}
  /\ RulesRead \/ (pc' = "branch" /\ UNCHANGED <<page, report>>)
  /\ UNCHANGED <<todo, modes, authFailed, unseen>>

\* Mistake: 404 on the rules is trusted without looking for the branch.
RulesNotFoundTrusted ==
  /\ Request("rules")
  /\ RulesRead
  /\ UNCHANGED <<rules, todo, modes, authFailed, unseen>>

\* 404: no rules apply, or there is no such branch, or the token may not see
\* it.  On a later page it only ends the listing.
RulesNotFound ==
  /\ Request("rules")
  /\ IF page = 0 THEN pc' = "branch" /\ UNCHANGED <<page, report>> ELSE RulesRead
  /\ UNCHANGED <<rules, todo, modes, authFailed, unseen>>

RulesFail ==
  /\ Request("rules")
  /\ Return(UnavailableGovernance("none"))
  /\ UNCHANGED <<page, rules, todo, modes, authFailed, unseen>>

BranchConfirmed ==
  /\ Request("branch")
  /\ branchExists
  /\ RulesRead
  /\ UNCHANGED <<rules, todo, modes, authFailed, unseen>>

\* 404, or null: no such branch, or none that the token may see.
BranchMissing ==
  /\ Request("branch")
  /\ Return(UnavailableGovernance("none"))
  /\ UNCHANGED <<page, rules, todo, modes, authFailed, unseen>>

-----------------------------------------------------------------------------
(* _collect_bypass_actors and its fallback.                                 *)

\* A ruleset that is not active needs no detail request.
ActiveOnPage(p) == {i \in OnPage(p) : rulesets[i].state = "active"}

\* Once the listing is read: the detail requests, or the report.
ListingRead(ids) ==
  /\ todo' = ids /\ page' = 0
  /\ IF ids = {} THEN Return(DeriveReport(rules, modes, FALSE))
                 ELSE pc' = "details" /\ UNCHANGED report

\* Mistake: the listing is followed to its end.
GetRulesetsUnbounded ==
  /\ Request("rulesets")
  /\ ~PastEnd(page)
  /\ LET ids == todo \cup ActiveOnPage(page)
     IN  IF ~PastEnd(page + 1)
           THEN todo' = ids /\ page' = page + 1 /\ UNCHANGED <<pc, report>>
           ELSE ListingRead(ids)
  /\ UNCHANGED <<rules, modes, authFailed, unseen>>

\* An entry of the wrong shape is skipped.  The listing is over after its last
\* page, after MAX_PAGES, or without a next link to follow on GitHub's host.
GetRulesets ==
  /\ Request("rulesets")
  /\ ~PastEnd(page)
  /\ \E skipped \in SUBSET ActiveOnPage(page) :
       LET ids == todo \cup (ActiveOnPage(page) \ skipped)
       IN  \/ /\ ~PastEnd(page + 1) /\ page + 1 < MaxPages
              /\ todo' = ids /\ page' = page + 1 /\ UNCHANGED <<pc, report>>
              /\ unseen' = unseen \cup skipped
           \/ /\ ListingRead(ids)
              /\ unseen' = unseen \cup skipped \cup After(page + 1)
  /\ UNCHANGED <<rules, modes, authFailed>>

\* 404, or an empty page, as past the end of a listing that got shorter: what
\* was listed so far is the listing.
RulesetsNotFound ==
  /\ Request("rulesets")
  /\ ListingRead(todo)
  /\ unseen' = unseen \cup After(page)
  /\ UNCHANGED <<rules, modes, authFailed>>

\* A page that is no list replaces what was listed: nobody can bypass.
RulesetsMisshapen ==
  /\ Request("rulesets")
  /\ ListingRead({})
  /\ unseen' = unseen \cup todo \cup After(page)
  /\ UNCHANGED <<rules, modes, authFailed>>

\* Mistake: the list of actors is appended as one actor.
DetailReadNested(id, actors) ==
  /\ modes' = Append(modes, actors)
  /\ todo' = todo \ {id}
  /\ IF todo' = {} THEN Return(DeriveReport(rules, modes', FALSE)) ELSE UNCHANGED <<pc, report>>

\* What the details of one ruleset say; the requests are made in any order.
DetailRead(id, actors) ==
  /\ modes' = modes \o actors
  /\ todo' = todo \ {id}
  /\ IF todo' = {} THEN Return(DeriveReport(rules, modes', FALSE)) ELSE UNCHANGED <<pc, report>>

GetDetail ==
  /\ Request("details")
  /\ \E id \in todo :
       /\ rulesets[id].state # "gone"
       /\ DetailRead(id, rulesets[id].actors)
  /\ UNCHANGED <<page, rules, authFailed, unseen>>

\* 404: the ruleset was deleted after it was listed.
DetailNotFound ==
  /\ Request("details")
  /\ \E id \in todo : rulesets[id].state = "gone" /\ DetailRead(id, << >>)
  /\ UNCHANGED <<page, rules, authFailed, unseen>>

\* The ruleset is there, but the token may not see it (404) or its bypass
\* actors (left out, or null), or the body or an actor is no object: nobody.
DetailWithheld ==
  /\ Request("details")
  /\ \E id \in todo :
       /\ rulesets[id].state # "gone"
       /\ DetailRead(id, << >>)
       /\ unseen' = unseen \cup {id}
  /\ UNCHANGED <<page, rules, authFailed>>

\* Mistake: the failure leaves no warning.
ListBypassActorsFailsSilently ==
  /\ \E step \in {"rulesets", "details"} : Request(step)
  /\ Return(DeriveReport(rules, << >>, FALSE))
  /\ modes' = << >>
  /\ UNCHANGED <<page, rules, todo, authFailed, unseen>>

\* Any other failure drops what was collected and only warns.
ListBypassActorsFails ==
  /\ \E step \in {"rulesets", "details"} : Request(step)
  /\ Return(DeriveReport(rules, << >>, TRUE))
  /\ modes' = << >>
  /\ UNCHANGED <<page, rules, todo, authFailed, unseen>>

-----------------------------------------------------------------------------
Inspect ==
  \/ RefuseInputs
  \/ AuthFails
  \/ BranchCheckFails
  \/ GetRules
  \/ RulesMisshapen
  \/ RulesNotFound
  \/ RulesFail
  \/ BranchConfirmed
  \/ BranchMissing
  \/ GetRulesets
  \/ RulesetsNotFound
  \/ RulesetsMisshapen
  \/ GetDetail
  \/ DetailNotFound
  \/ DetailWithheld
  \/ ListBypassActorsFails

Done == pc = "done" /\ UNCHANGED vars

Next == Inspect \/ AdminEdits \/ Done

Spec == Init /\ [][Next]_vars

-----------------------------------------------------------------------------
(* Properties.                                                              *)

TypeOK ==
  /\ branchExists \in BOOLEAN /\ protected \in BOOLEAN
  /\ rulesets \in [RulesetIds -> Ruleset]
  /\ edits \in 0..MaxEdits
  /\ pc \in {"start", "rules", "branch", "rulesets", "details", "done"}
  /\ page \in Nat
  /\ rules \in SUBSET RuleType
  /\ todo \in SUBSET RulesetIds
  /\ modes \in Seq(BypassMode)
  /\ report \in GovernanceReport
  /\ requests \in Nat
  /\ authFailed \in BOOLEAN
  /\ wasHarmless \in SUBSET RulesetIds
  /\ unseen \in SUBSET RulesetIds

\* An available report was answered: no request of the flow, the existence
\* check and the bypass enrichment included, met an authentication failure
\* (github_rules.py, "Auth failures (401/403) anywhere in the flow"), and the
\* ambiguous 404 was trusted only for a branch that exists.
AvailableReportIsAnswered == pc = "done" /\ report.available => ~authFailed /\ branchExists

Clean(r) == r.available /\ ~BypassPermitsUnreviewedChange(r)

\* Every ruleset let nobody bypass the rules at some moment of the inspection,
\* except those that the answers did not show.
Witnessed == RulesetIds \subseteq wasHarmless \cup unseen

\* A clean report without a warning speaks for every ruleset that the answers
\* showed, whatever is edited between two requests.  It does not speak for the
\* others, and does not say so: _github_api_get, _collect_bypass_actors and
\* _bypass_actors_for_ruleset read a listing cut short, an entry, a page or a
\* detail of another shape, a 404 and withheld bypass actors as "nobody".
UnwarnedCleanIsWitnessed == pc = "done" /\ Clean(report) /\ ~report.warned => Witnessed

\* The documented claim that a failure on either endpoint makes the report
\* unavailable, so that a clean report speaks for them also with a warning.
CleanIsWitnessed == pc = "done" /\ Clean(report) => Witnessed

\* However long the listings are, the requests of one inspection are
\* bounded: MAX_PAGES per listing, one check, one detail per listed ruleset.
RequestsBounded == requests <= 2 * MaxPages + 1 + LowerOf(MaxPages * PageSize, Cardinality(RulesetIds))
=============================================================================
