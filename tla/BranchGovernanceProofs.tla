------------------------ MODULE BranchGovernanceProofs ------------------------
(***************************************************************************)
(* Theorems of BranchGovernance, for every number of rulesets, of pages    *)
(* and of edits.                                                           *)
(***************************************************************************)
EXTENDS BranchGovernance, FiniteSetTheorems, SequenceTheorems, TLAPS

LEMMA UnavailableType ==
  ASSUME NEW reason \in GovReasonCode
  PROVE  UnavailableGovernance(reason) \in GovernanceReport
BY DEF UnavailableGovernance, GovernanceReport

LEMMA DeriveReportType ==
  ASSUME NEW types \in SUBSET RuleType, NEW list \in Seq(BypassMode), NEW unknown \in BOOLEAN
  PROVE  DeriveReport(types, list, unknown) \in GovernanceReport
BY DEF DeriveReport, GovernanceReport, GovReasonCode, AdminEnforced

LEMMA NoReasonType == "none" \in GovReasonCode
BY DEF GovReasonCode

LEMMA HarmlessNowType ==
  ASSUME NEW all
  PROVE  HarmlessNow(all) \in SUBSET RulesetIds
BY DEF HarmlessNow

LEMMA ConfigurationsType ==
  /\ Configurations \subseteq Ruleset
  /\ [RulesetIds -> Configurations] \subseteq [RulesetIds -> Ruleset]
BY BranchGovernanceAssumption

LEMMA PagesOfRulesType ==
  /\ Len(PagesOfRules) \in Nat
  /\ \A i \in 1..Len(PagesOfRules) : PagesOfRules[i] \in SUBSET RuleType
  /\ Len(PagesOfRules) > 0
<1>1. CASE protected
  BY <1>1, BranchGovernanceAssumption, EmptySeq DEF PagesOfRules
<1>2. CASE ~protected
  BY <1>2 DEF PagesOfRules
<1>3. QED
  BY <1>1, <1>2

LEMMA AfterType ==
  ASSUME NEW p
  PROVE  After(p) \in SUBSET RulesetIds
BY DEF After, Listed

\* A request touches nothing of the platform, and only counts itself.
LEMMA RequestType ==
  ASSUME TypeOK, NEW step, Request(step)
  PROVE  /\ branchExists' \in BOOLEAN /\ protected' \in BOOLEAN
         /\ rulesets' \in [RulesetIds -> Ruleset]
         /\ edits' \in 0..MaxEdits
         /\ requests' \in Nat
         /\ wasHarmless' \in SUBSET RulesetIds
BY DEF Request, platform, TypeOK

\* Reading the details of one ruleset keeps the types.
LEMMA DetailReadType ==
  ASSUME TypeOK, NEW id \in todo, NEW actors \in Seq(BypassMode), DetailRead(id, actors)
  PROVE  /\ modes' \in Seq(BypassMode)
         /\ todo' \in SUBSET RulesetIds
         /\ pc' \in {pc, "done"}
         /\ report' \in GovernanceReport
<1>1. modes' \in Seq(BypassMode) /\ todo' \in SUBSET RulesetIds
  BY DEF DetailRead, TypeOK
<1>2. DeriveReport(rules, modes', FALSE) \in GovernanceReport
  BY <1>1, DeriveReportType DEF TypeOK
<1>3. QED
  BY <1>1, <1>2 DEF DetailRead, Return, TypeOK

\* So does the end of a listing.
LEMMA ListingReadType ==
  ASSUME TypeOK, NEW ids \in SUBSET RulesetIds, ListingRead(ids)
  PROVE  /\ todo' \in SUBSET RulesetIds
         /\ page' \in Nat
         /\ pc' \in {"details", "done"}
         /\ report' \in GovernanceReport
<1>1. DeriveReport(rules, modes, FALSE) \in GovernanceReport
  BY DeriveReportType DEF TypeOK
<1>2. report' \in GovernanceReport /\ pc' \in {"details", "done"}
  <2>1. CASE ids = {}
    BY <1>1, <2>1 DEF ListingRead, Return
  <2>2. CASE ids # {}
    BY <2>2 DEF ListingRead, TypeOK
  <2>3. QED
    BY <2>1, <2>2
<1>3. QED
  BY <1>2 DEF ListingRead

\* The page of the rules asked for next is one of the response's.
PageInRange == pc = "rules" => page < Len(PagesOfRules)

\* The state of an inspection is always one inspect_branch_governance can be in.
THEOREM TypeCorrect == Spec => [](TypeOK /\ PageInRange)
<1>1. Init => TypeOK
  <2> SUFFICES ASSUME Init PROVE TypeOK
    OBVIOUS
  <2>1. rulesets \in [RulesetIds -> Ruleset]
    BY ConfigurationsType DEF Init
  <2>2. wasHarmless \in SUBSET RulesetIds
    BY HarmlessNowType DEF Init
  <2>3. report \in GovernanceReport
    BY UnavailableType, NoReasonType DEF Init, NoReport
  <2>4. edits \in 0..MaxEdits
    BY BranchGovernanceAssumption DEF Init
  <2>5. modes \in Seq(BypassMode) /\ rules \in SUBSET RuleType /\ todo \in SUBSET RulesetIds
    BY DEF Init
  <2>6. QED
    BY <2>1, <2>2, <2>3, <2>4, <2>5 DEF Init, TypeOK
<1>2. TypeOK /\ PageInRange /\ [Next]_vars => TypeOK'
  <2> SUFFICES ASSUME TypeOK, PageInRange, [Next]_vars PROVE TypeOK'
    OBVIOUS
  <2>1. CASE RefuseInputs
    BY <2>1, UnavailableType, NoReasonType DEF RefuseInputs, Return, platform, TypeOK
  <2>2. CASE AuthFails
    BY <2>2, UnavailableType DEF AuthFails, Request, Return, platform, TypeOK
  <2>3. CASE BranchCheckFails
    <3>1. authFailed' \in BOOLEAN
      BY <2>3 DEF BranchCheckFails, TypeOK
    <3>2. report' \in GovernanceReport
      BY <2>3, UnavailableType, NoReasonType DEF BranchCheckFails, Return
    <3>3. QED
      BY <2>3, <3>1, <3>2, RequestType DEF BranchCheckFails, Return, TypeOK
  <2>4. CASE GetRules
    <3>1. page + 1 \in 1..Len(PagesOfRules)
      BY <2>4, PagesOfRulesType DEF GetRules, Request, PageInRange, TypeOK
    <3>2. rules' \in SUBSET RuleType
      BY <2>4, <3>1, PagesOfRulesType DEF GetRules, TypeOK
    <3>3. page' \in Nat /\ pc' \in {"rules", "rulesets"} /\ report' = report
      BY <2>4 DEF GetRules, Request, RulesRead, TypeOK
    <3>4. QED
      BY <2>4, <3>2, <3>3, RequestType DEF GetRules, TypeOK
  <2>5. CASE RulesNotFound
    <3>1. page' \in Nat /\ pc' \in {"branch", "rulesets"} /\ report' = report
      BY <2>5 DEF RulesNotFound, RulesRead, TypeOK
    <3>2. QED
      BY <2>5, <3>1, RequestType DEF RulesNotFound, TypeOK
  <2>6. CASE RulesFail
    BY <2>6, UnavailableType, NoReasonType DEF RulesFail, Request, Return, platform, TypeOK
  <2>7. CASE BranchConfirmed
    BY <2>7 DEF BranchConfirmed, Request, RulesRead, platform, TypeOK
  <2>8. CASE BranchMissing
    BY <2>8, UnavailableType, NoReasonType DEF BranchMissing, Request, Return, platform, TypeOK
  <2>9. CASE GetRulesets
    <3>1. /\ todo \in SUBSET RulesetIds /\ ActiveOnPage(page) \in SUBSET RulesetIds
          /\ unseen \in SUBSET RulesetIds /\ After(page + 1) \in SUBSET RulesetIds
      BY AfterType DEF ActiveOnPage, OnPage, Listed, TypeOK
    <3>2. PICK ids \in SUBSET RulesetIds :
            \/ todo' = ids /\ page' = page + 1 /\ UNCHANGED <<pc, report>>
            \/ ListingRead(ids)
      <4>1. PICK skipped \in SUBSET ActiveOnPage(page) :
              \/ /\ todo' = todo \cup (ActiveOnPage(page) \ skipped)
                 /\ page' = page + 1 /\ UNCHANGED <<pc, report>>
              \/ ListingRead(todo \cup (ActiveOnPage(page) \ skipped))
        BY <2>9 DEF GetRulesets
      <4>2. todo \cup (ActiveOnPage(page) \ skipped) \in SUBSET RulesetIds
        BY <3>1
      <4>3. QED
        BY <4>1, <4>2
    <3>3. unseen' \in SUBSET RulesetIds
      BY <2>9, <3>1 DEF GetRulesets
    <3>4. CASE ListingRead(ids)
      BY <2>9, <3>3, <3>4, ListingReadType, RequestType DEF GetRulesets, TypeOK
    <3>5. CASE todo' = ids /\ page' = page + 1 /\ UNCHANGED <<pc, report>>
      BY <2>9, <3>3, <3>5, RequestType DEF GetRulesets, TypeOK
    <3>6. QED
      BY <3>2, <3>4, <3>5
  <2>10. CASE RulesetsNotFound
    <3>1. ListingRead(todo) /\ todo \in SUBSET RulesetIds
      BY <2>10 DEF RulesetsNotFound, TypeOK
    <3>2. unseen' \in SUBSET RulesetIds
      BY <2>10, AfterType DEF RulesetsNotFound, TypeOK
    <3>3. QED
      BY <2>10, <3>1, <3>2, ListingReadType, RequestType DEF RulesetsNotFound, TypeOK
  <2>11. CASE GetDetail
    <3>1. PICK id \in todo : DetailRead(id, rulesets[id].actors)
      BY <2>11 DEF GetDetail
    <3>2. rulesets[id].actors \in Seq(BypassMode)
      BY DEF Ruleset, TypeOK
    <3>3. QED
      BY <2>11, <3>1, <3>2, DetailReadType, RequestType DEF GetDetail, TypeOK
  <2>12. CASE DetailNotFound
    <3>1. PICK id \in todo : DetailRead(id, << >>)
      BY <2>12 DEF DetailNotFound
    <3>2. << >> \in Seq(BypassMode)
      OBVIOUS
    <3>3. QED
      BY <2>12, <3>1, <3>2, DetailReadType, RequestType DEF DetailNotFound, TypeOK
  <2>13. CASE ListBypassActorsFails
    <3>1. << >> \in Seq(BypassMode)
      OBVIOUS
    <3>2. DeriveReport(rules, << >>, TRUE) \in GovernanceReport
      BY <3>1, DeriveReportType DEF TypeOK
    <3>3. QED
      BY <2>13, <3>1, <3>2, RequestType DEF ListBypassActorsFails, Return, TypeOK
  <2>14. CASE AdminEdits
    <3>1. rulesets' \in [RulesetIds -> Ruleset]
      BY <2>14, ConfigurationsType DEF AdminEdits, TypeOK
    <3>2. wasHarmless' \in SUBSET RulesetIds
      BY <2>14, HarmlessNowType DEF AdminEdits, TypeOK
    <3>3. edits' \in 0..MaxEdits
      BY <2>14, BranchGovernanceAssumption DEF AdminEdits, TypeOK
    <3>4. unseen' \in SUBSET RulesetIds
      BY <2>14, AfterType DEF AdminEdits, TypeOK
    <3>5. QED
      BY <2>14, <3>1, <3>2, <3>3, <3>4 DEF AdminEdits, TypeOK
  <2>15. CASE UNCHANGED vars
    BY <2>15 DEF vars, TypeOK
  <2>16. CASE RulesMisshapen
    <3>1. page' \in Nat /\ pc' \in {"branch", "rulesets"} /\ report' = report
      BY <2>16 DEF RulesMisshapen, RulesRead, TypeOK
    <3>2. QED
      BY <2>16, <3>1, RequestType DEF RulesMisshapen, TypeOK
  <2>17. CASE RulesetsMisshapen
    <3>1. ListingRead({}) /\ {} \in SUBSET RulesetIds
      BY <2>17 DEF RulesetsMisshapen
    <3>2. unseen' \in SUBSET RulesetIds
      BY <2>17, AfterType DEF RulesetsMisshapen, TypeOK
    <3>3. QED
      BY <2>17, <3>1, <3>2, ListingReadType, RequestType DEF RulesetsMisshapen, TypeOK
  <2>18. CASE DetailWithheld
    <3>1. PICK id \in todo : DetailRead(id, << >>) /\ unseen' = unseen \cup {id}
      BY <2>18 DEF DetailWithheld
    <3>2. << >> \in Seq(BypassMode) /\ unseen' \in SUBSET RulesetIds
      BY <3>1 DEF TypeOK
    <3>3. QED
      BY <2>18, <3>1, <3>2, DetailReadType, RequestType DEF DetailWithheld, TypeOK
  <2>19. QED
    BY <2>1, <2>2, <2>3, <2>4, <2>5, <2>6, <2>7, <2>8, <2>9, <2>10, <2>11, <2>12, <2>13,
       <2>14, <2>15, <2>16, <2>17, <2>18 DEF Next, Inspect, Done
<1>3. Init => PageInRange
  BY PagesOfRulesType DEF Init, PageInRange
<1>4. TypeOK /\ PageInRange /\ [Next]_vars => PageInRange'
  <2> SUFFICES ASSUME TypeOK, PageInRange, [Next]_vars PROVE PageInRange'
    OBVIOUS
  <2>1. CASE GetRules
    <3>1. CASE RulesRead
      BY <3>1 DEF RulesRead, PageInRange
    <3>2. CASE page + 1 < LowerOf(Len(PagesOfRules), MaxPages) /\ page' = page + 1
      <4>1. PagesOfRules' = PagesOfRules
        BY <2>1 DEF GetRules, Request, platform, PagesOfRules
      <4>2. page + 1 < Len(PagesOfRules)
        BY <3>2, PagesOfRulesType, BranchGovernanceAssumption DEF LowerOf, TypeOK
      <4>3. QED
        BY <3>2, <4>1, <4>2 DEF PageInRange
    <3>3. QED
      BY <2>1, <3>1, <3>2 DEF GetRules
  <2>2. CASE AdminEdits \/ UNCHANGED vars
    BY <2>2 DEF AdminEdits, vars, PageInRange, PagesOfRules
  <2>3. ASSUME Next, ~GetRules, ~AdminEdits, ~Done PROVE pc' # "rules"
    BY <2>3 DEF Next, Inspect, RefuseInputs, AuthFails, BranchCheckFails, RulesNotFound, RulesFail,
       BranchConfirmed, BranchMissing, GetRulesets, RulesetsNotFound, GetDetail, DetailNotFound,
       RulesMisshapen, RulesetsMisshapen, DetailWithheld, ListBypassActorsFails, Request, Return, RulesRead, ListingRead, DetailRead
  <2>4. QED
    BY <2>1, <2>2, <2>3 DEF PageInRange, Next, Done
<1>5. QED
  BY <1>1, <1>2, <1>3, <1>4, PTL DEF Spec

-----------------------------------------------------------------------------
(* Who may end an inspection, and with what.                                 *)

\* Inductive: the first request answered 401 or 403 is the last one.
AuthFailureStops == authFailed => pc = "done" /\ ~report.available

LEMMA UnavailableIsNotAvailable ==
  ASSUME NEW reason
  PROVE  UnavailableGovernance(reason).available = FALSE
BY DEF UnavailableGovernance

LEMMA AuthFailures == Spec => []AuthFailureStops
<1>1. Init => AuthFailureStops
  BY DEF Init, AuthFailureStops
<1>2. AuthFailureStops /\ [Next]_vars => AuthFailureStops'
  <2> SUFFICES ASSUME AuthFailureStops, [Next]_vars PROVE AuthFailureStops'
    OBVIOUS
  <2>1. CASE AuthFails
    BY <2>1, UnavailableIsNotAvailable DEF AuthFails, Return, AuthFailureStops
  <2>2. CASE BranchCheckFails
    BY <2>2, UnavailableIsNotAvailable DEF BranchCheckFails, Return, AuthFailureStops
  <2>3. CASE UNCHANGED vars
    BY <2>3 DEF vars, AuthFailureStops
  <2>4. ASSUME Next, ~AuthFails, ~BranchCheckFails, ~Done
        PROVE  pc # "done" /\ authFailed' = authFailed
    BY <2>4 DEF Next, Inspect, AdminEdits, RefuseInputs, GetRules, RulesNotFound, RulesFail,
       BranchConfirmed, BranchMissing, GetRulesets, RulesetsNotFound, GetDetail, DetailNotFound,
       RulesMisshapen, RulesetsMisshapen, DetailWithheld, ListBypassActorsFails, Request
  <2>5. QED
    BY <2>1, <2>2, <2>3, <2>4 DEF Done, AuthFailureStops
<1>3. QED
  BY <1>1, <1>2, PTL DEF Spec

\* Inductive: past the first page of the rules the branch is known to exist.
BranchKnown ==
  /\ pc \in {"rulesets", "details"} => branchExists
  /\ pc = "rules" /\ page # 0 => branchExists
  /\ report.available => pc = "done" /\ branchExists

LEMMA MissingBranches == Spec => []BranchKnown
<1>1. Init => BranchKnown
  BY UnavailableIsNotAvailable DEF Init, NoReport, BranchKnown
<1>2. BranchKnown /\ [Next]_vars => BranchKnown'
  <2> SUFFICES ASSUME BranchKnown, [Next]_vars PROVE BranchKnown'
    OBVIOUS
  <2>1. CASE RefuseInputs \/ AuthFails \/ BranchCheckFails \/ RulesFail \/ BranchMissing
    BY <2>1, UnavailableIsNotAvailable
       DEF RefuseInputs, AuthFails, BranchCheckFails, RulesFail, BranchMissing, Return, BranchKnown
  <2>2. CASE GetRules \/ RulesMisshapen \/ BranchConfirmed
    BY <2>2 DEF GetRules, RulesMisshapen, BranchConfirmed, RulesRead, Request, platform, BranchKnown
  <2>3. CASE AdminEdits \/ UNCHANGED vars
    BY <2>3 DEF AdminEdits, vars, platform, BranchKnown
  <2>4. CASE RulesNotFound
    <3>1. pc = "rules" /\ UNCHANGED <<report, branchExists>>
      BY <2>4 DEF RulesNotFound, RulesRead, Request, platform
    <3>2. pc' = "branch" \/ branchExists
      BY <2>4, <3>1 DEF RulesNotFound, BranchKnown
    <3>3. QED
      BY <2>4, <3>1, <3>2 DEF RulesNotFound, RulesRead, BranchKnown
  <2>5. CASE GetRulesets \/ RulesetsNotFound \/ RulesetsMisshapen
    BY <2>5 DEF GetRulesets, RulesetsNotFound, RulesetsMisshapen, ListingRead, Return, Request,
                platform, BranchKnown
  <2>6. CASE GetDetail \/ DetailNotFound \/ DetailWithheld
    BY <2>6 DEF GetDetail, DetailNotFound, DetailWithheld, DetailRead, Return, Request, platform,
                BranchKnown
  <2>7. CASE ListBypassActorsFails
    <3>1. pc \in {"rulesets", "details"} /\ branchExists' = branchExists
      BY <2>7 DEF ListBypassActorsFails, Request, platform
    <3>2. pc' = "done"
      BY <2>7 DEF ListBypassActorsFails, Return
    <3>3. QED
      BY <3>1, <3>2 DEF BranchKnown
  <2>8. QED
    BY <2>1, <2>2, <2>3, <2>4, <2>5, <2>6, <2>7 DEF Next, Inspect, Done
<1>3. QED
  BY <1>1, <1>2, PTL DEF Spec

\* A 401 or 403 on any request, the enrichment's included, leaves no report to
\* trust, and neither does a 404 for a branch that does not exist, for any
\* rulesets, pages and edits.
THEOREM AvailableIsAnswered == Spec => []AvailableReportIsAnswered
<1>1. AuthFailureStops /\ BranchKnown => AvailableReportIsAnswered
  BY DEF AuthFailureStops, BranchKnown, AvailableReportIsAnswered
<1>2. QED
  BY <1>1, AuthFailures, MissingBranches, PTL

-----------------------------------------------------------------------------
(* What a clean report without a warning is worth.                           *)

\* A member of a set of rulesets has a place among them.
LEMMA PlaceAmong ==
  ASSUME NEW S, S \subseteq RulesetIds, NEW i \in S
  PROVE  /\ Cardinality({j \in S : j <= i}) \in Nat /\ Cardinality(S) \in Nat
         /\ 0 < Cardinality({j \in S : j <= i})
         /\ Cardinality({j \in S : j <= i}) <= Cardinality(S)
<1> DEFINE Below == {j \in S : j <= i}
<1>1. IsFiniteSet(RulesetIds) /\ RulesetIds \subseteq Nat
  BY BranchGovernanceAssumption
<1>2. i \in Below
  <2>1. i \in Nat
    BY <1>1
  <2>2. i <= i
    BY <2>1
  <2>3. QED
    BY <2>2
<1>3. IsFiniteSet(S)
  BY <1>1, FS_Subset
<1>4. Below \subseteq S
  OBVIOUS
<1>5. IsFiniteSet(Below) /\ Cardinality(Below) <= Cardinality(S)
  BY <1>3, <1>4, FS_Subset
<1>6. Cardinality(S) \in Nat /\ Cardinality(Below) \in Nat
  BY <1>3, <1>5, FS_CardinalityType
<1>7. Cardinality(Below) # 0
  BY <1>2, <1>5, FS_EmptySet
<1>8. 0 < Cardinality(Below)
  BY <1>6, <1>7
<1>9. QED
  BY <1>5, <1>6, <1>8

\* A ruleset's place in the listing is one of the listing's places.
LEMMA RankBounds ==
  ASSUME NEW i \in Listed
  PROVE  /\ Rank(i) \in Nat /\ Cardinality(Listed) \in Nat
         /\ 0 < Rank(i) /\ Rank(i) <= Cardinality(Listed)
<1>1. Listed \subseteq RulesetIds
  BY DEF Listed
<1>2. QED
  BY <1>1, PlaceAmong DEF Rank

LEMMA PlacesType ==
  ASSUME NEW p \in Nat
  PROVE  p * PageSize \in Nat /\ (p + 1) * PageSize \in Nat /\ 0 * PageSize = 0
BY BranchGovernanceAssumption

\* A listed ruleset that is unread is on the next page or after it.
LEMMA NextPageOrLater ==
  ASSUME TypeOK, NEW i \in After(page)
  PROVE  i \in OnPage(page) \/ (page + 1) * PageSize < Rank(i)
<1>1. i \in Listed /\ page * PageSize < Rank(i)
  BY DEF After
<1>2. Rank(i) \in Nat /\ (page + 1) * PageSize \in Nat
  BY <1>1, RankBounds, PlacesType DEF TypeOK
<1>3. Rank(i) <= (page + 1) * PageSize \/ (page + 1) * PageSize < Rank(i)
  BY <1>2
<1>4. QED
  BY <1>1, <1>3 DEF OnPage

\* Inductive: a ruleset that is not yet known harmless is still to be read, or
\* was not shown, or has left a bypass actor behind.
HarmlessOrToDo ==
  /\ HarmlessNow(rulesets) \subseteq wasHarmless
  /\ pc \in {"start", "rules", "branch"} => todo = {}
  /\ pc \in {"start", "rules", "branch", "rulesets"} => modes = << >> /\ ~report.available
  /\ pc = "rulesets" => RulesetIds \subseteq wasHarmless \cup unseen \cup todo \cup After(page)
  /\ pc = "details" => /\ ~report.available
                       /\ modes # << >> \/ RulesetIds \subseteq wasHarmless \cup unseen \cup todo
  /\ pc = "done" /\ report.available /\ ~report.warned /\ report.bypassActors = 0 => Witnessed

\* A ruleset that is not listed is gone, and so harmless.
LEMMA UnlistedIsHarmless ==
  ASSUME HarmlessOrToDo, NEW i \in RulesetIds, i \notin Listed
  PROVE  i \in wasHarmless
BY DEF Listed, Harmless, HarmlessNow, HarmlessOrToDo

\* A page of the listing settles the rulesets on it that are not active.
LEMMA PageSettles ==
  ASSUME TypeOK, HarmlessOrToDo, pc = "rulesets", NEW i \in RulesetIds
  PROVE  i \in wasHarmless \cup unseen \cup todo \cup ActiveOnPage(page) \cup After(page + 1)
<1>1. i \in wasHarmless \cup unseen \cup todo \cup After(page)
  BY DEF HarmlessOrToDo
<1>2. CASE i \in After(page)
  <2>1. CASE i \in OnPage(page)
    <3>1. rulesets[i].state = "active" \/ i \in wasHarmless
      BY DEF Harmless, HarmlessNow, HarmlessOrToDo
    <3>2. QED
      BY <2>1, <3>1 DEF ActiveOnPage
  <2>2. CASE i \notin OnPage(page)
    BY <1>2, <2>2, NextPageOrLater DEF After
  <2>3. QED
    BY <2>1, <2>2
<1>3. QED
  BY <1>1, <1>2

\* Reading the details of a ruleset settles it.
LEMMA DetailReadKeeps ==
  ASSUME TypeOK, HarmlessOrToDo, pc = "details", NEW id \in todo, NEW actors \in Seq(BypassMode),
         actors = << >> => id \in wasHarmless \cup unseen',
         DetailRead(id, actors), UNCHANGED <<platform, wasHarmless>>, unseen \subseteq unseen'
  PROVE  HarmlessOrToDo'
<1>1. modes' \in Seq(BypassMode) /\ (modes' = << >> <=> modes = << >> /\ actors = << >>)
  BY DEF DetailRead, TypeOK
<1>2. modes' # << >> \/ RulesetIds \subseteq wasHarmless' \cup unseen' \cup todo'
  BY <1>1 DEF DetailRead, HarmlessOrToDo
<1>3. HarmlessNow(rulesets') \subseteq wasHarmless'
  BY DEF HarmlessOrToDo, platform
<1>4. CASE todo' = {}
  <2>1. pc' = "done" /\ report' = DeriveReport(rules, modes', FALSE)
    BY <1>4 DEF DetailRead, Return
  <2>2. report'.bypassActors = 0 => Witnessed'
    <3>1. report'.bypassActors = Len(modes')
      BY <2>1 DEF DeriveReport
    <3>2. QED
      <4>1. report'.bypassActors = 0 => modes' = << >>
        BY <1>1, <3>1, EmptySeq
      <4>2. QED
        BY <1>2, <1>4, <4>1 DEF Witnessed
  <2>3. QED
    BY <1>3, <2>1, <2>2 DEF HarmlessOrToDo
<1>5. CASE todo' # {}
  <2>1. pc' = "details" /\ report' = report
    BY <1>5 DEF DetailRead
  <2>2. QED
    BY <1>2, <1>3, <2>1 DEF HarmlessOrToDo
<1>6. QED
  BY <1>4, <1>5

\* So does the end of a listing that names every ruleset still in doubt.
LEMMA ListingReadKeeps ==
  ASSUME TypeOK, HarmlessOrToDo, pc = "rulesets", NEW ids, ListingRead(ids),
         RulesetIds \subseteq wasHarmless \cup unseen' \cup ids,
         UNCHANGED <<platform, wasHarmless, modes>>
  PROVE  HarmlessOrToDo'
<1>1. HarmlessNow(rulesets') \subseteq wasHarmless'
  BY DEF HarmlessOrToDo, platform
<1>2. CASE ids = {}
  BY <1>1, <1>2 DEF ListingRead, Return, HarmlessOrToDo, Witnessed
<1>3. CASE ids # {}
  BY <1>1, <1>3 DEF ListingRead, HarmlessOrToDo
<1>4. QED
  BY <1>2, <1>3

\* An administrator who edits during the listing settles what is deleted, and
\* what that moves out of the pages to come was not shown.
LEMMA AdminEditsKeep ==
  ASSUME TypeOK, HarmlessOrToDo, AdminEdits
  PROVE  HarmlessOrToDo'
<1>1. HarmlessNow(rulesets') \subseteq wasHarmless' /\ wasHarmless \subseteq wasHarmless'
  BY DEF AdminEdits
<1>2. UNCHANGED <<pc, page, todo, modes, report>> /\ unseen \subseteq unseen' /\ pc # "done"
  BY DEF AdminEdits
<1>3. ASSUME pc = "rulesets"
      PROVE  RulesetIds \subseteq wasHarmless' \cup unseen' \cup todo' \cup After(page)'
  <2>1. RulesetIds \subseteq wasHarmless \cup unseen \cup todo \cup After(page)
    BY <1>3 DEF HarmlessOrToDo
  <2>2. unseen' = unseen \cup (After(page) \ After(page)')
    BY <1>3 DEF AdminEdits
  <2>3. QED
    BY <1>1, <1>2, <2>1, <2>2
<1>4. QED
  BY <1>1, <1>2, <1>3 DEF HarmlessOrToDo

\* A clean report without a warning speaks for each ruleset that the answers of
\* _collect_bypass_actors's requests showed, whatever an administrator edits
\* meanwhile.
THEOREM UnwarnedCleanWitnessed == Spec => []UnwarnedCleanIsWitnessed
<1>1. Init => HarmlessOrToDo
  BY UnavailableIsNotAvailable DEF Init, NoReport, HarmlessOrToDo
<1>2. TypeOK /\ HarmlessOrToDo /\ [Next]_vars => HarmlessOrToDo'
  <2> SUFFICES ASSUME TypeOK, HarmlessOrToDo, [Next]_vars PROVE HarmlessOrToDo'
    OBVIOUS
  <2>1. CASE RefuseInputs \/ AuthFails \/ BranchCheckFails \/ RulesFail \/ BranchMissing
    <3>1. pc' = "done" /\ ~report'.available
      BY <2>1, UnavailableIsNotAvailable
         DEF RefuseInputs, AuthFails, BranchCheckFails, RulesFail, BranchMissing, Return
    <3>2. UNCHANGED <<platform, wasHarmless>>
      BY <2>1 DEF RefuseInputs, AuthFails, BranchCheckFails, RulesFail, BranchMissing, Request
    <3>3. QED
      BY <3>1, <3>2 DEF HarmlessOrToDo, platform
  <2>2. CASE GetRules \/ RulesMisshapen \/ RulesNotFound \/ BranchConfirmed
    <3>1. /\ pc \in {"rules", "branch"} /\ pc' \in {"rules", "branch", "rulesets"}
          /\ UNCHANGED <<platform, wasHarmless, todo, modes, report, unseen>>
          /\ pc' = "rulesets" => page' = 0
      BY <2>2 DEF GetRules, RulesMisshapen, RulesNotFound, BranchConfirmed, RulesRead, Request
    <3>2. pc' = "rulesets" => RulesetIds \subseteq wasHarmless' \cup After(page)'
      <4> SUFFICES ASSUME pc' = "rulesets", NEW i \in RulesetIds, i \notin wasHarmless'
                   PROVE  i \in After(page)'
        OBVIOUS
      <4>1. i \in Listed /\ Listed' = Listed
        BY <3>1, UnlistedIsHarmless DEF Listed, platform
      <4>2. Rank(i)' = Rank(i) /\ 0 < Rank(i)
        BY <4>1, RankBounds DEF Rank
      <4>3. page' * PageSize = 0
        BY <3>1, PlacesType
      <4>4. QED
        BY <4>1, <4>2, <4>3 DEF After
    <3>3. QED
      BY <3>1, <3>2 DEF HarmlessOrToDo, platform
  <2>3. CASE GetRulesets
    <3>1. pc = "rulesets" /\ UNCHANGED <<platform, wasHarmless, modes>>
      BY <2>3 DEF GetRulesets, Request
    <3>2. PICK skipped \in SUBSET ActiveOnPage(page) :
            LET ids == todo \cup (ActiveOnPage(page) \ skipped)
            IN  \/ /\ todo' = ids /\ page' = page + 1 /\ UNCHANGED <<pc, report>>
                   /\ unseen' = unseen \cup skipped
                \/ /\ ListingRead(ids)
                   /\ unseen' = unseen \cup skipped \cup After(page + 1)
      BY <2>3 DEF GetRulesets
    <3> DEFINE ids == todo \cup (ActiveOnPage(page) \ skipped)
    <3>3. RulesetIds \subseteq wasHarmless \cup unseen \cup skipped \cup ids \cup After(page + 1)
      BY <3>1, PageSettles
    <3>4. CASE /\ todo' = ids /\ page' = page + 1 /\ UNCHANGED <<pc, report>>
               /\ unseen' = unseen \cup skipped
      <4>1. After(page)' = After(page + 1)
        BY <3>1, <3>4 DEF After, Listed, Rank, platform
      <4>2. RulesetIds \subseteq wasHarmless' \cup unseen' \cup todo' \cup After(page)'
        BY <3>1, <3>3, <3>4, <4>1
      <4>3. QED
        BY <3>1, <3>4, <4>2 DEF HarmlessOrToDo, platform
    <3>5. CASE ListingRead(ids) /\ unseen' = unseen \cup skipped \cup After(page + 1)
      <4>1. RulesetIds \subseteq wasHarmless \cup unseen' \cup ids
        BY <3>3, <3>5
      <4>2. QED
        BY <3>1, <3>5, <4>1, ListingReadKeeps
    <3>6. QED
      BY <3>2, <3>4, <3>5
  <2>4. CASE RulesetsNotFound \/ RulesetsMisshapen
    <3>1. pc = "rulesets" /\ UNCHANGED <<platform, wasHarmless, modes>>
      BY <2>4 DEF RulesetsNotFound, RulesetsMisshapen, Request
    <3>2. RulesetIds \subseteq wasHarmless \cup unseen \cup todo \cup After(page)
      BY <3>1 DEF HarmlessOrToDo
    <3>3. CASE RulesetsNotFound
      BY <3>1, <3>2, <3>3, ListingReadKeeps DEF RulesetsNotFound
    <3>4. CASE RulesetsMisshapen
      BY <3>1, <3>2, <3>4, ListingReadKeeps DEF RulesetsMisshapen
    <3>5. QED
      BY <2>4, <3>3, <3>4
  <2>5. CASE GetDetail
    <3>1. PICK id \in todo : DetailRead(id, rulesets[id].actors)
      BY <2>5 DEF GetDetail
    <3>2. rulesets[id].actors \in Seq(BypassMode) /\ id \in RulesetIds
      BY DEF Ruleset, TypeOK
    <3>3. rulesets[id].actors = << >> => id \in wasHarmless
      BY <3>2 DEF Harmless, HarmlessNow, HarmlessOrToDo
    <3>4. pc = "details" /\ UNCHANGED <<platform, wasHarmless, unseen>>
      BY <2>5 DEF GetDetail, Request
    <3>5. QED
      BY <3>1, <3>2, <3>3, <3>4, DetailReadKeeps
  <2>6. CASE DetailNotFound
    <3>1. PICK id \in todo : rulesets[id].state = "gone" /\ DetailRead(id, << >>)
      BY <2>6 DEF DetailNotFound
    <3>2. id \in wasHarmless
      BY <3>1 DEF Harmless, HarmlessNow, HarmlessOrToDo, TypeOK
    <3>3. pc = "details" /\ UNCHANGED <<platform, wasHarmless, unseen>>
      BY <2>6 DEF DetailNotFound, Request
    <3>4. << >> \in Seq(BypassMode)
      OBVIOUS
    <3>5. QED
      BY <3>1, <3>2, <3>3, <3>4, DetailReadKeeps
  <2>7. CASE DetailWithheld
    <3>1. PICK id \in todo : DetailRead(id, << >>) /\ unseen' = unseen \cup {id}
      BY <2>7 DEF DetailWithheld
    <3>2. pc = "details" /\ UNCHANGED <<platform, wasHarmless>>
      BY <2>7 DEF DetailWithheld, Request
    <3>3. << >> \in Seq(BypassMode)
      OBVIOUS
    <3>4. QED
      BY <3>1, <3>2, <3>3, DetailReadKeeps
  <2>8. CASE ListBypassActorsFails
    <3>1. pc' = "done" /\ report'.warned /\ UNCHANGED <<platform, wasHarmless>>
      BY <2>8 DEF ListBypassActorsFails, Return, DeriveReport, Request
    <3>2. QED
      BY <3>1 DEF HarmlessOrToDo, platform
  <2>9. CASE AdminEdits
    BY <2>9, AdminEditsKeep
  <2>10. CASE UNCHANGED vars
    BY <2>10 DEF vars, HarmlessOrToDo, After, Listed, Rank, Witnessed
  <2>11. QED
    BY <2>1, <2>2, <2>3, <2>4, <2>5, <2>6, <2>8, <2>9, <2>10, <2>7 DEF Next, Inspect, Done
<1>3. TypeOK /\ HarmlessOrToDo => UnwarnedCleanIsWitnessed
  <2> SUFFICES ASSUME TypeOK, HarmlessOrToDo, pc = "done", Clean(report), ~report.warned
               PROVE  Witnessed
    BY DEF UnwarnedCleanIsWitnessed
  <2>1. report.bypassActors \in Nat
    BY DEF GovernanceReport, TypeOK
  <2>2. report.bypassActors = 0 /\ report.available
    BY <2>1 DEF Clean, BypassPermitsUnreviewedChange
  <2>3. QED
    BY <2>2 DEF HarmlessOrToDo
<1>4. QED
  BY <1>1, <1>2, <1>3, TypeCorrect, PTL DEF Spec

-----------------------------------------------------------------------------
(* How many requests an inspection makes.                                    *)

\* An earlier ruleset of the listing has a smaller rank.
LEMMA RankIncreases ==
  ASSUME NEW i \in Listed, NEW j \in Listed, i < j
  PROVE  Rank(i) < Rank(j)
<1> DEFINE Up(k) == {m \in Listed : m <= k}
<1>1. IsFiniteSet(Listed) /\ Listed \subseteq Nat
  BY BranchGovernanceAssumption, FS_Subset DEF Listed
<1>2. i \in Nat /\ j \in Nat
  BY <1>1
<1>3. Up(i) \subseteq Up(j) \ {j} /\ j \in Up(j)
  <2>1. ASSUME NEW m \in Listed, m <= i PROVE m <= j /\ m # j
    BY <1>1, <1>2, <2>1
  <2>2. Up(i) \subseteq Up(j) \ {j}
    BY <2>1
  <2>3. j \in Up(j)
    <3>1. j <= j
      BY <1>2
    <3>2. QED
      BY <3>1
  <2>4. QED
    BY <2>2, <2>3
<1>4. IsFiniteSet(Up(j)) /\ IsFiniteSet(Up(j) \ {j})
  BY <1>1, FS_Subset, FS_RemoveElement
<1>5. Cardinality(Up(j) \ {j}) = Cardinality(Up(j)) - 1
  BY <1>3, <1>4, FS_RemoveElement
<1>6. Cardinality(Up(i)) <= Cardinality(Up(j) \ {j})
  BY <1>3, <1>4, FS_Subset
<1>7. Cardinality(Up(i)) \in Nat /\ Cardinality(Up(j)) \in Nat
  <2>1. IsFiniteSet(Up(i))
    BY <1>3, <1>4, FS_Subset
  <2>2. QED
    BY <1>4, <2>1, FS_CardinalityType
<1>8. QED
  BY <1>5, <1>6, <1>7 DEF Rank

\* A page of the listing holds at most PageSize rulesets.
LEMMA PageIsSmall ==
  ASSUME NEW p \in Nat
  PROVE  IsFiniteSet(OnPage(p)) /\ Cardinality(OnPage(p)) <= PageSize
<1> DEFINE places == (p * PageSize + 1)..((p + 1) * PageSize)
           place  == [i \in OnPage(p) |-> Rank(i)]
<1>1. p * PageSize \in Nat /\ (p + 1) * PageSize \in Nat /\ PageSize \in Nat
  BY PlacesType, BranchGovernanceAssumption
<1>2. (p + 1) * PageSize = p * PageSize + PageSize
  BY BranchGovernanceAssumption
<1>3. IsFiniteSet(places) /\ Cardinality(places) = PageSize
  <2>1. p * PageSize + 1 \in Int /\ (p + 1) * PageSize \in Int
    BY <1>1
  <2>2. PageSize > 0
    BY BranchGovernanceAssumption
  <2>3. QED
    BY <1>1, <1>2, <2>1, <2>2, FS_Interval
<1>4. place \in [OnPage(p) -> places]
  <2>1. ASSUME NEW i \in OnPage(p) PROVE Rank(i) \in places
    <3>1. i \in Listed /\ p * PageSize < Rank(i) /\ Rank(i) <= (p + 1) * PageSize
      BY DEF OnPage
    <3>2. Rank(i) \in Nat
      BY <3>1, RankBounds
    <3>3. QED
      BY <1>1, <3>1, <3>2
  <2>2. QED
    BY <2>1
<1>5. ASSUME NEW i \in OnPage(p), NEW j \in OnPage(p), Rank(i) = Rank(j) PROVE i = j
  <2>1. i \in Listed /\ j \in Listed /\ Rank(i) \in Nat
    BY RankBounds DEF OnPage
  <2>2. i \in Nat /\ j \in Nat
    BY <2>1, BranchGovernanceAssumption DEF Listed
  <2>3. ~(i < j) /\ ~(j < i)
    BY <1>5, <2>1, RankIncreases
  <2>4. QED
    BY <2>2, <2>3
<1>6. place \in Injection(OnPage(p), places)
  <2>1. \A i, j \in OnPage(p) : place[i] = place[j] => i = j
    BY <1>5
  <2>2. QED
    BY <1>4, <2>1 DEF Injection, IsInjective
<1>7. QED
  <2> HIDE DEF place, places
  <2>1. QED
    BY <1>3, <1>6, FS_Injection

MostDetails == LowerOf(MaxPages * PageSize, Cardinality(RulesetIds))

\* Inductive: what each stage has asked for, and how much the listing can
\* still have it ask for.
Counted ==
  /\ pc \in {"start", "rules", "branch"} => todo = {}
  /\ pc = "start" => requests = 0
  /\ pc = "rules" => requests = page /\ page < MaxPages
  /\ pc = "branch" => requests <= MaxPages
  /\ pc = "rulesets" => /\ requests <= MaxPages + 1 + page /\ page < MaxPages
                        /\ Cardinality(todo) <= page * PageSize
  /\ pc = "details" => todo # {} /\ requests + Cardinality(todo) <= 2 * MaxPages + 1 + MostDetails
  /\ pc = "done" => requests <= 2 * MaxPages + 1 + MostDetails

LEMMA BoundsType ==
  /\ MaxPages \in Nat /\ MaxPages > 0 /\ PageSize \in Nat /\ PageSize > 0
  /\ MaxPages * PageSize \in Nat /\ Cardinality(RulesetIds) \in Nat /\ MostDetails \in Nat
<1>1. MaxPages \in Nat /\ MaxPages > 0 /\ PageSize \in Nat /\ PageSize > 0
  BY BranchGovernanceAssumption
<1>2. MaxPages * PageSize \in Nat
  BY <1>1
<1>3. Cardinality(RulesetIds) \in Nat
  BY BranchGovernanceAssumption, FS_CardinalityType
<1>4. QED
  BY <1>1, <1>2, <1>3 DEF MostDetails, LowerOf

LEMMA TodoIsFinite ==
  ASSUME NEW ids \in SUBSET RulesetIds
  PROVE  /\ IsFiniteSet(ids) /\ Cardinality(ids) \in Nat
         /\ Cardinality(ids) <= Cardinality(RulesetIds)
         /\ ids = {} <=> Cardinality(ids) = 0
         /\ \A id \in ids : Cardinality(ids \ {id}) = Cardinality(ids) - 1
<1>1. IsFiniteSet(ids) /\ Cardinality(ids) <= Cardinality(RulesetIds)
  BY BranchGovernanceAssumption, FS_Subset
<1>2. QED
  BY <1>1, FS_CardinalityType, FS_EmptySet, FS_RemoveElement

\* Products of the page number and the page size are ordered as the pages are.
LEMMA PagesBefore ==
  ASSUME NEW p \in Nat, p < MaxPages
  PROVE  p * PageSize + PageSize <= MaxPages * PageSize
<1>1. PICK d \in Nat : MaxPages = (p + 1) + d
  <2>1. MaxPages - (p + 1) \in Nat
    BY BoundsType
  <2>2. MaxPages = (p + 1) + (MaxPages - (p + 1))
    BY BoundsType
  <2>3. QED
    BY <2>1, <2>2
<1>2. MaxPages * PageSize = (p * PageSize + PageSize) + d * PageSize
  BY <1>1, BoundsType
<1>3. d * PageSize \in Nat /\ p * PageSize \in Nat
  BY BoundsType
<1>4. QED
  BY <1>2, <1>3, BoundsType

\* The end of a listing leaves no more details to read than it named.
LEMMA ListingReadCounts ==
  ASSUME TypeOK, NEW ids \in SUBSET RulesetIds, ListingRead(ids),
         Cardinality(ids) <= MaxPages * PageSize,
         requests' <= 2 * MaxPages + 1, requests' \in Nat
  PROVE  Counted'
<1>1. Cardinality(ids) \in Nat /\ Cardinality(ids) <= MostDetails
  BY BoundsType, TodoIsFinite DEF MostDetails, LowerOf
<1>2. CASE ids = {}
  BY <1>2, BoundsType DEF ListingRead, Return, Counted
<1>3. CASE ids # {}
  <2>1. pc' = "details" /\ todo' = ids
    BY <1>3 DEF ListingRead
  <2>2. requests' + Cardinality(todo') <= 2 * MaxPages + 1 + MostDetails
    BY <1>1, <2>1, BoundsType
  <2>3. QED
    BY <1>3, <2>1, <2>2 DEF Counted
<1>4. QED
  BY <1>2, <1>3

\* The details of one ruleset are one request, and one detail less to read.
LEMMA DetailReadCounts ==
  ASSUME TypeOK, Counted, pc = "details", requests' = requests + 1,
         NEW id \in todo, NEW actors, DetailRead(id, actors)
  PROVE  Counted'
<1>1. requests + Cardinality(todo) <= 2 * MaxPages + 1 + MostDetails /\ requests \in Nat
  BY DEF Counted, TypeOK
<1>2. todo' = todo \ {id} /\ todo \in SUBSET RulesetIds /\ todo' \in SUBSET RulesetIds
  BY DEF DetailRead, TypeOK
<1>3. /\ Cardinality(todo) \in Nat /\ Cardinality(todo') \in Nat
      /\ Cardinality(todo') = Cardinality(todo) - 1
  BY <1>2, TodoIsFinite
<1>4. requests' + Cardinality(todo') <= 2 * MaxPages + 1 + MostDetails
  BY <1>1, <1>3
<1>5. CASE todo' = {}
  <2>1. pc' = "done"
    BY <1>5 DEF DetailRead, Return
  <2>2. requests' <= 2 * MaxPages + 1 + MostDetails
    BY <1>1, <1>3, <1>4, BoundsType
  <2>3. QED
    BY <2>1, <2>2 DEF Counted
<1>6. CASE todo' # {}
  <2>1. pc' = "details"
    BY <1>6 DEF DetailRead
  <2>2. QED
    BY <1>4, <1>6, <2>1 DEF Counted
<1>7. QED
  BY <1>5, <1>6

\* An inspection that ends with a request it had the right to make.
LEMMA EndsCounted ==
  ASSUME TypeOK, Counted, pc # "done", pc' = "done", requests' \in {requests, requests + 1}
  PROVE  Counted'
<1>1. requests \in Nat /\ page \in Nat /\ todo \in SUBSET RulesetIds
  BY DEF TypeOK
<1>2. CASE pc \in {"start", "rules", "branch", "rulesets"}
  BY <1>1, <1>2, BoundsType DEF Counted
<1>3. CASE pc = "details"
  <2>1. Cardinality(todo) \in Nat /\ Cardinality(todo) # 0
    BY <1>1, <1>3, TodoIsFinite DEF Counted
  <2>2. QED
    BY <1>1, <1>3, <2>1, BoundsType DEF Counted
<1>4. QED
  BY <1>2, <1>3 DEF TypeOK

\* One inspection asks GitHub for a bounded number of answers, whatever the
\* listings hold (MAX_PAGES of github_rules.py) and whatever is edited
\* meanwhile.
THEOREM RequestsAreBounded == Spec => []RequestsBounded
<1>1. Init => Counted
  BY BoundsType DEF Init, Counted
<1>2. TypeOK /\ Counted /\ [Next]_vars => Counted'
  <2> SUFFICES ASSUME TypeOK, Counted, [Next]_vars PROVE Counted'
    OBVIOUS
  <2>0. requests \in Nat /\ page \in Nat /\ todo \in SUBSET RulesetIds
    BY DEF TypeOK
  <2>1. CASE RefuseInputs
    BY <2>1, EndsCounted DEF RefuseInputs, Return
  <2>2. CASE AuthFails \/ BranchCheckFails \/ RulesFail \/ BranchMissing \/ ListBypassActorsFails
    <3>1. pc # "done" /\ pc' = "done" /\ requests' = requests + 1
      BY <2>2 DEF AuthFails, BranchCheckFails, RulesFail, BranchMissing, ListBypassActorsFails,
                  Request, Return
    <3>2. QED
      BY <3>1, EndsCounted
  <2>3. CASE GetRules \/ RulesMisshapen \/ RulesNotFound
    <3>1. pc = "rules" /\ requests' = requests + 1 /\ todo' = {}
      BY <2>3 DEF GetRules, RulesMisshapen, RulesNotFound, Request, Counted
    <3>2. CASE page + 1 < LowerOf(Len(PagesOfRules), MaxPages) /\ page' = page + 1 /\ pc' = pc
      <4>1. page + 1 < MaxPages
        BY <2>0, <3>2, BoundsType, PagesOfRulesType DEF LowerOf
      <4>2. QED
        BY <3>1, <3>2, <4>1 DEF Counted
    <3>3. CASE RulesRead
      <4>1. page' = 0 /\ pc' = "rulesets"
        BY <3>3 DEF RulesRead
      <4>2. Cardinality(todo') = 0 /\ page' * PageSize = 0
        BY <3>1, <4>1, FS_EmptySet, PlacesType
      <4>3. QED
        BY <2>0, <3>1, <4>1, <4>2, BoundsType DEF Counted
    <3>4. CASE pc' = "branch"
      BY <2>0, <3>1, <3>4, BoundsType DEF Counted
    <3>5. QED
      BY <2>3, <3>2, <3>3, <3>4 DEF GetRules, RulesMisshapen, RulesNotFound
  <2>4. CASE BranchConfirmed
    <3>1. /\ pc = "branch" /\ requests' = requests + 1 /\ todo' = {}
          /\ page' = 0 /\ pc' = "rulesets"
      BY <2>4 DEF BranchConfirmed, RulesRead, Request, Counted
    <3>2. Cardinality(todo') = 0 /\ page' * PageSize = 0
      BY <3>1, FS_EmptySet, PlacesType
    <3>3. QED
      BY <2>0, <3>1, <3>2, BoundsType DEF Counted
  <2>5. CASE GetRulesets
    <3>0. PICK skipped \in SUBSET ActiveOnPage(page) :
            LET ids == todo \cup (ActiveOnPage(page) \ skipped)
            IN  \/ page + 1 < MaxPages /\ todo' = ids /\ page' = page + 1 /\ pc' = pc
                \/ ListingRead(ids)
      BY <2>5 DEF GetRulesets
    <3> DEFINE shown == ActiveOnPage(page) \ skipped
               ids == todo \cup shown
    <3>1. /\ pc = "rulesets" /\ requests' = requests + 1
          /\ requests <= MaxPages + 1 + page /\ page < MaxPages
          /\ Cardinality(todo) <= page * PageSize
      BY <2>5 DEF GetRulesets, Request, Counted
    <3>2. /\ ids \in SUBSET RulesetIds /\ shown \subseteq OnPage(page)
          /\ OnPage(page) \in SUBSET RulesetIds
      BY <2>0 DEF ActiveOnPage, OnPage, Listed
    <3>3. Cardinality(ids) <= page * PageSize + PageSize /\ Cardinality(ids) \in Nat
      <4>1. /\ IsFiniteSet(shown) /\ Cardinality(shown) <= PageSize
            /\ Cardinality(shown) \in Nat
        <5>1. /\ IsFiniteSet(OnPage(page)) /\ Cardinality(OnPage(page)) <= PageSize
              /\ Cardinality(OnPage(page)) \in Nat
          BY <2>0, <3>2, PageIsSmall, TodoIsFinite
        <5>2. /\ IsFiniteSet(shown) /\ Cardinality(shown) \in Nat
              /\ Cardinality(shown) <= Cardinality(OnPage(page))
          BY <3>2, <5>1, FS_Subset, FS_CardinalityType
        <5>3. QED
          BY <5>1, <5>2, BoundsType
      <4>2. IsFiniteSet(todo) /\ Cardinality(todo) \in Nat
        BY <2>0, TodoIsFinite
      <4>3. /\ Cardinality(ids) = Cardinality(todo) + Cardinality(shown)
                                    - Cardinality(todo \cap shown)
            /\ Cardinality(todo \cap shown) \in Nat
        BY <4>1, <4>2, FS_Union, FS_Intersection, FS_CardinalityType
      <4>4. page * PageSize \in Nat /\ Cardinality(ids) \in Nat
        BY <2>0, <3>2, PlacesType, TodoIsFinite
      <4>5. QED
        BY <3>1, <4>1, <4>2, <4>3, <4>4, BoundsType
    <3>4. CASE page + 1 < MaxPages /\ todo' = ids /\ page' = page + 1 /\ pc' = pc
      <4>1. page' * PageSize = page * PageSize + PageSize
        BY <2>0, <3>4, BoundsType
      <4>2. Cardinality(todo') <= page' * PageSize
        BY <3>3, <3>4, <4>1
      <4>3. requests' <= MaxPages + 1 + page' /\ page' < MaxPages
        BY <2>0, <3>1, <3>4, BoundsType
      <4>4. QED
        BY <3>1, <3>4, <4>2, <4>3 DEF Counted
    <3>5. CASE ListingRead(ids)
      <4>1. Cardinality(ids) <= MaxPages * PageSize
        BY <2>0, <3>1, <3>3, PagesBefore, PlacesType, BoundsType
      <4>2. requests' <= 2 * MaxPages + 1 /\ requests' \in Nat
        BY <2>0, <3>1, BoundsType
      <4>3. QED
        BY <3>2, <3>5, <4>1, <4>2, ListingReadCounts
    <3>6. QED
      BY <3>0, <3>4, <3>5
  <2>6. CASE RulesetsNotFound \/ RulesetsMisshapen
    <3>1. /\ pc = "rulesets" /\ requests' = requests + 1
          /\ requests <= MaxPages + 1 + page /\ page < MaxPages
          /\ Cardinality(todo) <= page * PageSize
      BY <2>6 DEF RulesetsNotFound, RulesetsMisshapen, Request, Counted
    <3>2. PICK ids \in {todo, {}} : ListingRead(ids)
      BY <2>6 DEF RulesetsNotFound, RulesetsMisshapen
    <3>3. Cardinality(ids) <= MaxPages * PageSize /\ ids \in SUBSET RulesetIds
      <4>1. Cardinality(todo) <= MaxPages * PageSize
        BY <2>0, <3>1, PagesBefore, PlacesType, BoundsType, TodoIsFinite
      <4>2. Cardinality({}) <= MaxPages * PageSize
        BY FS_EmptySet, BoundsType
      <4>3. QED
        BY <2>0, <3>2, <4>1, <4>2
    <3>4. requests' <= 2 * MaxPages + 1 /\ requests' \in Nat
      BY <2>0, <3>1, BoundsType
    <3>5. QED
      BY <3>2, <3>3, <3>4, ListingReadCounts
  <2>7. CASE GetDetail
    BY <2>7, DetailReadCounts DEF GetDetail, Request
  <2>8. CASE DetailNotFound \/ DetailWithheld
    BY <2>8, DetailReadCounts DEF DetailNotFound, DetailWithheld, Request
  <2>9. CASE AdminEdits \/ UNCHANGED vars
    BY <2>9 DEF AdminEdits, vars, Counted
  <2>10. QED
    BY <2>1, <2>2, <2>3, <2>4, <2>5, <2>6, <2>7, <2>8, <2>9 DEF Next, Inspect, Done
<1>3. TypeOK /\ Counted => RequestsBounded
  <2> SUFFICES ASSUME TypeOK, Counted PROVE requests <= 2 * MaxPages + 1 + MostDetails
    BY DEF RequestsBounded, MostDetails
  <2>1. requests \in Nat /\ page \in Nat /\ todo \in SUBSET RulesetIds
    BY DEF TypeOK
  <2>2. CASE pc \in {"start", "rules", "branch", "rulesets", "done"}
    BY <2>1, <2>2, BoundsType DEF Counted
  <2>3. CASE pc = "details"
    BY <2>1, <2>3, BoundsType, TodoIsFinite DEF Counted
  <2>4. QED
    BY <2>2, <2>3 DEF TypeOK
<1>4. QED
  BY <1>1, <1>2, <1>3, TypeCorrect, PTL DEF Spec
=============================================================================
