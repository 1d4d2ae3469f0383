----------------------- MODULE ProvenanceEvidenceProofs -----------------------
(***************************************************************************)
(* Theorems of ProvenanceEvidence, for every world a run may find itself   *)
(* in: any history, SBOM, tree of lockfiles, checkout and settings.        *)
(***************************************************************************)
EXTENDS ProvenanceEvidence, LockfileProofs, FiniteSetTheorems, SequenceTheorems, TLAPS

-----------------------------------------------------------------------------
(* The commit author, for every history, every bound on the walk and every   *)
(* number of attempts.                                                      *)

LEMMA BodyType ==
  ASSUME history \in Histories, NEW c \in Commit
  PROVE  /\ Body(c) \in CommitBody
         /\ SecondParent(c) \in Commit \cup {NoCommit}
<1>1. history \in History
  BY CommitAuthorAssumption
<1>2. history.body \in [Commit -> CommitBody]
  BY <1>1 DEF History
<1>3. Body(c) \in CommitBody
  BY <1>2 DEF Body
<1>4. Body(c).second \in Commit \cup {NoCommit}
  BY <1>3 DEF CommitBody
<1>5. QED
  BY <1>3, <1>4 DEF SecondParent

LEMMA HeadType ==
  ASSUME history \in Histories
  PROVE  history.head \in Commit /\ history.pr \in Seq(Commit)
<1>1. history \in History
  BY CommitAuthorAssumption
<1>2. QED
  BY <1>1 DEF History

\* The last entry of a full or partial first page is an entry.
LEMMA LastListedType ==
  ASSUME NEW pr \in Seq(Commit), pr # << >>
  PROVE  LastListed(pr) \in Commit
<1>1. Len(pr) \in Nat /\ Len(pr) > 0 /\ \A i \in 1..Len(pr) : pr[i] \in Commit
  BY EmptySeq, ElementOfSeq
<1>2. PerPage \in Nat /\ PerPage > 0
  BY CommitAuthorAssumption
<1>3. (IF Len(pr) < PerPage THEN Len(pr) ELSE PerPage) \in 1..Len(pr)
  BY <1>1, <1>2
<1>4. QED
  BY <1>1, <1>3 DEF LastListed

\* What the head of the walk's loop does with a commit in hand.
LEMMA WalkFromCases ==
  ASSUME history \in Histories, verified = "unknown", target \in Commit,
         NEW c \in Commit, NEW h \in 0..MaxHops, WalkFrom(c, h)
  PROVE  /\ target' \in Commit
         /\ \/ pc' = "done" /\ verified' = "unknown" /\ target' = target /\ h = MaxHops
            \/ /\ pc' = "parent" /\ verified' = "unknown" /\ h < MaxHops
               /\ target' = SecondParent(c) /\ SecondParent(c) # NoCommit
            \/ /\ pc' = "pulls" /\ verified' = "unknown" /\ target' = target /\ h < MaxHops
               /\ h = 0 /\ SecondParent(c) = NoCommit
            \/ /\ pc' = "done" /\ verified' \in {"true", "false"} /\ target' = target /\ h < MaxHops
               /\ SecondParent(c) = NoCommit /\ ~(h = 0 /\ Body(c).webFlow)
<1>1. MaxHops \in Nat
  BY CommitAuthorAssumption
<1>2. SecondParent(c) \in Commit \cup {NoCommit}
  BY BodyType
<1>3. CASE h = MaxHops
  BY <1>3 DEF WalkFrom, GiveUp
<1>4. CASE h # MaxHops /\ SecondParent(c) # NoCommit
  BY <1>1, <1>2, <1>4 DEF WalkFrom
<1>5. CASE h # MaxHops /\ SecondParent(c) = NoCommit
  BY <1>1, <1>5 DEF WalkFrom, Credit
<1>6. QED
  BY <1>3, <1>4, <1>5

-----------------------------------------------------------------------------

\* What the type invariant rests on: where each request finds the walk.
WalkPlace ==
  /\ indexed => history.pr # << >>
  /\ pc \in {"pr_commits", "tip"} => indexed
  /\ pc = "commit" => target = history.head /\ source = NoCommit
  /\ pc \in {"commit", "pulls", "pr_commits", "tip"} => hop = 0
  /\ pc = "parent" => hop < MaxHops
  /\ pc = "pulls" => attempts < MaxAttempts
  /\ pc = "commit" => attempts = 0
  /\ pc = "parent" => attempts = 0
  /\ verified # "unknown" => pc = "done" /\ hop < MaxHops /\ ~failed
  /\ failed => pc = "done"

LEMMA PlaceInit == Init => TypeOK /\ WalkPlace
<1> SUFFICES ASSUME Init PROVE TypeOK /\ WalkPlace
  OBVIOUS
<1>1. MaxHops \in Nat \ {0} /\ MaxAttempts \in Nat \ {0} /\ history.head \in Commit
  BY HeadType, CommitAuthorAssumption DEF Init
<1>2. indexed \in BOOLEAN /\ early \in BOOLEAN
  <2>1. indexed \in BOOLEAN
    BY DEF Init
  <2>2. early = indexed
    BY DEF Init
  <2>3. QED
    BY <2>1, <2>2
<1>3. /\ history \in Histories /\ failed \in BOOLEAN
      /\ pc = "commit" /\ current = NoCommit /\ source = NoCommit /\ target = history.head
      /\ hop = 0 /\ attempts = 0 /\ verified = "unknown" /\ ~failed
      /\ indexed => history.pr # << >>
  BY DEF Init
<1>4. TypeOK
  BY <1>1, <1>2, <1>3 DEF TypeOK
<1>5. WalkPlace
  BY <1>1, <1>3 DEF WalkPlace
<1>6. QED
  BY <1>4, <1>5

LEMMA PlaceStep == TypeOK /\ WalkPlace /\ [Next]_vars => TypeOK' /\ WalkPlace'
<1> SUFFICES ASSUME TypeOK, WalkPlace, [Next]_vars PROVE TypeOK' /\ WalkPlace'
  OBVIOUS
<1>0. MaxHops \in Nat \ {0} /\ MaxAttempts \in Nat \ {0} /\ NoCommit \notin Commit
  BY CommitAuthorAssumption
<1>1. CASE FetchHead
  <2>1. pc = "commit" /\ hop = 0 /\ attempts = 0 /\ verified = "unknown" /\ source = NoCommit /\ ~failed
    BY <1>1 DEF FetchHead, WalkPlace
  <2>2. WalkFrom(target, 0) /\ 0 \in 0..MaxHops /\ target \in Commit /\ history \in Histories
    BY <1>0, <1>1 DEF FetchHead, TypeOK
  <2>3. QED
    BY <1>0, <1>1, <2>1, <2>2, WalkFromCases DEF FetchHead, TypeOK, WalkPlace
<1>2. CASE FetchParent
  <2>1. pc = "parent" /\ hop < MaxHops /\ verified = "unknown" /\ ~failed /\ attempts = 0
    BY <1>2 DEF FetchParent, WalkPlace
  <2>2. WalkFrom(target, hop + 1) /\ hop + 1 \in 1..MaxHops /\ target \in Commit /\ history \in Histories
    BY <1>0, <1>2, <2>1 DEF FetchParent, TypeOK
  <2>3. QED
    BY <1>0, <1>2, <2>1, <2>2, WalkFromCases DEF FetchParent, TypeOK, WalkPlace
<1>3. CASE LookUpPull
  BY <1>0, <1>3 DEF LookUpPull, GiveUp, TypeOK, WalkPlace
<1>4. CASE ListPullCommits
  <2>1. history.pr \in Seq(Commit) /\ history.pr # << >>
    BY <1>4, HeadType DEF ListPullCommits, TypeOK, WalkPlace
  <2>2. target' \in Commit
    BY <1>4, <2>1, LastListedType DEF ListPullCommits
  <2>3. QED
    BY <1>0, <1>4, <2>2 DEF ListPullCommits, TypeOK, WalkPlace
<1>5. CASE FetchTip
  BY <1>0, <1>5 DEF FetchTip, Credit, TypeOK, WalkPlace
<1>6. CASE RequestFails
  BY <1>0, <1>6 DEF RequestFails, GiveUp, TypeOK, WalkPlace
<1>7. CASE GitHubIndexes
  BY <1>7 DEF GitHubIndexes, TypeOK, WalkPlace
<1>8. CASE UNCHANGED vars
  BY <1>8 DEF vars, TypeOK, WalkPlace
<1>9. QED
  BY <1>1, <1>2, <1>3, <1>4, <1>5, <1>6, <1>7, <1>8 DEF Next, Inspect, Done

\* Every step keeps the types, and the walk where its requests expect it.
THEOREM TypeCorrect == Spec => []TypeOK
BY PlaceInit, PlaceStep, PTL DEF Spec

-----------------------------------------------------------------------------

LEMMA HeadStep ==
  TypeOK /\ WalkPlace /\ HeadWebFlowNeverCredited /\ [Next]_vars => HeadWebFlowNeverCredited'
<1> SUFFICES ASSUME TypeOK, WalkPlace, HeadWebFlowNeverCredited, [Next]_vars,
                    verified' # "unknown", history'.body[history'.head].webFlow
             PROVE  source' # NoCommit
  BY DEF HeadWebFlowNeverCredited
<1>0. NoCommit \notin Commit /\ MaxHops \in Nat \ {0}
  BY CommitAuthorAssumption
<1>1. CASE FetchHead
  <2>1. /\ pc = "commit" /\ verified = "unknown" /\ target = history.head /\ history' = history
        /\ WalkFrom(target, 0) /\ history \in Histories /\ target \in Commit /\ 0 \in 0..MaxHops
    BY <1>0, <1>1 DEF FetchHead, WalkPlace, TypeOK
  <2>2. Body(target).webFlow
    BY <2>1 DEF Body
  <2>3. verified' = "unknown"
    BY <2>1, <2>2, WalkFromCases
  <2>4. QED
    BY <2>3
<1>2. CASE FetchParent
  BY <1>0, <1>2 DEF FetchParent, TypeOK
<1>3. CASE LookUpPull
  BY <1>3 DEF LookUpPull, GiveUp, WalkPlace, HeadWebFlowNeverCredited
<1>4. CASE ListPullCommits
  BY <1>4 DEF ListPullCommits, WalkPlace, HeadWebFlowNeverCredited
<1>5. CASE FetchTip
  BY <1>0, <1>5 DEF FetchTip, TypeOK
<1>6. CASE RequestFails
  BY <1>6 DEF RequestFails, GiveUp, WalkPlace, HeadWebFlowNeverCredited
<1>7. CASE GitHubIndexes
  BY <1>7 DEF GitHubIndexes, HeadWebFlowNeverCredited
<1>8. CASE UNCHANGED vars
  BY <1>8 DEF vars, HeadWebFlowNeverCredited
<1>9. QED
  BY <1>1, <1>2, <1>3, <1>4, <1>5, <1>6, <1>7, <1>8 DEF Next, Inspect, Done

\* GitHub's own signature on the merge at the head is never reported as the
\* author's (inspect_commit_author), however the history goes on.
THEOREM HeadNeverCredited == Spec => []HeadWebFlowNeverCredited
<1>1. Init => HeadWebFlowNeverCredited
  BY DEF Init, HeadWebFlowNeverCredited
<1>2. QED
  BY <1>1, PlaceInit, PlaceStep, HeadStep, PTL DEF Spec

\* A walk cut short by a failed request, by the bound on its hops or by the
\* bound on the lookups (_resolve_signature_source) determines nothing.
THEOREM IncompleteWalks == Spec => []IncompleteWalkDeterminesNothing
<1>1. TypeOK /\ WalkPlace => IncompleteWalkDeterminesNothing
  BY CommitAuthorAssumption DEF TypeOK, WalkPlace, IncompleteWalkDeterminesNothing
<1>2. QED
  BY <1>1, PlaceInit, PlaceStep, PTL DEF Spec

-----------------------------------------------------------------------------

\* path is a chain of n merges from the head to a commit without a second
\* parent, short enough for the walk.
Resolvable(path, n) ==
  /\ n \in 1..(MaxHops - 1) /\ path \in [1..n -> Commit]
  /\ IsWalk(path, n) /\ SecondParent(path[n]) = NoCommit

\* Where the walk is on such a chain: its next commit is the next on the
\* chain, and it never turns to a pull request.
OnChain(path, n) ==
  /\ pc = "parent" => hop < n /\ target = path[hop + 1]
  /\ pc \notin {"pulls", "pr_commits", "tip"}
  /\ pc = "done" /\ ~failed => verified # "unknown" /\ Credited = path[n]

\* Where the walk is for a squash whose pull request was indexed before.
OnSquash ==
  SecondParent(history.head) = NoCommit /\ Body(history.head).webFlow /\ early =>
    /\ indexed
    /\ pc # "parent"
    /\ pc = "done" /\ ~failed => verified # "unknown"

Resolving ==
  /\ \A n \in 1..(MaxHops - 1) : \A path \in [1..n -> Commit] :
       Resolvable(path, n) => OnChain(path, n)
  /\ OnSquash

\* The links of a chain.
LEMMA Links ==
  ASSUME TypeOK, NEW n, NEW path, Resolvable(path, n)
  PROVE  /\ SecondParent(history.head) = path[1] /\ path[1] \in Commit
         /\ \A i \in 1..(n - 1) : SecondParent(path[i]) = path[i + 1] /\ path[i + 1] \in Commit
<1>1. n \in Nat /\ n >= 1 /\ path \in [1..n -> Commit] /\ MaxHops \in Nat
  BY CommitAuthorAssumption DEF Resolvable
<1>2. path[1] = SecondParent(history.head)
  BY <1>1 DEF Resolvable, IsWalk
<1>3. ASSUME NEW i \in 1..(n - 1) PROVE SecondParent(path[i]) = path[i + 1] /\ path[i + 1] \in Commit
  <2>1. i + 1 \in 1..n /\ i + 1 # 1 /\ (i + 1) - 1 = i
    BY <1>1, <1>3
  <2>2. path[i + 1] = SecondParent(path[(i + 1) - 1])
    BY <2>1 DEF Resolvable, IsWalk
  <2>3. QED
    BY <1>1, <2>1, <2>2
<1>4. QED
  BY <1>1, <1>2, <1>3

LEMMA OnChainStep ==
  ASSUME TypeOK, WalkPlace, NEW n, NEW path, Resolvable(path, n), OnChain(path, n), [Next]_vars
  PROVE  OnChain(path, n)'
<1>0. /\ MaxHops \in Nat \ {0} /\ NoCommit \notin Commit
      /\ n \in 1..(MaxHops - 1) /\ path \in [1..n -> Commit] /\ SecondParent(path[n]) = NoCommit
  BY CommitAuthorAssumption DEF Resolvable
<1>1. CASE FetchHead
  <2>1. /\ target = history.head /\ verified = "unknown" /\ hop = 0 /\ hop' = hop
        /\ WalkFrom(target, 0) /\ history \in Histories /\ target \in Commit /\ 0 \in 0..MaxHops
    BY <1>0, <1>1 DEF FetchHead, WalkPlace, TypeOK
  <2>2. SecondParent(target) = path[1] /\ path[1] \in Commit
    BY <2>1, Links
  <2>3. pc' = "parent" /\ target' = path[1]
    BY <1>0, <2>1, <2>2, WalkFromCases
  <2>4. QED
    BY <1>0, <2>1, <2>3 DEF OnChain
<1>2. CASE FetchParent
  <2>1. /\ verified = "unknown" /\ hop' = hop + 1 /\ source' = target /\ hop < n /\ hop \in Nat
        /\ target = path[hop + 1] /\ WalkFrom(target, hop + 1) /\ history \in Histories
        /\ target \in Commit /\ hop + 1 \in 1..n /\ hop + 1 < MaxHops
    BY <1>0, <1>2 DEF FetchParent, WalkPlace, TypeOK, OnChain
  <2>2. hop + 1 \in 0..MaxHops
    BY <1>0, <2>1
  <2>3. CASE hop + 1 = n
    <3>1. SecondParent(target) = NoCommit
      BY <1>0, <2>1, <2>3
    <3>2. pc' = "done" /\ verified' \in {"true", "false"}
      BY <1>0, <2>1, <2>2, <3>1, WalkFromCases
    <3>3. Credited' = path[n]
      BY <1>0, <2>1, <2>3 DEF Credited
    <3>4. QED
      BY <3>2, <3>3 DEF OnChain
  <2>4. CASE hop + 1 # n
    <3>1. SecondParent(target) = path[hop + 2] /\ path[hop + 2] \in Commit
      <4>1. hop + 1 \in 1..(n - 1) /\ (hop + 1) + 1 = hop + 2
        BY <1>0, <2>1, <2>4
      <4>2. QED
        BY <2>1, <4>1, Links
    <3>2. pc' = "parent" /\ target' = path[hop + 2]
      BY <1>0, <2>1, <2>2, <3>1, WalkFromCases
    <3>3. QED
      BY <1>0, <2>1, <2>4, <3>2 DEF OnChain
  <2>5. QED
    BY <2>3, <2>4
<1>3. CASE LookUpPull \/ ListPullCommits \/ FetchTip
  BY <1>3 DEF LookUpPull, ListPullCommits, FetchTip, OnChain
<1>4. CASE RequestFails
  BY <1>4 DEF RequestFails, GiveUp, OnChain
<1>5. CASE GitHubIndexes
  BY <1>5 DEF GitHubIndexes, OnChain, Credited
<1>6. CASE UNCHANGED vars
  BY <1>6 DEF vars, OnChain, Credited
<1>7. QED
  BY <1>1, <1>2, <1>3, <1>4, <1>5, <1>6 DEF Next, Inspect, Done

LEMMA OnSquashStep == TypeOK /\ WalkPlace /\ OnSquash /\ [Next]_vars => OnSquash'
<1> SUFFICES ASSUME TypeOK, WalkPlace, OnSquash, [Next]_vars,
                    SecondParent(history.head)' = NoCommit, Body(history.head)'.webFlow, early'
             PROVE  indexed' /\ pc' # "parent" /\ (pc' = "done" /\ ~failed' => verified' # "unknown")
  BY DEF OnSquash
<1>0. MaxHops \in Nat \ {0} /\ NoCommit \notin Commit
  BY CommitAuthorAssumption
<1>1. history' = history /\ early' = early
  BY DEF Next, Inspect, FetchHead, FetchParent, LookUpPull, ListPullCommits, FetchTip, RequestFails,
         GitHubIndexes, Done, vars
<1>2. SecondParent(history.head) = NoCommit /\ Body(history.head).webFlow /\ early
  BY <1>1 DEF SecondParent, Body
<1>3. indexed /\ pc # "parent" /\ (pc = "done" /\ ~failed => verified # "unknown")
  BY <1>2 DEF OnSquash
<1>4. CASE FetchHead
  <2>1. /\ target = history.head /\ verified = "unknown" /\ indexed' = indexed
        /\ WalkFrom(target, 0) /\ history \in Histories /\ target \in Commit /\ 0 \in 0..MaxHops
    BY <1>0, <1>4 DEF FetchHead, WalkPlace, TypeOK
  <2>2. pc' = "pulls"
    BY <1>0, <1>2, <2>1, WalkFromCases
  <2>3. QED
    BY <1>3, <2>1, <2>2
<1>5. CASE FetchParent
  BY <1>3, <1>5 DEF FetchParent
<1>6. CASE LookUpPull
  BY <1>3, <1>6 DEF LookUpPull
<1>7. CASE ListPullCommits
  BY <1>3, <1>7 DEF ListPullCommits
<1>8. CASE FetchTip
  BY <1>3, <1>8 DEF FetchTip, Credit
<1>9. CASE RequestFails
  BY <1>3, <1>9 DEF RequestFails, GiveUp
<1>10. CASE GitHubIndexes
  BY <1>3, <1>10 DEF GitHubIndexes
<1>11. CASE UNCHANGED vars
  BY <1>3, <1>11 DEF vars
<1>12. QED
  BY <1>4, <1>5, <1>6, <1>7, <1>8, <1>9, <1>10, <1>11 DEF Next, Inspect, Done

LEMMA ResolvingInit == Init => Resolving
<1> SUFFICES ASSUME Init PROVE Resolving
  OBVIOUS
<1>1. pc = "commit" /\ (early => indexed)
  BY DEF Init
<1>2. QED
  BY <1>1 DEF Resolving, OnChain, OnSquash

LEMMA ResolvingStep == TypeOK /\ WalkPlace /\ Resolving /\ [Next]_vars => Resolving'
<1> SUFFICES ASSUME TypeOK, WalkPlace, Resolving, [Next]_vars PROVE Resolving'
  OBVIOUS
<1>1. history' = history
  BY DEF Next, Inspect, FetchHead, FetchParent, LookUpPull, ListPullCommits, FetchTip, RequestFails,
         GitHubIndexes, Done, vars
<1>2. ASSUME NEW n \in 1..(MaxHops - 1), NEW path \in [1..n -> Commit], Resolvable(path, n)'
      PROVE  OnChain(path, n)'
  <2>1. Resolvable(path, n)
    BY <1>1, <1>2 DEF Resolvable, IsWalk, SecondParent, Body
  <2>2. OnChain(path, n)
    BY <2>1 DEF Resolving
  <2>3. QED
    BY <2>1, <2>2, OnChainStep
<1>3. OnSquash'
  BY OnSquashStep DEF Resolving
<1>4. QED
  BY <1>2, <1>3 DEF Resolving

\* Without a failure a chain of merges within the bound ends at its last
\* commit, and a squash indexed in time at its pull request: neither the walk
\* (_resolve_signature_source) nor the retries give up too soon.
THEOREM ResolvedInTime == Spec => []ResolvedWithoutFailure
<1>1. Init => Resolving
  BY ResolvingInit
<1>2. Resolving => ResolvedWithoutFailure
  BY DEF Resolving, Resolvable, OnChain, OnSquash, ResolvedWithoutFailure
<1>3. QED
  BY <1>1, <1>2, PlaceInit, PlaceStep, ResolvingStep, PTL DEF Spec

-----------------------------------------------------------------------------
(* The inspection within a run.                                              *)

\* Every step of a run is one of the inspection, or leaves it as it is, or
\* begins a new one.
LEMMA InspectionStep == [EvidenceNext]_evidenceVars => [Next]_vars \/ Init'
<1> SUFFICES ASSUME [EvidenceNext]_evidenceVars PROVE [Next]_vars \/ Init'
  OBVIOUS
<1>1. CASE InspectAuthor
  BY <1>1 DEF InspectAuthor, Next
<1>2. CASE AuthorInspected
  <2>1. Quiet \in Histories
    BY EvidenceAssumption
  <2>2. QED
    BY <1>2, <2>1 DEF AuthorInspected, Init
<1>3. CASE Meanwhile
  BY <1>3 DEF Meanwhile, Next
<1>4. CASE Over \/ UNCHANGED evidenceVars
  BY <1>4 DEF Over, evidenceVars
<1>5. CASE InputsGiven \/ ScansIngested \/ WalkStarted \/ DirectoryListed \/ DependenciesDetected
  BY <1>5 DEF InputsGiven, ScansIngested, WalkStarted, DirectoryListed, DependenciesDetected
<1>6. CASE ControlsEvaluated \/ ControlsEnd \/ FunctionalStep \/ EvidenceCollected
  BY <1>6 DEF ControlsEvaluated, ControlsEnd, FunctionalStep, EvidenceCollected
<1>7. QED
  BY <1>1, <1>2, <1>3, <1>4, <1>5, <1>6 DEF EvidenceNext, Proceed

LEMMA InspectionInit == EvidenceInit => Init
BY DEF EvidenceInit

\* The types of the inspection, and where its requests find it (CommitAuthor),
\* hold of it within the run.
THEOREM AuthorTypes == EvidenceSpec => [](TypeOK /\ WalkPlace)
BY InspectionStep, InspectionInit, PlaceInit, PlaceStep, PTL DEF EvidenceSpec

\* Within the run too, GitHub's own signature on the merge at the head is
\* never reported as the author's (inspect_commit_author).
THEOREM HeadNeverCreditedInRun == EvidenceSpec => []HeadWebFlowNeverCredited
<1>1. Init => HeadWebFlowNeverCredited
  BY DEF Init, HeadWebFlowNeverCredited
<1>2. QED
  BY <1>1, InspectionStep, InspectionInit, PlaceInit, PlaceStep, HeadStep, PTL DEF EvidenceSpec

\* An inspection of the run that was cut short determines nothing
\* (_resolve_signature_source).
THEOREM IncompleteWalksInRun == EvidenceSpec => []IncompleteWalkDeterminesNothing
<1>1. TypeOK /\ WalkPlace => IncompleteWalkDeterminesNothing
  BY CommitAuthorAssumption DEF TypeOK, WalkPlace, IncompleteWalkDeterminesNothing
<1>2. QED
  BY <1>1, AuthorTypes, PTL

\* Without a failure the run's inspection ends at the commit at the end of the
\* chain, or at the pull request that was indexed in time.
THEOREM ResolvedInTimeInRun == EvidenceSpec => []ResolvedWithoutFailure
<1>1. Init => Resolving
  BY ResolvingInit
<1>2. Resolving => ResolvedWithoutFailure
  BY DEF Resolving, Resolvable, OnChain, OnSquash, ResolvedWithoutFailure
<1>3. QED
  BY <1>1, <1>2, InspectionStep, InspectionInit, PlaceInit, PlaceStep, ResolvingStep, PTL
     DEF EvidenceSpec

-----------------------------------------------------------------------------
(* The controls.                                                             *)

\* The places looked up before this one.
Earlier(p, c) ==
  {q \in Place \X (1..Candidates) : (q[1] = p /\ q[2] < c) \/ (q[1] = "own" /\ p = "org")}

\* What each answer rests on, while the requests go on and after: which were
\* made, what GitHub had when it answered, and what the report was made from.
Asked ==
  /\ stage # "controls" => request = "idle"
  /\ request \in {"idle", "alerts"} => alerts = "none"
  /\ request \in {"idle", "alerts", "dependabot"} =>
       dependabot = "none" /\ place = "own" /\ candidate = 1
  /\ request \in {"idle", "alerts", "dependabot", "security_md"} => securityMd = "none"
  /\ dependabot = "200" => setting.dependabot
  /\ securityMd = "true" => setting.securityMd # {}
  /\ request = "security_md" /\ ~moved => setting.securityMd \cap Earlier(place, candidate) = {}
  /\ securityMd = "false" =>
       place = "org" /\ candidate = Candidates /\ (moved \/ setting.securityMd = {})
  /\ Reported => controls = Evaluation(resolved, scan.tools, evidence.governance,
                                       evidence.checkout, alerts, dependabot, securityMd)

ControlsOK == S2C2FTypeOK /\ Asked

\* A place more, all of the repository's own, and all there are.
LEMMA EarlierSteps ==
  /\ \A p \in Place, c \in 1..Candidates : Earlier(p, c + 1) = Earlier(p, c) \cup {<<p, c>>}
  /\ Earlier("org", 1) = Earlier("own", Candidates) \cup {<<"own", Candidates>>}
  /\ Place \X (1..Candidates) = Earlier("org", Candidates) \cup {<<"org", Candidates>>}
<1>1. \A p \in Place, c \in 1..3 : Earlier(p, c + 1) = Earlier(p, c) \cup {<<p, c>>}
  BY DEF Earlier, Place, Candidates
<1>2. Earlier("org", 1) = Earlier("own", 3) \cup {<<"own", 3>>}
  BY DEF Earlier, Place, Candidates
<1>3. Place \X (1..3) = Earlier("org", 3) \cup {<<"org", 3>>}
  BY DEF Earlier, Place, Candidates
<1>4. QED
  BY <1>1, <1>2, <1>3 DEF Candidates

LEMMA VerdictType == ASSUME NEW met PROVE Verdict(met) \in Status
BY DEF Verdict, Status

LEMMA EvaluationType ==
  ASSUME NEW deps, NEW tools, NEW g, NEW co, NEW vuln, NEW eol, NEW md
  PROVE  Evaluation(deps, tools, g, co, vuln, eol, md) \in [Controls -> Status]
<1> SUFFICES ASSUME NEW c \in Controls
             PROVE  Evaluation(deps, tools, g, co, vuln, eol, md)[c] \in Status
  BY DEF Evaluation
<1> DEFINE e == Evaluation(deps, tools, g, co, vuln, eol, md)
<1>1. CASE c \in {"ING-1", "INV-1", "AUD-2", "AUD-3", "ING-3", "ING-2", "ENF-2", "ING-4"}
  BY <1>1, VerdictType
     DEF Evaluation, Inventory, IntegrityValidation, Denylists, LocalCopies, Status
<1>2. CASE c \in {"SCA-1", "SCA-2", "SCA-3", "SCA-4", "SCA-5", "INV-2"}
  BY <1>2, VerdictType
     DEF Evaluation, VulnerabilityScans, LicenseChecks, EolScans, MalwareScans, Scanned,
         ProactiveReviews, Governed, IncidentPlans, Status
<1>3. CASE c \in {"UPD-1", "UPD-2", "UPD-3", "ENF-1", "AUD-1"}
  BY <1>3, VerdictType
     DEF Evaluation, ManualUpdates, AutoUpdates, PrAlerts, SecureSourceConfig,
         EnforcingProvenance, Governed, Status
<1>4. QED
  BY <1>1, <1>2, <1>3 DEF Controls

LEMMA NothingGivenType == NoSetting \in Setting /\ NoEvidence \in Evidence
<1>1. NoSetting \in Setting
  BY DEF NoSetting, Setting
<1>2. NoEvidence.checkout \in Checkout /\ NoEvidence.governance \in GovernanceReport
  BY DEF NoEvidence, Checkout, GovernanceReport
<1>3. QED
  BY <1>1, <1>2 DEF NoEvidence, Evidence

\* A lookup that finds nothing moves on to the next place, or ends them.
LEMMA LookupStep ==
  ASSUME ControlsOK, SecurityMdAnswer, stage = "controls", stage' = stage
  PROVE  ControlsOK'
<1>0. /\ S2C2FTypeOK /\ Asked /\ Candidates = 3 /\ request = "security_md"
      /\ securityMd = "none"
  BY DEF ControlsOK, Candidates, SecurityMdAnswer, Asked
<1>1. UNCHANGED <<setting, moved, alerts, dependabot, evidence, controls>>
  BY DEF SecurityMdAnswer
<1>2. CASE <<place, candidate>> \in setting.securityMd
  BY <1>0, <1>1, <1>2 DEF SecurityMdAnswer, ControlsOK, S2C2FTypeOK, Asked, Reported, Earlier
<1>3. CASE <<place, candidate>> \notin setting.securityMd /\ candidate < Candidates
  <2>1. candidate' = candidate + 1 /\ UNCHANGED <<securityMd, request, place>>
    BY <1>3 DEF SecurityMdAnswer
  <2>2. ~moved => setting.securityMd \cap Earlier(place, candidate + 1) = {}
    BY <1>0, <1>3, EarlierSteps DEF Asked, S2C2FTypeOK
  <2>3. QED
    BY <1>0, <1>1, <1>3, <2>1, <2>2 DEF ControlsOK, S2C2FTypeOK, Asked, Reported
<1>4. CASE <<place, candidate>> \notin setting.securityMd /\ ~(candidate < Candidates) /\ place = "own"
  <2>1. place' = "org" /\ candidate' = 1 /\ UNCHANGED <<securityMd, request>>
    BY <1>4 DEF SecurityMdAnswer
  <2>2. ~moved => setting.securityMd \cap Earlier("org", 1) = {}
    BY <1>0, <1>4, EarlierSteps DEF Asked, S2C2FTypeOK
  <2>3. QED
    BY <1>0, <1>1, <1>4, <2>1, <2>2 DEF ControlsOK, S2C2FTypeOK, Asked, Reported, Place
<1>5. CASE <<place, candidate>> \notin setting.securityMd /\ ~(candidate < Candidates) /\ place # "own"
  <2>1. securityMd' = "false" /\ request' = "evaluate" /\ UNCHANGED <<place, candidate>>
    BY <1>5 DEF SecurityMdAnswer
  <2>2. place = "org" /\ candidate = Candidates
    BY <1>0, <1>5 DEF S2C2FTypeOK, Place
  <2>3. ~moved => setting.securityMd = {}
    BY <1>0, <1>5, <2>2, EarlierSteps DEF Asked, S2C2FTypeOK, Setting
  <2>4. QED
    BY <1>0, <1>1, <1>5, <2>1, <2>2, <2>3 DEF ControlsOK, S2C2FTypeOK, Asked, Reported
<1>6. QED
  BY <1>2, <1>3, <1>4, <1>5

LEMMA ControlsInit == EvidenceInit => ControlsOK
<1> SUFFICES ASSUME EvidenceInit PROVE ControlsOK
  OBVIOUS
<1>1. /\ setting = NoSetting /\ evidence = NoEvidence /\ stage = "author" /\ moved = FALSE
      /\ request = "idle" /\ place = "own" /\ candidate = 1
      /\ alerts = "none" /\ dependabot = "none" /\ securityMd = "none" /\ controls = NoControls
  BY DEF EvidenceInit, NothingRequested
<1>2. NoSetting \in Setting /\ NoEvidence \in Evidence
  BY NothingGivenType
<1>3. S2C2FTypeOK
  <2>1. moved \in BOOLEAN
    BY <1>1, Zenon
  <2>2. controls \in [Controls -> Status] \cup {NoControls}
    BY <1>1
  <2>3. QED
    BY <1>1, <1>2, <2>1, <2>2 DEF S2C2FTypeOK, Place, Candidates
<1>4. Asked
  BY <1>1 DEF Asked, Reported
<1>5. QED
  BY <1>3, <1>4 DEF ControlsOK

\* A step that leaves the requests alone, outside of their stage.
LEMMA ControlsLeftAlone ==
  ASSUME ControlsOK, UNCHANGED s2c2fVars, stage # "controls"
  PROVE  ControlsOK'
<1>1. request = "idle" /\ request' = "idle"
  BY DEF ControlsOK, Asked, s2c2fVars
<1>2. QED
  BY <1>1 DEF ControlsOK, S2C2FTypeOK, Asked, Reported, s2c2fVars

LEMMA RequestStep ==
  ASSUME ControlsOK, ControlRequests, stage = "controls", stage' = stage
  PROVE  ControlsOK'
<1>0. S2C2FTypeOK /\ Asked /\ Candidates = 3
  BY DEF ControlsOK, Candidates
<1>1. CASE BeginControls
  BY <1>0, <1>1 DEF BeginControls, ControlsOK, S2C2FTypeOK, Asked, Reported, Earlier
<1>2. CASE AlertsAnswer
  BY <1>0, <1>2 DEF AlertsAnswer, ControlsOK, S2C2FTypeOK, Asked, Reported, Earlier
<1>3. CASE DependabotAnswer
  <2>1. Earlier("own", 1) = {}
    BY DEF Earlier
  <2>2. QED
    BY <1>0, <1>3, <2>1 DEF DependabotAnswer, ControlsOK, S2C2FTypeOK, Asked, Reported
<1>4. CASE SecurityMdAnswer
  BY <1>0, <1>4, LookupStep
<1>5. CASE SecurityMdFails
  BY <1>0, <1>5 DEF SecurityMdFails, ControlsOK, S2C2FTypeOK, Asked, Reported, Earlier
<1>6. CASE LateAnswer
  BY <1>0, <1>6 DEF LateAnswer, ControlsOK, S2C2FTypeOK, Asked, Reported, Earlier
<1>7. QED
  BY <1>1, <1>2, <1>3, <1>4, <1>5, <1>6 DEF ControlRequests

LEMMA EvaluationStep ==
  ASSUME ControlsOK, EvaluateControls(resolved, scan.tools), stage = "controls", stage' = stage,
         UNCHANGED <<resolved, scan>>
  PROVE  ControlsOK'
<1>0. S2C2FTypeOK /\ Asked /\ request = "evaluate"
  BY DEF ControlsOK, EvaluateControls
<1>1. UNCHANGED <<setting, moved, place, candidate, alerts, dependabot, securityMd, evidence>>
  BY DEF EvaluateControls
<1>2. CASE Raises(evidence.checkout)
  <2>1. request' = "raised" /\ UNCHANGED controls
    BY <1>2 DEF EvaluateControls
  <2>2. QED
    BY <1>0, <1>1, <2>1 DEF ControlsOK, S2C2FTypeOK, Asked, Reported
<1>3. CASE ~Raises(evidence.checkout)
  <2>1. /\ controls' = Evaluation(resolved, scan.tools, evidence.governance, evidence.checkout,
                                  alerts, dependabot, securityMd)
        /\ request' = "reported"
    BY <1>3 DEF EvaluateControls
  <2>2. controls' \in [Controls -> Status]
    BY <2>1, EvaluationType
  <2>3. controls' = Evaluation(resolved, scan.tools, evidence.governance, evidence.checkout,
                               alerts, dependabot, securityMd)'
    BY <1>1, <2>1
  <2>4. S2C2FTypeOK'
    BY <1>0, <1>1, <2>1, <2>2 DEF S2C2FTypeOK
  <2>5. Asked'
    BY <1>0, <1>1, <2>1, <2>3 DEF Asked, Reported
  <2>6. QED
    BY <2>4, <2>5 DEF ControlsOK
<1>4. QED
  BY <1>2, <1>3

LEMMA MoveStep ==
  ASSUME ControlsOK, SecurityMdMoves, stage = "controls", stage' = stage
  PROVE  ControlsOK'
<1>0. /\ S2C2FTypeOK /\ Asked /\ request = "security_md" /\ moved' = TRUE
      /\ securityMd = "none"
      /\ UNCHANGED <<request, place, candidate, alerts, dependabot, securityMd, evidence, controls>>
  BY DEF ControlsOK, SecurityMdMoves, Asked
<1>1. PICK from \in setting.securityMd, to \in ({"own"} \X (1..Candidates)) \ setting.securityMd :
        setting' = [setting EXCEPT !.securityMd = (@ \ {from}) \cup {to}]
  BY DEF SecurityMdMoves
<1>2. setting' \in Setting /\ setting'.dependabot = setting.dependabot
  <2>1. setting \in Setting
    BY <1>0 DEF S2C2FTypeOK
  <2>2. to \in Place \X (1..Candidates)
    BY DEF Place
  <2>3. (setting.securityMd \ {from}) \cup {to} \in SUBSET (Place \X (1..Candidates))
    BY <2>1, <2>2 DEF Setting
  <2>4. QED
    BY <1>1, <2>1, <2>3 DEF Setting
<1>3. S2C2FTypeOK'
  BY <1>0, <1>2 DEF S2C2FTypeOK
<1>4. Asked'
  BY <1>0, <1>2 DEF Asked, Reported
<1>5. QED
  BY <1>3, <1>4 DEF ControlsOK

LEMMA ControlsStep == ControlsOK /\ [EvidenceNext]_evidenceVars => ControlsOK'
<1> SUFFICES ASSUME ControlsOK, [EvidenceNext]_evidenceVars PROVE ControlsOK'
  OBVIOUS
<1>1. CASE InspectAuthor \/ AuthorInspected
  BY <1>1, ControlsLeftAlone DEF InspectAuthor, AuthorInspected
<1>2. CASE InputsGiven
  <2>1. /\ stage = "inputs" /\ stage' = "scans" /\ request = "idle"
        /\ UNCHANGED <<scan, resolved, moved, request, place, candidate, alerts, dependabot,
                       securityMd, controls>>
    BY <1>2 DEF InputsGiven, ControlsOK, Asked
  <2>2. setting' \in Setting /\ evidence' \in Evidence
    BY <1>2, EvidenceAssumption DEF InputsGiven, World
  <2>3. QED
    BY <2>1, <2>2 DEF ControlsOK, S2C2FTypeOK, Asked, Reported
<1>3. CASE ScansIngested \/ WalkStarted \/ DirectoryListed \/ DependenciesDetected
  BY <1>3, ControlsLeftAlone DEF ScansIngested, WalkStarted, DirectoryListed, DependenciesDetected
<1>4. CASE ControlsEvaluated
  <2>1. stage = "controls" /\ stage' = stage /\ UNCHANGED <<resolved, scan>>
    BY <1>4 DEF ControlsEvaluated, sbomVars, dependencyVars
  <2>2. QED
    BY <1>4, <2>1, RequestStep, EvaluationStep DEF ControlsEvaluated
<1>5. CASE ControlsEnd
  <2>1. /\ stage' # "controls" /\ setting' = NoSetting /\ evidence' = NoEvidence
        /\ moved' = FALSE /\ request' = "idle" /\ place' = "own" /\ candidate' = 1
        /\ alerts' = "none" /\ dependabot' = "none" /\ securityMd' = "none"
        /\ controls' = NoControls
    BY <1>5 DEF ControlsEnd, RequestsForgotten
  <2>2. S2C2FTypeOK'
    <3>1. moved' \in BOOLEAN
      BY <2>1, Zenon
    <3>2. (controls \in [Controls -> Status] \cup {NoControls})'
      BY <2>1
    <3>3. QED
      BY <2>1, <3>1, <3>2, NothingGivenType DEF S2C2FTypeOK, Place, Candidates
  <2>3. Asked'
    BY <2>1 DEF Asked, Reported
  <2>4. QED
    BY <2>2, <2>3 DEF ControlsOK
<1>6. CASE FunctionalStep \/ EvidenceCollected
  BY <1>6, ControlsLeftAlone DEF FunctionalStep, EvidenceCollected
<1>7. CASE Meanwhile
  <2>1. CASE stage = "author" /\ UNCHANGED s2c2fVars
    BY <2>1, ControlsLeftAlone
  <2>2. CASE stage = "controls" /\ SecurityMdMoves /\ stage' = stage
    BY <2>2, MoveStep
  <2>3. QED
    BY <1>7, <2>1, <2>2 DEF Meanwhile
<1>8. CASE UNCHANGED evidenceVars
  <2>1. UNCHANGED <<s2c2fVars, stage, resolved, scan>>
    BY <1>8 DEF evidenceVars, dependencyVars, sbomVars
  <2>2. QED
    BY <2>1 DEF ControlsOK, S2C2FTypeOK, Asked, Reported, s2c2fVars
<1>9. QED
  BY <1>1, <1>2, <1>3, <1>4, <1>5, <1>6, <1>7, <1>8 DEF EvidenceNext, Proceed, Over

LEMMA ControlsInvariant == EvidenceSpec => []ControlsOK
BY ControlsInit, ControlsStep, PTL DEF EvidenceSpec

\* No verdict comes of silence: what the nineteen controls say (s2c2f.py) was
\* answered, configured or looked up in all six places, whatever request
\* failed and whenever somebody moved a file.
THEOREM SilenceIsNoVerdict == EvidenceSpec => []NoVerdictFromSilence
<1>1. ControlsOK => NoVerdictFromSilence
  <2> SUFFICES ASSUME ControlsOK, Reported PROVE NoVerdictFromSilence!2
    BY DEF NoVerdictFromSilence
  <2>1. S2C2FTypeOK /\ Asked
    BY DEF ControlsOK
  <2>2. controls = Evaluation(resolved, scan.tools, evidence.governance, evidence.checkout,
                              alerts, dependabot, securityMd)
    BY <2>1 DEF Asked
  <2>3. /\ controls["ENF-1"] = SecureSourceConfig(evidence.governance)
        /\ controls["AUD-1"] = EnforcingProvenance(evidence.governance)
        /\ controls["SCA-5"] = ProactiveReviews(evidence.checkout, evidence.governance)
        /\ controls["SCA-1"] = VulnerabilityScans(scan.tools, alerts)
        /\ controls["SCA-3"] = EolScans(dependabot)
        /\ controls["INV-2"] = IncidentPlans(securityMd)
    BY <2>2 DEF Evaluation, Controls
  <2>4. ~evidence.governance.available =>
          \A c \in {"ENF-1", "AUD-1", "SCA-5"} : controls[c] = "not_yet_reported"
    BY <2>3 DEF SecureSourceConfig, EnforcingProvenance, ProactiveReviews, Governed
  <2>5. alerts = "none" => controls["SCA-1"] # "unmet"
    BY <2>3 DEF VulnerabilityScans
  <2>6. (controls["SCA-3"] = "met" => dependabot = "200")
        /\ (controls["SCA-3"] = "unmet" => dependabot # "none")
    BY <2>3 DEF EolScans
  <2>7. (controls["INV-2"] = "met" => securityMd = "true")
        /\ (controls["INV-2"] = "unmet" => securityMd = "false")
    BY <2>3 DEF IncidentPlans
  <2>8. QED
    BY <2>1, <2>4, <2>5, <2>6, <2>7 DEF Asked
<1>2. QED
  BY <1>1, ControlsInvariant, PTL

-----------------------------------------------------------------------------
(* The SBOM.                                                                 *)

\* What a component states of its license is a set of choices, none empty.
LEMMA StatedLicenseType ==
  ASSUME NEW stated \in Seq(Expression), NEW format
  PROVE  StatedLicense(format, stated) \in Expression
<1>1. /\ \A i \in DOMAIN stated : stated[i] \in Expression /\ i \in Nat
      /\ stated # << >> => 1 \in DOMAIN stated
  BY EmptySeq
<1>2. Known(stated) \subseteq DOMAIN stated /\ Known(stated) \subseteq Nat
  BY <1>1 DEF Known
<1>3. Unspecified \in Expression
  BY DEF Unspecified, Expression
<1>4. ASSUME Known(stated) # {}
      PROVE  stated[Min(Known(stated))] \in Expression /\ AllOf(stated, Known(stated)) \in Expression
  <2> DEFINE K == Known(stated)
  <2>1. Min(K) \in K
    BY <1>2, <1>4, MinOf
  <2>2. ASSUME NEW pick \in Picks(stated, K)
        PROVE  UNION {pick[i] : i \in K} \in (SUBSET Term) \ {{}}
    <3>1. \A i \in K : pick[i] \in (SUBSET Term) \ {{}}
      <4>1. \A i \in K : pick[i] \in stated[i] /\ stated[i] \in Expression
        BY <1>1, <1>2 DEF Picks
      <4>2. QED
        BY <4>1 DEF Expression
    <3>2. QED
      BY <1>4, <3>1
  <2>3. AllOf(stated, K) \in Expression
    BY <2>2 DEF AllOf, Expression
  <2>4. QED
    BY <1>1, <1>2, <2>1, <2>3
<1>5. CASE stated = << >> \/ (format # "spdx3" /\ Known(stated) = {})
  BY <1>3, <1>5 DEF StatedLicense
<1>6. CASE stated # << >> /\ format = "spdx3"
  BY <1>1, <1>6 DEF StatedLicense
<1>7. CASE stated # << >> /\ format # "spdx3" /\ Known(stated) # {}
  BY <1>1, <1>4, <1>7 DEF StatedLicense
<1>8. QED
  BY <1>5, <1>6, <1>7

LEMMA ParsedType ==
  ASSUME NEW format, NEW listed \in Seq(Component), NEW i \in DOMAIN Parsed(format, listed)
  PROVE  /\ i \in Nat /\ i \in Kept(format, listed) /\ i \in 1..Len(listed)
         /\ Parsed(format, listed)[i].purl \in Purl \cup {NoPurl}
         /\ Parsed(format, listed)[i].license \in Expression
         /\ Parsed(format, listed)[i].digest \in Digest
         /\ Parsed(format, listed)[i].license = StatedLicense(format, listed[i].stated)
<1>1. i \in Kept(format, listed) /\ i \in 1..Len(listed) /\ i \in Nat
  BY DEF Parsed, Kept
<1>2. listed[i] \in Component
  BY <1>1
<1>3. listed[i].stated \in Seq(Expression) /\ listed[i].digest \in Digest
      /\ listed[i].purl \in Purl \cup {NoPurl}
  BY <1>2 DEF Component
<1>4. Parsed(format, listed)[i] =
        [purl |-> listed[i].purl, shipped |-> listed[i].shipped, digest |-> listed[i].digest,
         license |-> StatedLicense(format, listed[i].stated)]
  BY <1>1 DEF Parsed
<1>5. StatedLicense(format, listed[i].stated) \in Expression
  BY <1>3, StatedLicenseType
<1>6. QED
  BY <1>1, <1>3, <1>4, <1>5

\* The components of an SBOM that could be read are some of the file's.
LEMMA ParseSbomType ==
  ASSUME NEW b \in Bill
  PROVE  /\ ParseSbom(b).state \in {"none", "unavailable", "read"}
         /\ ParseSbom(b).format \in Format
         /\ ParseSbom(b).state = "read" =>
              ParseSbom(b).components = Parsed(b.format, b.listed)
         /\ ParseSbom(b).state # "read" => ParseSbom(b).components = << >>
<1>1. b.format \in Format
  BY DEF Bill
<1>2. QED
  BY <1>1 DEF ParseSbom, NoSbom, LostSbom, Format

\* Levels are counted over finitely many components.
LEMMA LevelsAreFinite ==
  ASSUME NEW b \in Bill, NEW curations, NEW level
  PROVE  /\ CountLevel(ParseSbom(b), curations, level) \in Nat
         /\ IsFiniteSet({i \in DOMAIN ParseSbom(b).components :
                           Finding(ParseSbom(b).components[i], curations) = level})
<1> DEFINE I == {i \in DOMAIN ParseSbom(b).components :
                   Finding(ParseSbom(b).components[i], curations) = level}
<1>1. b.listed \in Seq(Component)
  BY DEF Bill
<1>2. Len(b.listed) \in Nat /\ IsFiniteSet(1..Len(b.listed))
  BY <1>1, FS_Interval
<1>3. I \subseteq 1..Len(b.listed)
  <2>1. CASE ParseSbom(b).state = "read"
    <3>1. ParseSbom(b).components = Parsed(b.format, b.listed)
      BY <2>1, ParseSbomType
    <3>2. QED
      BY <1>1, <3>1, ParsedType
  <2>2. CASE ParseSbom(b).state # "read"
    <3>1. ParseSbom(b).components = << >>
      BY <2>2, ParseSbomType
    <3>2. QED
      BY <3>1
  <2>3. QED
    BY <2>1, <2>2
<1>4. IsFiniteSet(I) /\ Cardinality(I) \in Nat
  BY <1>2, <1>3, FS_Subset, FS_CardinalityType
<1>5. QED
  BY <1>4 DEF CountLevel

LEMMA MadeReport ==
  /\ \A state \in {"none", "unavailable"} : IsScanReport(ScanReport(state, 0, 0, {}))
  /\ \A tools : \A errors, warnings \in Nat :
       IsScanReport(ScanReport("available", errors, warnings, tools))
BY DEF IsScanReport, ScanReport

LEMMA MergeSbomType ==
  ASSUME NEW b \in Bill, NEW curations, NEW report, IsScanReport(report)
  PROVE  IsScanReport(MergeSbom(report, ParseSbom(b), curations))
<1> DEFINE found == SbomScan(ParseSbom(b), curations)
<1>1. IsScanReport(found) /\ found.state = "available"
  <2>1. CountLevel(ParseSbom(b), curations, "error") \in Nat
    BY LevelsAreFinite
  <2>2. CountLevel(ParseSbom(b), curations, "warning") \in Nat
    BY LevelsAreFinite
  <2>3. QED
    BY <2>1, <2>2 DEF SbomScan, IsScanReport, ScanReport
<1>2. IsScanReport(Aggregate(report, found))
  <2> HIDE DEF found
  <2>1. CASE "unavailable" \in {report.state, found.state}
    BY <2>1, MadeReport DEF Aggregate
  <2>2. CASE "unavailable" \notin {report.state, found.state}
    <3>1. report.errors + found.errors \in Nat /\ report.warnings + found.warnings \in Nat
      BY <1>1 DEF IsScanReport
    <3>2. QED
      BY <2>2, <3>1, MadeReport DEF Aggregate
  <2>3. QED
    BY <2>1, <2>2
<1>3. QED
  BY <1>1, <1>2 DEF MergeSbom

\* Once they are ingested, and until the controls are on record, the SBOM is
\* what the file holds and the scans are what the merge made of it.
Ingested ==
  /\ bill \in Bill /\ IsScanReport(sarif)
  /\ IF stage \in {"dependencies", "walk", "controls"}
       THEN sbom = ParseSbom(bill) /\ scan = MergeSbom(sarif, sbom, curated)
       ELSE sbom = NoSbom /\ scan = NoScan

LEMMA NothingIngestedType == NoBill \in Bill /\ IsScanReport(NoScan)
<1>1. NoBill \in Bill
  <2>1. NoBill.listed \in Seq(Component)
    BY EmptySeq DEF NoBill
  <2>2. NoBill.given \in BOOLEAN /\ NoBill.readable \in BOOLEAN
    BY DEF NoBill
  <2>3. NoBill.format \in Format
    BY DEF NoBill, Format
  <2>4. NoBill = [given |-> NoBill.given, readable |-> NoBill.readable, format |-> NoBill.format,
                  listed |-> NoBill.listed]
    BY DEF NoBill
  <2>5. QED
    BY <2>1, <2>2, <2>3, <2>4 DEF Bill
<1>2. QED
  BY <1>1, MadeReport DEF NoScan

LEMMA IngestedInit == EvidenceInit => Ingested
BY NothingIngestedType DEF EvidenceInit, Ingested

LEMMA IngestedStep == Ingested /\ [EvidenceNext]_evidenceVars => Ingested'
<1> SUFFICES ASSUME Ingested, [EvidenceNext]_evidenceVars PROVE Ingested'
  OBVIOUS
<1>1. CASE InspectAuthor \/ AuthorInspected
  BY <1>1 DEF InspectAuthor, AuthorInspected, sbomVars, Ingested
<1>2. CASE InputsGiven
  <2>1. bill' \in Bill /\ IsScanReport(sarif')
    BY <1>2, EvidenceAssumption DEF InputsGiven, World
  <2>2. stage = "inputs" /\ stage' = "scans" /\ UNCHANGED <<sbom, scan>>
    BY <1>2 DEF InputsGiven
  <2>3. QED
    BY <2>1, <2>2 DEF Ingested
<1>3. CASE ScansIngested
  BY <1>3 DEF ScansIngested, IngestScans, Ingested
<1>4. CASE WalkStarted \/ DirectoryListed \/ DependenciesDetected
  BY <1>4 DEF WalkStarted, DirectoryListed, DependenciesDetected, sbomVars, Ingested
<1>5. CASE ControlsEvaluated
  BY <1>5 DEF ControlsEvaluated, sbomVars, Ingested
<1>6. CASE ControlsEnd
  BY <1>6, NothingIngestedType DEF ControlsEnd, Ingested
<1>7. CASE FunctionalStep \/ EvidenceCollected
  BY <1>7 DEF FunctionalStep, EvidenceCollected, sbomVars, Ingested
<1>8. CASE Meanwhile
  BY <1>8 DEF Meanwhile, sbomVars, Ingested
<1>9. CASE UNCHANGED evidenceVars
  BY <1>9 DEF evidenceVars, sbomVars, Ingested
<1>10. QED
  BY <1>1, <1>2, <1>3, <1>4, <1>5, <1>6, <1>7, <1>8, <1>9 DEF EvidenceNext, Proceed, Over

LEMMA IngestedInvariant == EvidenceSpec => []Ingested
BY IngestedInit, IngestedStep, PTL DEF EvidenceSpec

LEMMA IngestedTypes == Ingested => SbomTypeOK
<1> SUFFICES ASSUME Ingested PROVE SbomTypeOK
  OBVIOUS
<1>1. bill \in Bill /\ IsScanReport(sarif)
  BY DEF Ingested
<1>2. CASE stage \in {"dependencies", "walk", "controls"}
  <2>1. sbom = ParseSbom(bill) /\ scan = MergeSbom(sarif, sbom, curated)
    BY <1>2 DEF Ingested
  <2>2. sbom.state \in {"none", "unavailable", "read"} /\ sbom.format \in Format
    BY <1>1, <2>1, ParseSbomType
  <2>3. ASSUME NEW i \in DOMAIN sbom.components
        PROVE  /\ i \in Nat
               /\ sbom.components[i].purl \in Purl \cup {NoPurl}
               /\ sbom.components[i].license \in Expression
               /\ sbom.components[i].digest \in Digest
    <3>1. sbom.state = "read"
      <4> SUFFICES ASSUME sbom.state # "read" PROVE FALSE
        OBVIOUS
      <4>1. sbom.components = << >>
        BY <1>1, <2>1, ParseSbomType
      <4>2. QED
        BY <2>3, <4>1
    <3>2. sbom.components = Parsed(bill.format, bill.listed) /\ bill.listed \in Seq(Component)
      BY <1>1, <2>1, <3>1, ParseSbomType DEF Bill
    <3>3. QED
      BY <2>3, <3>2, ParsedType
  <2>4. IsScanReport(scan)
    BY <1>1, <2>1, MergeSbomType
  <2>5. QED
    BY <1>1, <2>2, <2>3, <2>4 DEF SbomTypeOK
<1>3. CASE stage \notin {"dependencies", "walk", "controls"}
  <2>1. sbom = NoSbom /\ scan = NoScan
    BY <1>3 DEF Ingested
  <2>2. sbom.state = "none" /\ sbom.format \in Format /\ DOMAIN sbom.components = {}
    BY <2>1 DEF NoSbom, Format
  <2>3. QED
    BY <1>1, <2>1, <2>2, NothingIngestedType DEF SbomTypeOK
<1>4. QED
  BY <1>2, <1>3

\* A license every choice of which is forbidden is classified so.
LEMMA ForbiddenIsForbidden ==
  ASSUME NEW expression, ForbiddenOutright(expression)
  PROVE  Classify(expression) = "forbidden"
<1>1. PICK choice \in expression : TRUE
  BY DEF ForbiddenOutright, Unspecified
<1>2. PICK t \in choice : Policy[t] = "forbidden"
  BY <1>1 DEF ForbiddenOutright, Verdicts
<1>3. t \in UNION expression
  BY <1>1, <1>2
<1>4. "forbidden" \in Verdicts(UNION expression)
  BY <1>2, <1>3 DEF Verdicts
<1>5. Verdicts(UNION expression) # {"permissive"}
  BY <1>4
<1>6. QED
  BY <1>4, <1>5 DEF Classify, ForbiddenOutright

\* An expression is found clean only if every choice it leaves is.
LEMMA CleanIsClean ==
  ASSUME NEW expression \in Expression, NEW purl, NEW curations, NEW shipped,
         Level(Curated(Classify(expression), purl, curations), shipped) = "none"
  PROVE  /\ expression # Unspecified
         /\ \A choice \in expression : Verdicts(choice) = {"permissive"}
<1> DEFINE class == Classify(expression)
<1>1. Curated(class, purl, curations) = "permissive"
  BY DEF Level
<1>2. class = "permissive"
  BY <1>1 DEF Curated
<1>3. Verdicts(UNION expression) = {"permissive"}
  BY <1>2 DEF Classify
<1>4. expression # {}
  BY <1>3 DEF Verdicts
<1>5. ASSUME NEW choice \in expression PROVE Verdicts(choice) = {"permissive"}
  <2>1. choice # {}
    BY <1>5 DEF Expression
  <2>2. \A t \in choice : Policy[t] = "permissive"
    BY <1>3, <1>5 DEF Verdicts
  <2>3. QED
    BY <2>1, <2>2 DEF Verdicts
<1>6. QED
  BY <1>4, <1>5 DEF Unspecified

\* The components whose license nobody may use are among those of error level.
LEMMA ForbiddenAreErrors ==
  ASSUME NEW b \in Bill, ParseSbom(b).state = "read", NEW curations
  PROVE  LET outright == {i \in DOMAIN b.listed :
                            /\ b.listed[i].kind = "library"
                            /\ ForbiddenOutright(StatedLicense(b.format, b.listed[i].stated))}
         IN  /\ Cardinality(outright) \in Nat
             /\ Cardinality(outright) <= CountLevel(ParseSbom(b), curations, "error")
<1> DEFINE outright == {i \in DOMAIN b.listed :
                          /\ b.listed[i].kind = "library"
                          /\ ForbiddenOutright(StatedLicense(b.format, b.listed[i].stated))}
           errors == {i \in DOMAIN ParseSbom(b).components :
                        Finding(ParseSbom(b).components[i], curations) = "error"}
<1>1. ParseSbom(b).components = Parsed(b.format, b.listed) /\ b.listed \in Seq(Component)
  BY ParseSbomType DEF Bill
<1>2. ASSUME NEW i \in outright PROVE i \in errors
  <2>1. i \in Kept(b.format, b.listed)
    BY DEF Kept
  <2>2. i \in DOMAIN Parsed(b.format, b.listed)
    BY <2>1 DEF Parsed
  <2>3. Parsed(b.format, b.listed)[i].license = StatedLicense(b.format, b.listed[i].stated)
    BY <1>1, <2>2, ParsedType
  <2>4. Classify(Parsed(b.format, b.listed)[i].license) = "forbidden"
    BY <2>3, ForbiddenIsForbidden
  <2>5. Finding(Parsed(b.format, b.listed)[i], curations) = "error"
    BY <2>4 DEF Finding, Curated, Level
  <2>6. QED
    BY <1>1, <2>2, <2>5
<1>3. IsFiniteSet(errors)
  BY LevelsAreFinite
<1>4. outright \subseteq errors
  BY <1>2
<1>5. IsFiniteSet(outright) /\ Cardinality(outright) <= Cardinality(errors)
  <2> HIDE DEF outright, errors
  <2>1. QED
    BY <1>3, <1>4, FS_Subset
<1>6. QED
  BY <1>5, FS_CardinalityType DEF CountLevel

\* A license nobody may use is an error of the scored report, whatever is
\* curated, and no readable SBOM makes up for an unreadable scan
\* (build_license_findings, _merge_sbom_into_sarif), for any SBOM and policy.
THEOREM LicensesAreHeld == EvidenceSpec => []LicenseNeverLaundered
<1>1. Ingested => LicenseNeverLaundered
  <2> SUFFICES ASSUME Ingested, sbom.state = "read" PROVE LicenseNeverLaundered!2
    BY DEF LicenseNeverLaundered
  <2> DEFINE outright == {i \in DOMAIN bill.listed :
                            /\ bill.listed[i].kind = "library"
                            /\ ForbiddenOutright(StatedLicense(bill.format, bill.listed[i].stated))}
  <2>1. /\ bill \in Bill /\ IsScanReport(sarif)
        /\ sbom = ParseSbom(bill) /\ scan = MergeSbom(sarif, sbom, curated)
    BY DEF Ingested, NoSbom
  <2>2. /\ Cardinality(outright) \in Nat
        /\ Cardinality(outright) <= CountLevel(sbom, curated, "error")
    BY <2>1, ForbiddenAreErrors
  <2>3. CountLevel(sbom, curated, "error") \in Nat
    BY <2>1, LevelsAreFinite
  <2>4. SbomScan(sbom, curated).errors = CountLevel(sbom, curated, "error")
        /\ SbomScan(sbom, curated).state = "available"
    BY DEF SbomScan, ScanReport
  <2>5. sarif.state = "unavailable" => scan.state = "unavailable"
    BY <2>1 DEF MergeSbom, Aggregate, ScanReport
  <2>6. sarif.state # "unavailable" => scan.errors >= sarif.errors + Cardinality(outright)
    <3> SUFFICES ASSUME sarif.state # "unavailable"
                 PROVE  scan.errors >= sarif.errors + Cardinality(outright)
      OBVIOUS
    <3>1. sarif.errors \in Nat /\ (sarif.state = "none" => sarif.errors = 0)
      BY <2>1 DEF IsScanReport
    <3>2. scan.errors = sarif.errors + CountLevel(sbom, curated, "error")
      <4>1. CASE sarif.state = "none"
        BY <2>1, <2>3, <2>4, <3>1, <4>1 DEF MergeSbom
      <4>2. CASE sarif.state # "none"
        BY <2>1, <2>4, <4>2 DEF MergeSbom, Aggregate, ScanReport
      <4>3. QED
        BY <4>1, <4>2
    <3>3. QED
      <4> HIDE DEF outright
      <4>1. QED
        BY <2>2, <2>3, <3>1, <3>2
  <2>7. ASSUME NEW i \in DOMAIN sbom.components,
               Finding(sbom.components[i], curated) = "none"
        PROVE  /\ sbom.components[i].license # Unspecified
               /\ \A choice \in sbom.components[i].license : Verdicts(choice) = {"permissive"}
    <3>1. sbom.components[i].license \in Expression
      BY IngestedTypes DEF SbomTypeOK
    <3>2. QED
      BY <2>7, <3>1, CleanIsClean DEF Finding
  <2>8. QED
    BY <2>5, <2>6, <2>7
<1>2. QED
  BY <1>1, IngestedInvariant, PTL

-----------------------------------------------------------------------------
(* The lockfiles.                                                            *)

\* The packages the SBOM stands in with.
SbomPurls(parsed) == {c.purl : c \in {b \in ToSet(parsed.components) : b.purl # NoPurl}}

LEMMA SbomDependenciesAre ==
  ASSUME NEW parsed,
         \A i \in DOMAIN parsed.components :
           /\ i \in Nat /\ parsed.components[i].purl \in Purl \cup {NoPurl}
           /\ parsed.components[i].digest \in Digest
  PROVE  /\ SbomDependencies(parsed) \subseteq Dependencies
         /\ Distinct(SbomDependencies(parsed))
         /\ Uris(SbomDependencies(parsed)) = SbomPurls(parsed)
<1> DEFINE components == parsed.components
           known == {i \in DOMAIN components : components[i].purl # NoPurl}
           made == [i \in known |-> Dependency(components[i].purl, components[i].digest)]
           given == <<made>>
<1>1. DOMAIN given = {1} /\ given[1] = made /\ DOMAIN made = known /\ known \subseteq Nat
  OBVIOUS
<1>2. SbomDependencies(parsed) = Merge({}, given)
  BY DEF SbomDependencies
<1>3. \A i \in known : made[i] \in Dependencies /\ made[i].uri = components[i].purl
  BY DEF Dependency, Dependencies
<1>4. Found(given) = {made[i] : i \in known}
  <2> HIDE DEF given, made, known
  <2>1. Found(given) = Listed(made)
    BY <1>1 DEF Found
  <2>2. QED
    BY <1>1, <2>1 DEF Listed
<1>5. SbomPurls(parsed) = {components[i].purl : i \in known}
  BY DEF SbomPurls, ToSet
<1>6. /\ Distinct(Merge({}, given)) /\ Merge({}, given) \subseteq {} \cup Found(given)
      /\ Uris(Merge({}, given)) = Uris({}) \cup Uris(Found(given))
  <2> HIDE DEF given, made, known
  <2>1. DOMAIN given \subseteq Nat /\ \A f \in DOMAIN given : DOMAIN given[f] \subseteq Nat
    <3>1. DOMAIN given \subseteq Nat
      BY <1>1
    <3>2. ASSUME NEW f \in DOMAIN given PROVE DOMAIN given[f] \subseteq Nat
      <4>1. f = 1
        BY <1>1
      <4>2. DOMAIN given[1] \subseteq Nat
        BY <1>1
      <4>3. QED
        BY <4>1, <4>2
    <3>3. QED
      BY <3>1, <3>2
  <2>2. Distinct({})
    BY DEF Distinct
  <2>3. QED
    BY <2>1, <2>2, MergeIs
<1>7. Uris(Found(given)) = SbomPurls(parsed) /\ Uris({}) = {} /\ Found(given) \subseteq Dependencies
  <2> HIDE DEF given, made
  <2>1. QED
    BY <1>3, <1>4, <1>5 DEF Uris
<1>8. QED
  <2> HIDE DEF given
  <2>1. QED
    BY <1>2, <1>6, <1>7

\* The walk: what is pending is in reach, what is in reach has been listed or
\* is in reach of what is pending; and what is left of it once it is over.
Walked ==
  /\ DOMAIN repository = Dir /\ Tree(repository)
  /\ pending \in Seq(Dir)
  /\ resolved \subseteq Dependencies /\ Distinct(resolved)
  /\ stage = "walk" =>
       /\ resolved \subseteq Declared(repository)
       /\ \A i \in DOMAIN pending : pending[i] \in Reachable(repository, Root)
       /\ \A d \in Reachable(repository, Root) :
            \/ Uris(DeclaredIn(repository, d)) \subseteq Uris(resolved)
            \/ \E i \in DOMAIN pending : d \in Reachable(repository, pending[i])
  /\ stage = "controls" =>
       IF Declared(repository) = {} THEN resolved = WithSbom({}, sbom)
       ELSE resolved \subseteq Declared(repository) /\ Uris(resolved) = Uris(Declared(repository))

LEMMA NoRepositoryType == DOMAIN NoRepository = Dir /\ Tree(NoRepository)
<1>1. << >> \in Seq(Dir) /\ DOMAIN << >> = {}
  BY EmptySeq
<1>2. \A d \in Dir : /\ NoRepository[d].skipped = FALSE /\ NoRepository[d].listable = FALSE
                     /\ NoRepository[d].subdirs = << >> /\ NoRepository[d].files = << >>
  BY DEF NoRepository
<1>3. \A d \in Dir : IsDirectory(NoRepository[d])
  BY <1>1, <1>2 DEF IsDirectory
<1>4. QED
  BY <1>3 DEF NoRepository, Tree

LEMMA WalkedInit == EvidenceInit => Walked
<1> SUFFICES ASSUME EvidenceInit PROVE Walked
  OBVIOUS
<1>1. repository = NoRepository /\ pending = << >> /\ resolved = {} /\ stage = "author"
  BY DEF EvidenceInit
<1>2. << >> \in Seq(Dir) /\ Distinct({})
  BY EmptySeq DEF Distinct
<1>3. QED
  BY <1>1, <1>2, NoRepositoryType DEF Walked

\* What one directory declares is among what all in reach declare.
LEMMA DeclaredInReach ==
  ASSUME NEW repo
  PROVE  /\ \A d \in Reachable(repo, Root) : DeclaredIn(repo, d) \subseteq Declared(repo)
         /\ Reachable(repo, Root) \subseteq Dir
BY DEF Declared, Reachable

LEMMA ListingStep ==
  ASSUME Walked, DirectoryListed
  PROVE  Walked'
<1> DEFINE d == Last(pending)
           n == Len(pending)
<1>1. /\ stage = "walk" /\ stage' = "walk" /\ repository' = repository
      /\ pending \in Seq(Dir) /\ pending # << >> /\ Tree(repository) /\ DOMAIN repository = Dir
      /\ resolved \subseteq Dependencies /\ Distinct(resolved)
      /\ resolved \subseteq Declared(repository)
  BY DEF Walked, DirectoryListed, ListDirectory
<1>2. /\ n \in Nat /\ n >= 1 /\ DOMAIN pending = 1..n /\ d = pending[n] /\ d \in Dir
      /\ Front(pending) \in Seq(Dir) /\ Len(Front(pending)) = n - 1
      /\ \A i \in 1..(n - 1) : Front(pending)[i] = pending[i]
  <2>1. n \in Nat /\ n >= 1 /\ DOMAIN pending = 1..n /\ d = pending[n] /\ d \in Dir
    BY <1>1 DEF Last
  <2>2. Front(pending) = [i \in 1..(n - 1) |-> pending[i]]
    BY <2>1 DEF Front
  <2>3. QED
    BY <1>1, <2>1, <2>2
<1>3. d \in Reachable(repository, Root)
  BY <1>1, <1>2 DEF Walked
<1> HIDE DEF d, n
<1>4. CASE ~repository[d].listable
  <2>1. pending' = Front(pending) /\ resolved' = resolved
    BY <1>4 DEF DirectoryListed, ListDirectory, d
  <2>2. Below(repository, d) = {} /\ DeclaredIn(repository, d) = {}
    BY <1>4 DEF Below, DeclaredIn
  <2>3. ASSUME NEW e \in Reachable(repository, d) PROVE e = d
    BY <1>1, <1>2, <2>2, <2>3, ReachableIs
  <2>4. ASSUME NEW e \in Reachable(repository, Root)
        PROVE  \/ Uris(DeclaredIn(repository, e)) \subseteq Uris(resolved)
               \/ \E i \in DOMAIN Front(pending) : e \in Reachable(repository, Front(pending)[i])
    <3>1. CASE Uris(DeclaredIn(repository, e)) \subseteq Uris(resolved)
      BY <3>1
    <3>2. CASE \E i \in DOMAIN pending : e \in Reachable(repository, pending[i])
      <4>1. PICK i \in 1..n : e \in Reachable(repository, pending[i])
        BY <1>2, <3>2
      <4>2. CASE i = n
        <5>1. e = d
          BY <1>2, <2>3, <4>1, <4>2
        <5>2. Uris(DeclaredIn(repository, e)) = {}
          BY <2>2, <5>1 DEF Uris
        <5>3. QED
          BY <5>2
      <4>3. CASE i # n
        <5>1. i \in 1..(n - 1) /\ DOMAIN Front(pending) = 1..(n - 1)
          BY <1>2, <4>3
        <5>2. QED
          BY <1>2, <4>1, <5>1
      <4>4. QED
        BY <4>2, <4>3
    <3>3. QED
      BY <1>1, <3>1, <3>2 DEF Walked
  <2>5. \A i \in DOMAIN Front(pending) : Front(pending)[i] \in Reachable(repository, Root)
    <3>1. DOMAIN Front(pending) = 1..(n - 1) /\ 1..(n - 1) \subseteq DOMAIN pending
      BY <1>2
    <3>2. QED
      BY <1>1, <1>2, <3>1 DEF Walked
  <2>6. QED
    BY <1>1, <1>2, <2>1, <2>4, <2>5 DEF Walked
<1>5. CASE repository[d].listable
  <2> DEFINE parsed == Parsing(repository[d].files)
             subs == Subdirectories(d)
             rest == Front(pending)
  <2>1. pending' = rest \o subs /\ resolved' = Merge(resolved, parsed)
    BY <1>5 DEF DirectoryListed, ListDirectory, d
  <2>2. subs \in Seq(Dir) /\ Listed(subs) = Below(repository, d)
    BY <1>1, <1>2, <1>5, SubdirectoriesAre
  <2>3. /\ DOMAIN parsed \subseteq Nat /\ \A f \in DOMAIN parsed : DOMAIN parsed[f] \subseteq Nat
        /\ Found(parsed) = DeclaredIn(repository, d) /\ Found(parsed) \subseteq Dependencies
    BY <1>1, <1>2, <1>5, DirectoryIsDeclared
  <2> HIDE DEF parsed, subs, rest
  <2>4. /\ Distinct(resolved') /\ resolved \subseteq resolved'
        /\ resolved' \subseteq resolved \cup Found(parsed)
        /\ Uris(resolved') = Uris(resolved) \cup Uris(DeclaredIn(repository, d))
    BY <1>1, <2>1, <2>3, MergeIs
  <2>5. resolved' \subseteq Dependencies /\ resolved' \subseteq Declared(repository)
    BY <1>1, <1>3, <2>3, <2>4, DeclaredInReach
  <2>6. rest \in Seq(Dir) /\ Len(rest) = n - 1 /\ \A i \in 1..(n - 1) : rest[i] = pending[i]
    BY <1>2 DEF rest
  <2>7. /\ pending' \in Seq(Dir)
        /\ DOMAIN pending' = 1..((n - 1) + Len(subs))
        /\ \A i \in 1..(n - 1) : pending'[i] = pending[i]
        /\ \A j \in 1..Len(subs) : pending'[(n - 1) + j] = subs[j]
    <3>1. pending' = rest \o subs /\ rest \in Seq(Dir) /\ subs \in Seq(Dir) /\ Len(rest) = n - 1
      BY <2>1, <2>2, <2>6
    <3>2. pending' \in Seq(Dir) /\ DOMAIN pending' = 1..(Len(rest) + Len(subs))
      BY <3>1
    <3>3. \A i \in 1..Len(rest) : pending'[i] = rest[i]
      BY <3>1
    <3>4. \A j \in 1..Len(subs) : pending'[Len(rest) + j] = subs[j]
      BY <3>1
    <3>5. QED
      BY <2>6, <3>1, <3>2, <3>3, <3>4
  <2>8. \A c \in Below(repository, d) : \E i \in DOMAIN pending' : pending'[i] = c
    <3> SUFFICES ASSUME NEW c \in Below(repository, d)
                 PROVE  \E i \in DOMAIN pending' : pending'[i] = c
      OBVIOUS
    <3>1. PICK j \in DOMAIN subs : subs[j] = c
      BY <2>2 DEF Listed
    <3>2. j \in 1..Len(subs) /\ Len(subs) \in Nat
      BY <2>2
    <3>3. (n - 1) + j \in 1..((n - 1) + Len(subs))
      BY <1>2, <3>2
    <3>4. QED
      BY <2>7, <3>1, <3>2, <3>3
  <2>9. ASSUME NEW i \in DOMAIN pending' PROVE pending'[i] \in Reachable(repository, Root)
    <3>1. i \in 1..((n - 1) + Len(subs)) /\ Len(subs) \in Nat
      BY <2>2, <2>7
    <3>2. CASE i <= n - 1
      <4>1. i \in 1..(n - 1) /\ i \in DOMAIN pending
        BY <1>2, <3>1, <3>2
      <4>2. QED
        BY <1>1, <2>7, <4>1 DEF Walked
    <3>3. CASE i > n - 1
      <4>1. i - (n - 1) \in 1..Len(subs) /\ (n - 1) + (i - (n - 1)) = i
        BY <1>2, <3>1, <3>3
      <4>2. pending'[i] = subs[i - (n - 1)]
        BY <2>7, <4>1
      <4>3. pending'[i] \in Below(repository, d)
        BY <2>2, <4>1, <4>2 DEF Listed
      <4>4. Root \in Dir
        BY DependenciesAssumption
      <4>5. QED
        BY <1>1, <1>3, <4>3, <4>4, ReachableIs
    <3>4. QED
      BY <1>2, <3>1, <3>2, <3>3
  <2>10. ASSUME NEW e \in Reachable(repository, Root)
         PROVE  \/ Uris(DeclaredIn(repository, e)) \subseteq Uris(resolved')
                \/ \E i \in DOMAIN pending' : e \in Reachable(repository, pending'[i])
    <3>1. CASE Uris(DeclaredIn(repository, e)) \subseteq Uris(resolved)
      BY <2>4, <3>1
    <3>2. CASE \E i \in DOMAIN pending : e \in Reachable(repository, pending[i])
      <4>1. PICK i \in 1..n : e \in Reachable(repository, pending[i])
        BY <1>2, <3>2
      <4>2. CASE i # n
        <5>1. i \in 1..(n - 1) /\ i \in DOMAIN pending'
          BY <1>2, <2>2, <2>7, <4>2
        <5>2. QED
          BY <2>7, <4>1, <5>1
      <4>3. CASE i = n
        <5>1. e \in Reachable(repository, d)
          BY <1>2, <4>1, <4>3
        <5>2. CASE e = d
          BY <2>4, <5>2
        <5>3. CASE e # d
          <6>1. PICK c \in Below(repository, d) : e \in Reachable(repository, c)
            BY <1>1, <1>2, <5>1, <5>3, ReachableIs
          <6>2. QED
            BY <2>8, <6>1
        <5>4. QED
          BY <5>2, <5>3
      <4>4. QED
        BY <4>2, <4>3
    <3>3. QED
      BY <1>1, <3>1, <3>2 DEF Walked
  <2>11. QED
    BY <1>1, <2>4, <2>5, <2>7, <2>9, <2>10 DEF Walked
<1>6. QED
  BY <1>4, <1>5

LEMMA UrisOf ==
  /\ Uris({}) = {}
  /\ \A A : Uris(A) = {} => A = {}
  /\ \A A : \A d \in A : d.uri \in Uris(A)
BY DEF Uris

\* The walk begins at the root, from which everything is in reach.
LEMMA StartStep ==
  ASSUME Walked, WalkStarted
  PROVE  Walked'
<1>1. /\ pending' = <<Root>> /\ resolved' = {} /\ repository' = repository /\ stage' = "walk"
      /\ Tree(repository) /\ DOMAIN repository = Dir /\ Root \in Dir
  BY DependenciesAssumption DEF WalkStarted, StartWalk, Walked
<1>2. Root \in Reachable(repository, Root)
  BY <1>1, ReachableIs
<1>3. <<Root>> \in Seq(Dir) /\ DOMAIN <<Root>> = {1} /\ <<Root>>[1] = Root
  BY <1>1
<1>4. \A i \in DOMAIN pending' : pending'[i] \in Reachable(repository, Root)
  BY <1>1, <1>2, <1>3
<1>5. \A d \in Reachable(repository, Root) :
        \E i \in DOMAIN pending' : d \in Reachable(repository, pending'[i])
  BY <1>1, <1>3
<1>6. Distinct({})
  BY DEF Distinct
<1>7. QED
  BY <1>1, <1>3, <1>4, <1>5, <1>6 DEF Walked

\* When nothing is pending, all in reach has been listed.
LEMMA EndStep ==
  ASSUME Walked, Ingested, DependenciesDetected
  PROVE  Walked'
<1>1. /\ pending = << >> /\ stage = "walk" /\ stage' = "controls"
      /\ resolved' = WithSbom(resolved, sbom)
      /\ UNCHANGED <<repository, pending, sbom>>
      /\ Tree(repository) /\ DOMAIN repository = Dir /\ pending \in Seq(Dir)
      /\ resolved \subseteq Dependencies /\ Distinct(resolved)
      /\ resolved \subseteq Declared(repository)
  BY DEF DependenciesDetected, WalkEnds, sbomVars, Walked
<1>2. \A d \in Reachable(repository, Root) : Uris(DeclaredIn(repository, d)) \subseteq Uris(resolved)
  BY <1>1 DEF Walked
<1>3. Uris(Declared(repository)) \subseteq Uris(resolved)
  <2>1. \A p \in Declared(repository) : p.uri \in Uris(resolved)
    BY <1>2, UrisOf DEF Declared
  <2>2. QED
    BY <2>1 DEF Uris
<1>4. Uris(resolved) \subseteq Uris(Declared(repository))
  BY <1>1 DEF Uris
<1>5. CASE Declared(repository) = {}
  <2>1. resolved = {} /\ resolved' = WithSbom({}, sbom')
    BY <1>1, <1>5
  <2>2. resolved' \subseteq Dependencies /\ Distinct(resolved')
    <3>1. CASE sbom.state = "read"
      <4>1. resolved' = SbomDependencies(sbom)
        BY <1>1, <2>1, <3>1 DEF WithSbom
      <4>2. \A i \in DOMAIN sbom.components :
              /\ i \in Nat /\ sbom.components[i].purl \in Purl \cup {NoPurl}
              /\ sbom.components[i].digest \in Digest
        BY IngestedTypes DEF SbomTypeOK
      <4>3. QED
        BY <4>1, <4>2, SbomDependenciesAre
    <3>2. CASE sbom.state # "read"
      <4>1. resolved' = {}
        BY <1>1, <2>1, <3>2 DEF WithSbom
      <4>2. QED
        BY <4>1 DEF Distinct
    <3>3. QED
      BY <3>1, <3>2
  <2>3. QED
    BY <1>1, <1>5, <2>1, <2>2 DEF Walked
<1>6. CASE Declared(repository) # {}
  <2>1. resolved # {}
    BY <1>3, <1>6, UrisOf
  <2>2. resolved' = resolved
    BY <1>1, <2>1 DEF WithSbom
  <2>3. Uris(resolved) = Uris(Declared(repository))
    BY <1>3, <1>4
  <2>4. /\ resolved' \subseteq Declared(repository') /\ Declared(repository') # {}
        /\ Uris(resolved') = Uris(Declared(repository'))
    BY <1>1, <1>6, <2>2, <2>3
  <2>5. QED
    BY <1>1, <2>2, <2>4 DEF Walked
<1>7. QED
  BY <1>5, <1>6

\* A step that is none of the walk's.
LEMMA WalkLeftAlone ==
  ASSUME Walked, UNCHANGED dependencyVars, stage' \notin {"walk", "controls"}
  PROVE  Walked'
BY DEF Walked, dependencyVars

LEMMA WalkedStep == Walked /\ Ingested /\ [EvidenceNext]_evidenceVars => Walked'
<1> SUFFICES ASSUME Walked, Ingested, [EvidenceNext]_evidenceVars PROVE Walked'
  OBVIOUS
<1>1. CASE InspectAuthor \/ AuthorInspected
  BY <1>1, WalkLeftAlone DEF InspectAuthor, AuthorInspected
<1>2. CASE InputsGiven
  <2>1. /\ DOMAIN repository' = Dir /\ \A d \in Dir : IsDirectory(repository'[d])
        /\ stage' = "scans" /\ UNCHANGED <<pending, resolved>>
    BY <1>2, EvidenceAssumption DEF InputsGiven, World
  <2>2. Tree(repository')
    BY <2>1 DEF Tree
  <2>3. QED
    BY <2>1, <2>2 DEF Walked
<1>3. CASE ScansIngested
  BY <1>3, WalkLeftAlone DEF ScansIngested
<1>4. CASE WalkStarted \/ DirectoryListed \/ DependenciesDetected
  BY <1>4, StartStep, ListingStep, EndStep
<1>5. CASE ControlsEvaluated
  BY <1>5 DEF ControlsEvaluated, sbomVars, dependencyVars, Walked
<1>6. CASE ControlsEnd
  <2>1. /\ repository' = NoRepository /\ resolved' = {} /\ pending' = pending
        /\ stage' \notin {"walk", "controls"}
    BY <1>6 DEF ControlsEnd
  <2>2. Distinct({})
    BY DEF Distinct
  <2>3. QED
    BY <2>1, <2>2, NoRepositoryType DEF Walked
<1>7. CASE FunctionalStep \/ EvidenceCollected
  BY <1>7, WalkLeftAlone DEF FunctionalStep, EvidenceCollected
<1>8. CASE Meanwhile
  BY <1>8 DEF Meanwhile, sbomVars, dependencyVars, Walked
<1>9. CASE UNCHANGED evidenceVars
  BY <1>9 DEF evidenceVars, sbomVars, dependencyVars, Walked
<1>10. QED
  BY <1>1, <1>2, <1>3, <1>4, <1>5, <1>6, <1>7, <1>8, <1>9 DEF EvidenceNext, Proceed, Over

LEMMA WalkedInvariant == EvidenceSpec => []Walked
BY IngestedInvariant, WalkedInit, WalkedStep, PTL DEF EvidenceSpec

\* What is resolved is a dependency with a digest of known hashes, at most
\* one of each algorithm, throughout the walk (lockfiles.py).
THEOREM DependencyTypes == EvidenceSpec => []DependencyTypeOK
<1>1. Walked => DependencyTypeOK
  BY DEF Walked, DependencyTypeOK, Dependencies
<1>2. QED
  BY <1>1, WalkedInvariant, PTL

\* What the run lists is what the lockfiles in reach declare, each package
\* once and none left out, whatever the repository and the formats of its
\* lockfiles (detect_and_parse_dependencies, _detect_lockfile_dependencies).
THEOREM EveryLockfileIsListed == EvidenceSpec => []ListedAsDeclared
<1>1. Walked => ListedAsDeclared
  <2> SUFFICES ASSUME Walked, stage \in {"walk", "controls"} PROVE ListedAsDeclared!2
    BY DEF ListedAsDeclared
  <2>1. \A d, e \in resolved : d.uri = e.uri => d = e
    BY DEF Walked, Distinct
  <2>2. CASE Declared(repository) = {}
    <3>1. resolved = {} \/ resolved = WithSbom({}, sbom)
      BY <2>2 DEF Walked
    <3>2. WithSbom({}, sbom) \subseteq SbomDependencies(sbom)
      BY DEF WithSbom
    <3>3. QED
      BY <2>1, <2>2, <3>1, <3>2
  <2>3. CASE Declared(repository) # {}
    BY <2>1, <2>3 DEF Walked
  <2>4. QED
    BY <2>2, <2>3
<1>2. QED
  BY <1>1, WalkedInvariant, PTL

\* What the controls are evaluated over is what the run has to answer for.
LEMMA ConsumedIs ==
  ASSUME Walked, Ingested, stage = "controls"
  PROVE  Consumed = Uris(resolved)
<1>1. CASE Declared(repository) # {}
  BY <1>1 DEF Walked, Consumed
<1>2. CASE Declared(repository) = {}
  <2>1. resolved = WithSbom({}, sbom) /\ Consumed = SbomPurls(sbom)
    BY <1>2 DEF Walked, Consumed, SbomPurls
  <2>2. CASE sbom.state = "read"
    <3>1. \A i \in DOMAIN sbom.components :
            /\ i \in Nat /\ sbom.components[i].purl \in Purl \cup {NoPurl}
            /\ sbom.components[i].digest \in Digest
      BY IngestedTypes DEF SbomTypeOK
    <3>2. QED
      BY <2>1, <2>2, <3>1, SbomDependenciesAre DEF WithSbom
  <2>3. CASE sbom.state # "read"
    <3>1. sbom.components = << >>
      BY <2>3, ParseSbomType DEF Ingested
    <3>2. SbomPurls(sbom) = {}
      BY <3>1 DEF SbomPurls, ToSet
    <3>3. QED
      BY <2>1, <2>3, <3>2, UrisOf DEF WithSbom
  <2>4. QED
    BY <2>2, <2>3
<1>3. QED
  BY <1>1, <1>2

\* No denylisted package slips through: between a lockfile, in whatever
\* directory and format, and the control (_evaluate_s2c2f_controls) no step
\* drops one.
THEOREM DenylistHolds == EvidenceSpec => []DenylistedNeverSlipsThrough
<1>1. Walked /\ Ingested /\ ControlsOK => DenylistedNeverSlipsThrough
  <2> SUFFICES ASSUME Walked, Ingested, ControlsOK, Reported, controls["ING-3"] = "met",
                      NEW p \in Consumed, NEW listed \in evidence.checkout.denylist.names
               PROVE  <<listed, p[1]>> \notin StartsWith
    BY DEF DenylistedNeverSlipsThrough
  <2>1. stage = "controls"
    BY DEF ControlsOK, Asked, Reported
  <2>2. controls = Evaluation(resolved, scan.tools, evidence.governance, evidence.checkout,
                              alerts, dependabot, securityMd)
    BY DEF ControlsOK, Asked
  <2>3. controls["ING-3"] = Denylists(evidence.checkout, resolved)
    BY <2>2 DEF Evaluation, Controls
  <2>4. \A d \in resolved, l \in evidence.checkout.denylist.names : <<l, d.uri[1]>> \notin StartsWith
    BY <2>3 DEF Denylists, Verdict
  <2>5. PICK d \in resolved : p = d.uri
    BY <2>1, ConsumedIs DEF Uris
  <2>6. QED
    BY <2>4, <2>5
<1>2. QED
  BY <1>1, WalkedInvariant, IngestedInvariant, ControlsInvariant, PTL

-----------------------------------------------------------------------------
(* The functional suite.                                                     *)

\* A row of a report tells of a test.
Tells(framework, row, t) ==
  row.journeys = t.journeys /\ row.raw \in Encodings(framework, t.truth)

\* The test that a row tells of, where it can be found.
ToldOf(t) ==
  \E s \in Readable(files) : \E i \in DOMAIN files[s].tests :
    Tells(contract.framework, files[s].tests[i], t)

\* The suite: what the reports hold was executed, what was executed is in a
\* report unless the suite was cut short, and then a report is missing.
Ran ==
  /\ contract \in ContractFile /\ tier \in EvaluationTier
  /\ suite \in {"waiting", "running", "over", "evaluated"}
  /\ DOMAIN files = Stage
  /\ \A s \in Stage : IsFiniteSet(DOMAIN files[s].tests)
  /\ executed \subseteq Test /\ aborted \in BOOLEAN
  /\ suite = "waiting" => files = NothingWritten /\ executed = {} /\ tier = "ci"
  /\ suite \in {"waiting", "running"} => aborted = FALSE
  /\ \A s \in Readable(files) : \A i \in DOMAIN files[s].tests :
       \E t \in executed : Tells(contract.framework, files[s].tests[i], t)
  /\ aborted = FALSE => \A t \in executed : ToldOf(t)
  /\ suite \in {"over", "evaluated"} /\ Readable(files) = Stage => aborted = FALSE

\* A report that meets the contract at a tier.
Meets(r, t) ==
  /\ LoadContract(contract).outcome = "usable"
  /\ r.declared = Responsible(LoadContract(contract).journeys, t) /\ DOMAIN r.declared # {}
  /\ \E places \in SUBSET DOMAIN r.declared : r.covered = Restrict(r.declared, places)
  /\ \E down \in 0..1 : ScorePct(r.covered, r.declared, down) >= contract.min

IsResult(r) ==
  /\ r.status \in {"none", "not_configured", "unavailable", "evaluated"} /\ r.met \in BOOLEAN
  /\ r.rows \in [{"failed", "skipped", "passed"} -> Nat]
  /\ r.rows.failed + r.rows.skipped + r.rows.passed <= MaxReported
  /\ Ids(r.covered) \subseteq Ids(r.declared)

\* The reports: of this tier, once it is evaluated, and of the one before.
Judged ==
  /\ suite # "evaluated" => result = NoReport
  /\ suite = "evaluated" =>
       \E given \in BOOLEAN, down \in 0..1 : result = Evaluate(contract, tier, files, given, down)
  /\ tier = "ci" => attested = NoReport
  /\ IsResult(attested)
  /\ attested.met => Meets(attested, "ci")

LEMMA EncodingIsRead ==
  ASSUME NEW framework, NEW truth \in {"passed", "failed", "skipped"},
         NEW raw \in Encodings(framework, truth)
  PROVE  CaseStatus(framework, raw) = truth
<1>1. CASE framework = "playwright"
  <2>1. /\ PlaywrightStatus(<<"passed">>) = "passed" /\ PlaywrightStatus(<<"failed", "passed">>) = "passed"
        /\ PlaywrightStatus(<< >>) = "skipped" /\ PlaywrightStatus(<<"skipped">>) = "skipped"
        /\ PlaywrightStatus(<<"timedOut">>) = "failed" /\ PlaywrightStatus(<<"passed", "failed">>) = "failed"
    BY DEF PlaywrightStatus, Last
  <2>2. QED
    BY <1>1, <2>1 DEF Encodings, CaseStatus
<1>2. CASE framework = "pytest"
  BY <1>2 DEF Encodings, CaseStatus, JunitStatus
<1>3. CASE framework \notin {"playwright", "pytest"}
  <2>1. CaseStatus(framework, raw) = GenericStatus(raw)
    BY <1>3 DEF CaseStatus
  <2>2. \/ truth = "passed" /\ raw = "passed"
        \/ truth = "skipped" /\ raw = "skip"
        \/ truth = "failed" /\ raw \in {"errored", "unheard_of"}
    BY <1>3 DEF Encodings
  <2>3. /\ GenericStatus("passed") = "passed" /\ GenericStatus("skip") = "skipped"
        /\ GenericStatus("errored") = "failed" /\ GenericStatus("unheard_of") = "failed"
    BY DEF GenericStatus
  <2>4. QED
    BY <2>1, <2>2, <2>3
<1>4. QED
  BY <1>1, <1>2, <1>3

LEMMA NoReportType == IsResult(NoReport) /\ NoReport.met = FALSE
<1>1. NoRows \in [{"failed", "skipped", "passed"} -> Nat] /\ 0 + 0 + 0 <= MaxReported
  BY AdequacyAssumption DEF NoRows
<1>2. Ids(<< >>) = {}
  BY DEF Ids
<1>3. FALSE \in BOOLEAN
  OBVIOUS
<1>4. QED
  BY <1>1, <1>2, <1>3 DEF NoReport, Report, IsResult, NoRows

LEMMA NothingWrittenIs ==
  /\ DOMAIN NothingWritten = Stage /\ Readable(NothingWritten) = {}
  /\ \A s \in Stage : IsFiniteSet(DOMAIN NothingWritten[s].tests)
<1>1. \A s \in Stage : NothingWritten[s].kind = "absent" /\ NothingWritten[s].tests = << >>
  BY DEF NothingWritten, Absent
<1>2. DOMAIN << >> = {} /\ IsFiniteSet({})
  BY FS_EmptySet
<1>3. QED
  BY <1>1, <1>2 DEF NothingWritten, Readable

\* The contract keeps its entries in their places.
LEMMA LoadIs ==
  ASSUME NEW file \in ContractFile
  PROVE  LET load == LoadContract(file)
         IN  /\ DOMAIN load.journeys \subseteq 1..Len(file.entries)
             /\ Len(file.entries) \in Nat
             /\ load.outcome \in {"usable", "invalid", "unconfigured"}
             /\ load.outcome # "usable" => DOMAIN load.journeys = {}
             /\ file.form = "journeys" /\ load.outcome = "usable" =>
                  /\ load.journeys = file.entries
                  /\ \A i \in DOMAIN file.entries : file.entries[i].tier \in DeclaredTier
<1>1. file.entries \in Seq(JourneyEntry)
  BY DEF ContractFile
<1>2. DOMAIN file.entries = 1..Len(file.entries) /\ Len(file.entries) \in Nat
  BY <1>1
<1>3. DOMAIN << >> = {}
  OBVIOUS
<1>4. CASE file.form = "absent"
  BY <1>2, <1>3, <1>4 DEF LoadContract
<1>5. CASE file.form = "journeys"
  <2>1. LoadContract(file) = ParseJourneyObjects(file.entries)
    BY <1>5 DEF LoadContract
  <2> HIDE DEF LoadContract
  <2>2. CASE file.entries = << >>
    BY <1>2, <1>3, <1>5, <2>1, <2>2 DEF ParseJourneyObjects
  <2>3. CASE file.entries # << >>
    BY <1>2, <1>3, <1>5, <2>1, <2>3 DEF ParseJourneyObjects
  <2>4. QED
    BY <2>2, <2>3
<1>6. CASE file.form \notin {"absent", "journeys"}
  <2> DEFINE ids == {i \in DOMAIN file.entries : file.entries[i].id # NoId}
  <2>1. LoadContract(file) = LegacyJourneys(file.entries)
    BY <1>6 DEF LoadContract
  <2>2. /\ DOMAIN LegacyJourneys(file.entries).journeys = ids
        /\ LegacyJourneys(file.entries).outcome = IF ids = {} THEN "unconfigured" ELSE "usable"
    BY DEF LegacyJourneys
  <2>3. QED
    BY <1>2, <1>6, <2>1, <2>2
<1>7. QED
  BY <1>4, <1>5, <1>6

\* Division by a positive number keeps the order, and undoes no multiplication.
LEMMA DivOrder ==
  ASSUME NEW a \in Nat, NEW b \in Nat, a <= b, NEW m \in Nat \ {0}
  PROVE  a \div m \in Nat /\ a \div m <= b \div m
<1>1. /\ a \div m \in Int /\ b \div m \in Int
      /\ a = m * (a \div m) + (a % m) /\ a % m \in 0..(m - 1)
      /\ b = m * (b \div m) + (b % m) /\ b % m \in 0..(m - 1)
  OBVIOUS
<1> DEFINE p == a \div m
           q == b \div m
<1> HIDE DEF p, q
<1>2. p \in Int /\ q \in Int /\ m * p <= a /\ a < m * p + m /\ m * q <= b /\ b < m * q + m
  BY <1>1 DEF p, q
<1>3. p >= 0
  <2> SUFFICES ASSUME p <= -1 PROVE FALSE
    BY <1>2
  <2>1. m * p <= m * (-1)
    BY <1>2
  <2>2. QED
    BY <1>2, <2>1
<1>4. p <= q
  <2> SUFFICES ASSUME q + 1 <= p PROVE FALSE
    BY <1>2
  <2>1. m * (q + 1) <= m * p
    BY <1>2
  <2>2. m * (q + 1) = m * q + m
    BY <1>2
  <2>3. QED
    BY <1>2, <2>1, <2>2
<1>5. QED
  BY <1>2, <1>3, <1>4 DEF p, q

LEMMA DivReaches ==
  ASSUME NEW a \in Nat, NEW m \in Nat \ {0}, NEW k \in Nat, a \div m >= k
  PROVE  a >= m * k
<1>1. a \div m \in Int /\ a = m * (a \div m) + (a % m) /\ a % m \in 0..(m - 1)
  OBVIOUS
<1> DEFINE p == a \div m
<1> HIDE DEF p
<1>2. p \in Int /\ m * p <= a /\ p >= k
  BY <1>1 DEF p
<1>3. m * k <= m * p
  BY <1>2
<1>4. QED
  BY <1>2, <1>3

\* Of some journeys, those in these places.
LEMMA RestrictIs ==
  ASSUME NEW journeys, NEW places
  PROVE  /\ DOMAIN Restrict(journeys, places) = places
         /\ \A i \in places : Restrict(journeys, places)[i] = journeys[i]
BY DEF Restrict

\* The more journeys, the better the score.
LEMMA ScoreGrows ==
  ASSUME NEW declared, IsFiniteSet(DOMAIN declared), DOMAIN declared # {},
         NEW A, NEW B, A \subseteq B, B \subseteq DOMAIN declared, NEW down \in 0..1
  PROVE  ScorePct(Restrict(declared, A), declared, down) <= ScorePct(Restrict(declared, B), declared, 0)
<1> DEFINE n == Cardinality(DOMAIN declared)
           a == Cardinality(A)
           b == Cardinality(B)
<1>1. IsFiniteSet(A) /\ IsFiniteSet(B) /\ a <= b
  BY FS_Subset
<1>2. a \in Nat /\ b \in Nat /\ n \in Nat /\ n # 0
  BY <1>1, FS_CardinalityType, FS_EmptySet
<1>3. /\ ScorePct(Restrict(declared, A), declared, down) = (20000 * a + n - down) \div (2 * n)
      /\ ScorePct(Restrict(declared, B), declared, 0) = (20000 * b + n - 0) \div (2 * n)
  BY RestrictIs DEF ScorePct
<1> HIDE DEF n, a, b
<1>4. /\ 20000 * a + n - down \in Nat /\ 20000 * b + n - 0 \in Nat /\ 2 * n \in Nat \ {0}
      /\ 20000 * a + n - down <= 20000 * b + n - 0
  BY <1>1, <1>2
<1>5. QED
  BY <1>3, <1>4, DivOrder

\* A hundred percent of few enough journeys is all of them.
LEMMA ScoreOfAll ==
  ASSUME NEW declared, IsFiniteSet(DOMAIN declared), DOMAIN declared # {},
         Cardinality(DOMAIN declared) < 20000,
         NEW A, A \subseteq DOMAIN declared, NEW down \in 0..1,
         ScorePct(Restrict(declared, A), declared, down) >= 10000
  PROVE  A = DOMAIN declared
<1> DEFINE n == Cardinality(DOMAIN declared)
           a == Cardinality(A)
<1>1. IsFiniteSet(A) /\ a <= n /\ (n = a => A = DOMAIN declared)
  BY FS_Subset
<1>2. a \in Nat /\ n \in Nat /\ n # 0 /\ n < 20000
  BY <1>1, FS_CardinalityType, FS_EmptySet
<1>3. (20000 * a + n - down) \div (2 * n) >= 10000
  BY RestrictIs DEF ScorePct
<1>4. n = a
  <2> HIDE DEF n, a
  <2>1. 20000 * a + n - down \in Nat /\ 2 * n \in Nat \ {0} /\ 10000 \in Nat
    BY <1>2
  <2>2. 20000 * a + n - down >= (2 * n) * 10000
    BY <1>3, <2>1, DivReaches
  <2>3. QED
    BY <1>1, <1>2, <2>2
<1>5. QED
  BY <1>1, <1>4

LEMMA CasesAreFinite ==
  ASSUME NEW framework, NEW fs, \A s \in Stage : IsFiniteSet(DOMAIN fs[s].tests)
  PROVE  IsFiniteSet(DOMAIN ParsedCases(framework, fs))
<1> DEFINE Rows(s) == {s} \X DOMAIN fs[s].tests
           all == {Rows(s) : s \in Readable(fs)}
<1>1. DOMAIN ParsedCases(framework, fs) = UNION all
  BY DEF ParsedCases
<1>2. IsFiniteSet(Readable(fs))
  BY FS_Subset, AdequacyAssumption DEF Readable
<1>3. IsFiniteSet(all)
  <2> DEFINE row == [s \in Readable(fs) |-> Rows(s)]
  <2> HIDE DEF Rows
  <2>1. row \in Surjection(Readable(fs), all)
    BY DEF Surjection
  <2>2. QED
    BY <1>2, <2>1, FS_Surjection
<1>4. \A s \in Stage : IsFiniteSet(Rows(s))
  BY FS_Product, FS_Singleton
<1>5. \A T \in all : IsFiniteSet(T)
  <2> HIDE DEF Rows
  <2>1. QED
    BY <1>4 DEF Readable
<1>6. QED
  <2> HIDE DEF all
  <2>1. QED
    BY <1>1, <1>3, <1>5, FS_UNION

LEMMA RowsType ==
  ASSUME NEW cases, IsFiniteSet(DOMAIN cases)
  PROVE  /\ TestRows(cases) \in [{"failed", "skipped", "passed"} -> Nat]
         /\ TestRows(cases).failed + TestRows(cases).skipped + TestRows(cases).passed <= MaxReported
<1> DEFINE Capped(n, room) == IF n < room THEN n ELSE room
           f == Cardinality(WithCaseStatus(cases, "failed"))
           s == Cardinality(WithCaseStatus(cases, "skipped"))
           p == Cardinality(WithCaseStatus(cases, "passed"))
           failures == Capped(f, MaxReported)
           skips == Capped(s, MaxReported - failures)
           passes == Capped(p, MaxReported - failures - skips)
<1>1. f \in Nat /\ s \in Nat /\ p \in Nat /\ MaxReported \in Nat
  <2>1. \A status : IsFiniteSet(WithCaseStatus(cases, status))
    BY FS_Subset DEF WithCaseStatus
  <2>2. QED
    BY <2>1, FS_CardinalityType, AdequacyAssumption
<1>2. TestRows(cases) = [failed |-> failures, skipped |-> skips, passed |-> passes]
  BY DEF TestRows
<1> HIDE DEF f, s, p
<1>3. failures \in Nat /\ failures <= MaxReported
  BY <1>1
<1> HIDE DEF failures
<1>4. skips \in Nat /\ failures + skips <= MaxReported
  BY <1>1, <1>3
<1> HIDE DEF skips
<1>5. passes \in Nat /\ failures + skips + passes <= MaxReported
  BY <1>1, <1>3, <1>4
<1> HIDE DEF passes
<1>6. QED
  BY <1>2, <1>3, <1>4, <1>5

LEMMA RowsOrNone ==
  ASSUME NEW rows, rows = NoRows \/ \E cases : IsFiniteSet(DOMAIN cases) /\ rows = TestRows(cases)
  PROVE  /\ rows \in [{"failed", "skipped", "passed"} -> Nat]
         /\ rows.failed + rows.skipped + rows.passed <= MaxReported
<1>1. CASE rows = NoRows
  BY <1>1, NoReportType DEF IsResult, NoReport, Report
<1>2. CASE \E cases : IsFiniteSet(DOMAIN cases) /\ rows = TestRows(cases)
  BY <1>2, RowsType
<1>3. QED
  BY <1>1, <1>2

LEMMA CoveredIs ==
  ASSUME NEW declared, NEW cases
  PROVE  /\ \E places \in SUBSET DOMAIN declared :
              Covered(declared, cases) = Restrict(declared, places)
         /\ Ids(Covered(declared, cases)) \subseteq Ids(declared)
         /\ \A id \in Ids(Covered(declared, cases)) :
              id \in JourneysWith(cases, "passed") \ JourneysWith(cases, "failed")
<1> DEFINE places == {i \in DOMAIN declared :
                        declared[i].id \in JourneysWith(cases, "passed")
                                            \ JourneysWith(cases, "failed")}
<1>1. Covered(declared, cases) = Restrict(declared, places) /\ places \in SUBSET DOMAIN declared
  BY DEF Covered
<1>2. /\ DOMAIN Covered(declared, cases) = places
      /\ \A i \in places : Covered(declared, cases)[i] = declared[i]
  BY <1>1, RestrictIs
<1>3. \A id \in Ids(Covered(declared, cases)) : \E i \in places : id = declared[i].id
  BY <1>2 DEF Ids
<1>4. QED
  BY <1>1, <1>3 DEF Ids

\* What a report says of the contract, the tier and the reports it was made from.
Judges(r, file, t, fs, down) ==
  LET load     == LoadContract(file)
      declared == Responsible(load.journeys, t)
      cases    == ParsedCases(file.framework, fs)
  IN  /\ IsResult(r)
      /\ r.status # "evaluated" => r.met = FALSE /\ r.covered = << >>
      /\ r.status = "evaluated" =>
           /\ load.outcome = "usable" /\ r.declared = declared /\ DOMAIN declared # {}
           /\ r.covered = Covered(declared, cases)
           /\ r.deferred = IF Tiered(file, t) THEN Deferred(load.journeys, t) ELSE << >>
      /\ r.met =>
           /\ r.status = "evaluated"
           /\ Readable(fs) = Stage /\ DOMAIN cases # {}
           /\ WithCaseStatus(cases, "failed") = {}
           /\ ScorePct(r.covered, r.declared, down) >= file.min

\* What an evaluation comes to.
LEMMA EvaluateIs ==
  ASSUME NEW file \in ContractFile, NEW t \in EvaluationTier, NEW fs,
         \A s \in Stage : IsFiniteSet(DOMAIN fs[s].tests),
         NEW given \in BOOLEAN, NEW down \in 0..1
  PROVE  Judges(Evaluate(file, t, fs, given, down), file, t, fs, down)
<1> DEFINE r        == Evaluate(file, t, fs, given, down)
           load     == LoadContract(file)
           declared == Responsible(load.journeys, t)
           deferred == IF Tiered(file, t) THEN Deferred(load.journeys, t) ELSE << >>
           cases    == ParsedCases(file.framework, fs)
           covered  == Covered(declared, cases)
           made     == Evaluated(file, t, fs, declared, deferred, down)
<1>1. load.outcome \in {"usable", "invalid", "unconfigured"}
  BY LoadIs
<1>2. \/ r.status \in {"not_configured", "unavailable"} /\ r.met = FALSE /\ r.covered = << >>
         /\ r.rows = NoRows
      \/ load.outcome = "usable" /\ DOMAIN declared # {} /\ r = made
  <2> HIDE DEF load, declared, deferred, made
  <2>1. r = IF load.outcome = "invalid" THEN Unavailable("config_invalid", << >>, << >>)
            ELSE IF load.outcome = "unconfigured" \/ DOMAIN declared = {}
              THEN Report("not_configured", FALSE, "not_configured", << >>, << >>, deferred, NoRows)
            ELSE IF ~given THEN Unavailable("report_missing", declared, deferred)
            ELSE IF file.framework \notin Framework
              THEN Unavailable("unsupported_framework", declared, deferred)
            ELSE IF Readable(fs) = {} THEN Unavailable(AllFailedCode(t, fs), declared, deferred)
            ELSE made
    BY DEF Evaluate, load, declared, deferred, made
  <2> HIDE DEF r
  <2>2. QED
    BY <1>1, <2>1 DEF Unavailable, Report
<1>3. CASE r.status \in {"not_configured", "unavailable"} /\ r.met = FALSE /\ r.covered = << >>
           /\ r.rows = NoRows
  <2> HIDE DEF r, load, declared, deferred, cases
  <2>1. Ids(r.covered) = {}
    BY <1>3 DEF Ids
  <2>2. r.met \in BOOLEAN
    BY <1>3, Zenon
  <2>3. IsResult(r)
    BY <1>3, <2>1, <2>2, RowsOrNone DEF IsResult
  <2>4. QED
    BY <1>3, <2>3 DEF Judges, r, load, declared, deferred, cases
<1>4. CASE load.outcome = "usable" /\ DOMAIN declared # {} /\ r = made
  <2> DEFINE enough == ScorePct(covered, declared, down) >= file.min
             lost   == Stage \ Readable(fs)
             code   == IF lost # {}
                         THEN IF t = "cd" /\ \E s \in lost : fs[s].kind = "absent"
                                THEN "execution_aborted" ELSE "report_malformed"
                       ELSE IF DOMAIN cases = {} THEN "no_tests_executed"
                       ELSE IF WithCaseStatus(cases, "failed") # {} THEN "test_failures"
                       ELSE IF ~enough THEN "partial_adequacy"
                       ELSE "none"
             rows   == IF Tiered(file, t) THEN TestRows(cases) ELSE NoRows
  <2>1. made = Report("evaluated", code = "none", code, declared, covered, deferred, rows)
    BY DEF Evaluated
  <2>2. code = "none" => lost = {} /\ DOMAIN cases # {} /\ WithCaseStatus(cases, "failed") = {} /\ enough
    <3> HIDE DEF enough, lost, cases
    <3>1. QED
      OBVIOUS
  <2>3. lost = {} => Readable(fs) = Stage
    BY DEF Readable
  <2>4. IsFiniteSet(DOMAIN cases)
    BY CasesAreFinite
  <2>5. /\ rows \in [{"failed", "skipped", "passed"} -> Nat]
        /\ rows.failed + rows.skipped + rows.passed <= MaxReported
    <3>1. rows = NoRows \/ \E all : IsFiniteSet(DOMAIN all) /\ rows = TestRows(all)
      BY <2>4
    <3> HIDE DEF rows
    <3>2. QED
      BY <3>1, RowsOrNone
  <2> HIDE DEF code, rows
  <2>6. /\ r.status = "evaluated" /\ r.met = (code = "none") /\ r.declared = declared
        /\ r.covered = covered /\ r.deferred = deferred /\ r.rows = rows
    BY <1>4, <2>1 DEF Report
  <2>7. r.met \in BOOLEAN
    <3>1. (code = "none") \in BOOLEAN
      BY Zenon
    <3>2. QED
      BY <2>6, <3>1, Zenon
  <2>8. Ids(r.covered) \subseteq Ids(r.declared)
    BY <2>6, CoveredIs
  <2>9. IsResult(r)
    <3> HIDE DEF r
    <3>1. QED
      BY <2>5, <2>6, <2>7, <2>8 DEF IsResult
  <2>10. r.met => code = "none"
    BY <2>6, Zenon
  <2>11. r.met => /\ Readable(fs) = Stage /\ DOMAIN cases # {} /\ WithCaseStatus(cases, "failed") = {}
                  /\ ScorePct(r.covered, r.declared, down) >= file.min
    BY <2>2, <2>3, <2>6, <2>10
  <2> HIDE DEF r, load, declared, deferred, cases, covered
  <2>12. QED
    BY <1>4, <2>6, <2>9, <2>11 DEF Judges, load, declared, deferred, cases, covered, r
<1>5. QED
  BY <1>2, <1>3, <1>4

-----------------------------------------------------------------------------
(* The steps of the suite.                                                   *)

LEMMA NothingIsTold ==
  ASSUME NEW fs, fs = NothingWritten
  PROVE  /\ DOMAIN fs = Stage /\ Readable(fs) = {}
         /\ \A s \in Stage : IsFiniteSet(DOMAIN fs[s].tests)
BY NothingWrittenIs

LEMMA NoContractType == NoContract \in ContractFile
<1>1. << >> \in Seq(JourneyEntry) /\ 0 \in Int
  BY EmptySeq
<1>2. NoContract.entries = << >> /\ NoContract.min = 0 /\ NoContract.form = "absent"
      /\ NoContract.framework = "other"
  BY DEF NoContract
<1>3. NoContract = [form |-> NoContract.form, entries |-> NoContract.entries,
                    framework |-> NoContract.framework, min |-> NoContract.min]
  BY DEF NoContract
<1>4. QED
  BY <1>1, <1>2, <1>3 DEF ContractFile

LEMMA RanInit == AdequacyInit => Ran
<1> SUFFICES ASSUME AdequacyInit PROVE Ran
  OBVIOUS
<1>1. /\ contract = NoContract /\ tier = "ci" /\ suite = "waiting" /\ files = NothingWritten
      /\ executed = {} /\ aborted = FALSE
  BY DEF AdequacyInit
<1>2. aborted \in BOOLEAN
  BY <1>1, Zenon
<1>3. QED
  BY <1>1, <1>2, NothingIsTold, NoContractType DEF Ran, EvaluationTier, ToldOf

LEMMA JudgedInit == AdequacyInit => Judged
BY NoReportType DEF AdequacyInit, Judged

LEMMA StartsStep == ASSUME Ran, SuiteStarts PROVE Ran'
<1>1. /\ suite = "waiting" /\ suite' = "running" /\ contract' \in Contracts
      /\ UNCHANGED <<tier, files, executed, aborted>>
      /\ files = NothingWritten /\ executed = {} /\ aborted = FALSE
  BY DEF SuiteStarts, Ran
<1>2. contract' \in ContractFile
  BY <1>1, AdequacyAssumption
<1>3. QED
  BY <1>1, <1>2, NothingIsTold DEF Ran, ToldOf

LEMMA RunStep == ASSUME Ran, RunStage PROVE Ran'
<1>1. PICK s \in NotYetRun : \E tests \in StageTests :
       /\ executed' = executed \cup ToSet(tests)
       /\ \/ /\ \E raw \in [DOMAIN tests -> UNION {Encodings(contract.framework, t) :
                                                     t \in {"passed", "failed", "skipped"}}] :
                  /\ \A i \in DOMAIN tests :
                       raw[i] \in Encodings(contract.framework, tests[i].truth)
                  /\ files' = [files EXCEPT ![s] =
                       [kind |-> "report",
                        tests |-> [i \in DOMAIN tests |->
                                     [raw |-> raw[i], journeys |-> tests[i].journeys]]]]
             /\ UNCHANGED <<suite, aborted>>
          \/ /\ files' = [files EXCEPT ![s] = Malformed]
             /\ suite' = "over" /\ aborted' = TRUE
  BY DEF RunStage
<1>2. PICK tests \in StageTests :
       /\ executed' = executed \cup ToSet(tests)
       /\ \/ /\ \E raw \in [DOMAIN tests -> UNION {Encodings(contract.framework, t) :
                                                     t \in {"passed", "failed", "skipped"}}] :
                  /\ \A i \in DOMAIN tests :
                       raw[i] \in Encodings(contract.framework, tests[i].truth)
                  /\ files' = [files EXCEPT ![s] =
                       [kind |-> "report",
                        tests |-> [i \in DOMAIN tests |->
                                     [raw |-> raw[i], journeys |-> tests[i].journeys]]]]
             /\ UNCHANGED <<suite, aborted>>
          \/ /\ files' = [files EXCEPT ![s] = Malformed]
             /\ suite' = "over" /\ aborted' = TRUE
  BY <1>1
<1>3. /\ suite = "running" /\ aborted = FALSE /\ UNCHANGED <<contract, tier>>
      /\ s \in Stage /\ s \notin Readable(files) /\ DOMAIN files = Stage
      /\ \A x \in Stage : IsFiniteSet(DOMAIN files[x].tests)
      /\ executed \subseteq Test
  BY DEF RunStage, Ran, NotYetRun, Readable, Absent
<1>4. /\ tests \in Seq(Test) /\ DOMAIN tests = 1..Len(tests) /\ IsFiniteSet(DOMAIN tests)
      /\ \A i \in DOMAIN tests : tests[i] \in Test
      /\ ToSet(tests) = {tests[i] : i \in DOMAIN tests}
  <2>1. tests \in Seq(Test)
    BY AdequacyAssumption
  <2>2. Len(tests) \in Nat /\ DOMAIN tests = 1..Len(tests)
    BY <2>1
  <2>3. IsFiniteSet(1..Len(tests))
    BY <2>2, FS_Interval
  <2>4. QED
    BY <2>1, <2>2, <2>3 DEF ToSet
<1>5. executed' \subseteq Test
  BY <1>2, <1>3, <1>4
<1>6. CASE files' = [files EXCEPT ![s] = Malformed] /\ suite' = "over" /\ aborted' = TRUE
  <2>1. /\ DOMAIN files' = Stage /\ files'[s] = Malformed
        /\ \A x \in Stage \ {s} : files'[x] = files[x]
    BY <1>3, <1>6
  <2>2. Readable(files') = Readable(files)
    BY <1>3, <2>1 DEF Readable, Malformed
  <2>3. \A x \in Stage : IsFiniteSet(DOMAIN files'[x].tests)
    BY <1>3, <2>1, FS_EmptySet DEF Malformed
  <2>4. \A x \in Readable(files') : \A i \in DOMAIN files'[x].tests :
          \E t \in executed' : Tells(contract'.framework, files'[x].tests[i], t)
    <3> SUFFICES ASSUME NEW x \in Readable(files), NEW i \in DOMAIN files[x].tests
                 PROVE  \E t \in executed' : Tells(contract'.framework, files'[x].tests[i], t)
      BY <1>3, <2>1, <2>2 DEF Readable
    <3>1. PICK t \in executed : Tells(contract.framework, files[x].tests[i], t)
      BY DEF Ran
    <3>2. Tells(contract'.framework, files'[x].tests[i], t)
      BY <1>3, <2>1, <3>1 DEF Tells, Readable
    <3>3. QED
      BY <1>2, <3>2
  <2>5. aborted' \in BOOLEAN /\ aborted' # FALSE
    BY <1>6, Zenon
  <2>6. Readable(files') # Stage
    BY <1>3, <2>2
  <2>7. QED
    BY <1>3, <1>5, <1>6, <2>1, <2>3, <2>4, <2>5, <2>6 DEF Ran
<1>7. CASE /\ \E raw \in [DOMAIN tests -> UNION {Encodings(contract.framework, t) :
                                                     t \in {"passed", "failed", "skipped"}}] :
                  /\ \A i \in DOMAIN tests :
                       raw[i] \in Encodings(contract.framework, tests[i].truth)
                  /\ files' = [files EXCEPT ![s] =
                       [kind |-> "report",
                        tests |-> [i \in DOMAIN tests |->
                                     [raw |-> raw[i], journeys |-> tests[i].journeys]]]]
           /\ UNCHANGED <<suite, aborted>>
  <2>1. PICK raw :
          /\ \A i \in DOMAIN tests : raw[i] \in Encodings(contract.framework, tests[i].truth)
          /\ files' = [files EXCEPT ![s] =
               [kind |-> "report",
                tests |-> [i \in DOMAIN tests |->
                             [raw |-> raw[i], journeys |-> tests[i].journeys]]]]
    BY <1>7
  <2>2. /\ DOMAIN files' = Stage /\ files'[s].kind = "report"
        /\ DOMAIN files'[s].tests = DOMAIN tests
        /\ \A i \in DOMAIN tests : /\ files'[s].tests[i].raw = raw[i]
                                   /\ files'[s].tests[i].journeys = tests[i].journeys
        /\ \A x \in Stage \ {s} : files'[x] = files[x]
    BY <1>3, <2>1
  <2>3. Readable(files') = Readable(files) \cup {s}
    BY <1>3, <2>2 DEF Readable
  <2>4. \A x \in Stage : IsFiniteSet(DOMAIN files'[x].tests)
    BY <1>3, <1>4, <2>2
  <2>5. \A i \in DOMAIN tests : Tells(contract'.framework, files'[s].tests[i], tests[i])
    BY <1>3, <2>1, <2>2 DEF Tells
  <2>6. ASSUME NEW x \in Readable(files), NEW i \in DOMAIN files[x].tests, NEW t,
               Tells(contract.framework, files[x].tests[i], t)
        PROVE  /\ x \in Readable(files') /\ i \in DOMAIN files'[x].tests
               /\ Tells(contract'.framework, files'[x].tests[i], t)
    <3>1. x # s /\ x \in Stage
      BY <1>3 DEF Readable
    <3>2. QED
      BY <1>3, <2>2, <2>3, <2>6, <3>1 DEF Tells
  <2>7. ASSUME NEW x \in Readable(files'), NEW i \in DOMAIN files'[x].tests
        PROVE  \E t \in executed' : Tells(contract'.framework, files'[x].tests[i], t)
    <3>1. CASE x = s
      <4>1. tests[i] \in executed' /\ Tells(contract'.framework, files'[s].tests[i], tests[i])
        BY <1>2, <1>4, <2>2, <2>5, <2>7, <3>1
      <4>2. QED
        BY <3>1, <4>1
    <3>2. CASE x # s
      <4>1. x \in Readable(files) /\ files'[x] = files[x]
        BY <2>2, <2>3, <3>2 DEF Readable
      <4>2. PICK t \in executed : Tells(contract.framework, files[x].tests[i], t)
        BY <2>7, <4>1 DEF Ran
      <4>3. QED
        BY <1>2, <2>6, <2>7, <4>1, <4>2
    <3>3. QED
      BY <3>1, <3>2
  <2>8. ASSUME NEW t \in executed' PROVE ToldOf(t)'
    <3>1. CASE t \in executed
      <4>1. PICK x \in Readable(files) :
              \E i \in DOMAIN files[x].tests : Tells(contract.framework, files[x].tests[i], t)
        BY <1>3, <3>1 DEF Ran, ToldOf
      <4>2. PICK i \in DOMAIN files[x].tests : Tells(contract.framework, files[x].tests[i], t)
        BY <4>1
      <4>3. QED
        BY <2>6, <4>2 DEF ToldOf
    <3>2. CASE t \notin executed
      <4>1. PICK i \in DOMAIN tests : t = tests[i]
        BY <1>2, <1>4, <3>2
      <4>2. /\ s \in Readable(files') /\ i \in DOMAIN files'[s].tests
            /\ Tells(contract'.framework, files'[s].tests[i], t)
        BY <2>2, <2>3, <2>5, <4>1
      <4>3. QED
        BY <4>2 DEF ToldOf
    <3>3. QED
      BY <3>1, <3>2
  <2>9. suite' = "running" /\ aborted' = FALSE
    BY <1>3, <1>7
  <2>10. aborted' \in BOOLEAN
    BY <2>9, Zenon
  <2>11. QED
    BY <1>3, <1>5, <2>2, <2>4, <2>7, <2>8, <2>9, <2>10 DEF Ran
<1>8. QED
  BY <1>2, <1>6, <1>7

\* A step that changes neither the suite's reports nor what it did.
LEMMA ReportsKept ==
  ASSUME Ran, UNCHANGED <<contract, tier, files, executed>>, aborted' \in BOOLEAN,
         suite' \in {"over", "evaluated"}, aborted' = FALSE => aborted = FALSE,
         Readable(files) = Stage => aborted' = FALSE
  PROVE  Ran'
<1>1. \A s \in Readable(files)' : \A i \in DOMAIN files'[s].tests :
        \E t \in executed' : Tells(contract'.framework, files'[s].tests[i], t)
  BY DEF Ran, Tells
<1>2. aborted' = FALSE => \A t \in executed' : ToldOf(t)'
  BY DEF Ran, ToldOf, Tells
<1>3. QED
  BY <1>1, <1>2 DEF Ran

LEMMA EndsStep == ASSUME Ran, SuiteEnds PROVE Ran'
<1>1. /\ suite = "running" /\ aborted = FALSE /\ suite' = "over" /\ aborted' = (NotYetRun # {})
      /\ UNCHANGED <<contract, tier, files, executed>>
  BY DEF SuiteEnds, Ran
<1>2. Readable(files) = Stage => NotYetRun = {}
  BY DEF Readable, NotYetRun, Absent
<1>3. aborted' \in BOOLEAN /\ (NotYetRun = {} => aborted' = FALSE)
  <2>1. (NotYetRun # {}) \in BOOLEAN /\ (NotYetRun = {} => (NotYetRun # {}) = FALSE)
    BY Zenon
  <2>2. QED
    BY <1>1, <2>1, Zenon
<1>4. QED
  BY <1>1, <1>2, <1>3, ReportsKept

LEMMA VerdictStep == ASSUME Ran, EvaluateTier PROVE Ran'
<1>1. /\ suite = "over" /\ suite' = "evaluated"
      /\ UNCHANGED <<contract, tier, files, executed, aborted>>
  BY DEF EvaluateTier
<1>2. QED
  BY <1>1, ReportsKept DEF Ran

LEMMA DeployStep == ASSUME Ran, Deploy PROVE Ran'
<1>1. /\ tier' = "cd" /\ suite' = "running" /\ files' = NothingWritten /\ executed' = {}
      /\ aborted' = FALSE /\ contract' = contract /\ contract \in ContractFile
  BY DEF Deploy, Ran
<1>2. aborted' \in BOOLEAN
  BY <1>1, Zenon
<1>3. QED
  BY <1>1, <1>2, NothingIsTold DEF Ran, EvaluationTier, ToldOf

\* Whatever an evaluation comes to is a report.
LEMMA EvaluateFields ==
  ASSUME NEW file, NEW t, NEW fs, NEW given, NEW down
  PROVE  DOMAIN Evaluate(file, t, fs, given, down) =
           {"status", "met", "code", "declared", "covered", "deferred", "rows"}
<1> DEFINE fields == {"status", "met", "code", "declared", "covered", "deferred", "rows"}
<1>1. \A deferred : DOMAIN Report("not_configured", FALSE, "not_configured", << >>, << >>,
                                 deferred, NoRows) = fields
  BY DEF Report
<1>2. \A a, b, c : DOMAIN Unavailable(a, b, c) = fields
  BY DEF Unavailable, Report
<1>3. \A declared, deferred : DOMAIN Evaluated(file, t, fs, declared, deferred, down) = fields
  BY DEF Evaluated, Report
<1> HIDE DEF fields
<1>4. DOMAIN Evaluate(file, t, fs, given, down) = fields
  BY <1>1, <1>2, <1>3 DEF Evaluate
<1>5. QED
  BY <1>4 DEF fields

\* The evaluation of a run's own suite.
LEMMA RunIsJudged ==
  ASSUME Ran, NEW given \in BOOLEAN, NEW down \in 0..1, NEW r,
         r = Evaluate(contract, tier, files, given, down)
  PROVE  Judges(r, contract, tier, files, down)
<1>1. /\ contract \in ContractFile /\ tier \in EvaluationTier
      /\ \A s \in Stage : IsFiniteSet(DOMAIN files[s].tests)
  BY DEF Ran
<1>2. Judges(Evaluate(contract, tier, files, given, down), contract, tier, files, down)
  BY <1>1, EvaluateIs
<1>3. QED
  BY <1>2

\* What an evaluated report holds.
LEMMA EvaluatedIs ==
  ASSUME Ran, NEW given \in BOOLEAN, NEW down \in 0..1
  PROVE  Evaluate(contract, tier, files, given, down).status = "evaluated" =>
           /\ LoadContract(contract).outcome = "usable"
           /\ Evaluate(contract, tier, files, given, down).declared
                = Responsible(LoadContract(contract).journeys, tier)
           /\ DOMAIN Responsible(LoadContract(contract).journeys, tier) # {}
           /\ Evaluate(contract, tier, files, given, down).covered
                = Covered(Responsible(LoadContract(contract).journeys, tier),
                          ParsedCases(contract.framework, files))
<1> DEFINE e == Evaluate(contract, tier, files, given, down)
<1>1. Judges(e, contract, tier, files, down)
  BY RunIsJudged
<1> HIDE DEF e
<1>2. QED
  BY <1>1 DEF Judges, e

\* A report that is met meets the contract.
LEMMA MetMeets ==
  ASSUME Ran, NEW given \in BOOLEAN, NEW down \in 0..1, NEW r,
         r = Evaluate(contract, tier, files, given, down), r.met
  PROVE  Meets(r, tier)
<1> DEFINE e == Evaluate(contract, tier, files, given, down)
<1>0. /\ contract \in ContractFile /\ tier \in EvaluationTier
      /\ \A s \in Stage : IsFiniteSet(DOMAIN files[s].tests)
  BY DEF Ran
<1>1. /\ LoadContract(contract).outcome = "usable"
      /\ r.declared = Responsible(LoadContract(contract).journeys, tier) /\ DOMAIN r.declared # {}
      /\ r.covered = Covered(r.declared, ParsedCases(contract.framework, files))
      /\ ScorePct(r.covered, r.declared, down) >= contract.min
  <2>1. e.met => e.status = "evaluated" /\ ScorePct(e.covered, e.declared, down) >= contract.min
    <3>1. Judges(e, contract, tier, files, down)
      BY RunIsJudged
    <3> HIDE DEF e
    <3>2. QED
      BY <3>1 DEF Judges
  <2>2. e.status = "evaluated" =>
          /\ LoadContract(contract).outcome = "usable"
          /\ e.declared = Responsible(LoadContract(contract).journeys, tier)
          /\ DOMAIN Responsible(LoadContract(contract).journeys, tier) # {}
          /\ e.covered = Covered(Responsible(LoadContract(contract).journeys, tier),
                                 ParsedCases(contract.framework, files))
    BY EvaluatedIs
  <2>3. r = e
    OBVIOUS
  <2> HIDE DEF e
  <2>4. e.met
    BY <2>3
  <2>5. QED
    BY <2>1, <2>2, <2>3, <2>4
<1>2. \E places \in SUBSET DOMAIN r.declared : r.covered = Restrict(r.declared, places)
  BY <1>1, CoveredIs
<1>3. QED
  BY <1>1, <1>2 DEF Meets

LEMMA JudgedStep ==
  ASSUME Ran, Judged, AdequacyStep
  PROVE  Judged'
<1>1. CASE SuiteStarts
  <2>1. /\ tier = "ci" /\ tier' = "ci" /\ suite' = "running" /\ result' = NoReport
        /\ attested' = NoReport
    BY <1>1 DEF SuiteStarts, Ran, Judged
  <2>2. QED
    BY <2>1, NoReportType DEF Judged
<1>2. CASE RunStage \/ SuiteEnds
  <2>1. /\ suite = "running" /\ suite' \in {"running", "over"}
        /\ UNCHANGED <<contract, tier, result, attested>>
    BY <1>2 DEF RunStage, SuiteEnds
  <2>2. QED
    BY <2>1 DEF Judged, Meets
<1>3. CASE EvaluateTier
  <2>1. /\ suite' = "evaluated" /\ UNCHANGED <<contract, tier, files, attested>>
        /\ \E given \in BOOLEAN, down \in 0..1 :
             result' = Evaluate(contract, tier, files, given, down)
    BY <1>3 DEF EvaluateTier
  <2>2. \E given \in BOOLEAN, down \in 0..1 :
          result' = Evaluate(contract', tier', files', given, down)
    BY <2>1
  <2>3. attested' = attested /\ (attested.met => Meets(attested, "ci")')
    BY <2>1 DEF Judged, Meets
  <2>4. QED
    BY <2>1, <2>2, <2>3 DEF Judged
<1>4. CASE Deploy
  <2>1. /\ suite = "evaluated" /\ tier = "ci" /\ tier' = "cd" /\ suite' = "running"
        /\ attested' = [result EXCEPT !.rows = NoRows] /\ result' = NoReport
        /\ contract' = contract
    BY <1>4 DEF Deploy
  <2>2. PICK given \in BOOLEAN : \E down \in 0..1 :
          result = Evaluate(contract, tier, files, given, down)
    BY <2>1 DEF Judged
  <2>3. PICK down \in 0..1 : result = Evaluate(contract, tier, files, given, down)
    BY <2>2
  <2>4. DOMAIN result = {"status", "met", "code", "declared", "covered", "deferred", "rows"}
    BY <2>3, EvaluateFields
  <2>5. /\ attested'.status = result.status /\ attested'.met = result.met
        /\ attested'.declared = result.declared /\ attested'.covered = result.covered
        /\ attested'.rows = NoRows
    BY <2>1, <2>4
  <2>6. IsResult(result)
    <3>1. Judges(result, contract, tier, files, down)
      BY <2>3, RunIsJudged
    <3>2. QED
      BY <3>1 DEF Judges
  <2>7. IsResult(attested')
    BY <2>5, <2>6, RowsOrNone DEF IsResult
  <2>8. ASSUME attested'.met PROVE Meets(attested, "ci")'
    <3>1. Meets(result, "ci")
      BY <2>1, <2>3, <2>5, <2>8, MetMeets
    <3>2. QED
      BY <2>1, <2>5, <3>1 DEF Meets
  <2>9. QED
    BY <2>1, <2>7, <2>8 DEF Judged
<1>5. QED
  BY <1>1, <1>2, <1>3, <1>4 DEF AdequacyStep

LEMMA SuiteStep == Ran /\ Judged /\ [EvidenceNext]_evidenceVars => Ran' /\ Judged'
<1> SUFFICES ASSUME Ran, Judged, [EvidenceNext]_evidenceVars PROVE Ran' /\ Judged'
  OBVIOUS
<1>1. CASE AdequacyStep
  <2>1. Ran'
    BY <1>1, StartsStep, RunStep, EndsStep, VerdictStep, DeployStep DEF AdequacyStep
  <2>2. QED
    BY <1>1, <2>1, JudgedStep
<1>2. CASE UNCHANGED adequacyVars
  <2>1. UNCHANGED <<contract, tier, suite, files, executed, aborted, result, attested>>
    BY <1>2 DEF adequacyVars
  <2>2. Ran'
    BY <2>1 DEF Ran, ToldOf
  <2>3. Judged'
    BY <2>1 DEF Judged, Meets
  <2>4. QED
    BY <2>2, <2>3
<1>3. AdequacyStep \/ UNCHANGED adequacyVars
  BY DEF EvidenceNext, Proceed, Meanwhile, Over, InspectAuthor, AuthorInspected, InputsGiven,
         ScansIngested, WalkStarted, DirectoryListed, DependenciesDetected, ControlsEvaluated,
         ControlsEnd, FunctionalStep, EvidenceCollected, evidenceVars
<1>4. QED
  BY <1>1, <1>2, <1>3

LEMMA SuiteInvariant == EvidenceSpec => [](Ran /\ Judged)
<1>1. EvidenceInit => Ran /\ Judged
  BY RanInit, JudgedInit DEF EvidenceInit
<1>2. QED
  BY <1>1, SuiteStep, PTL DEF EvidenceSpec

\* The cases are what the suite executed, but for what was lost.
LEMMA CasesAre ==
  ASSUME Ran
  PROVE  LET cases == ParsedCases(contract.framework, files)
             Alike(c, t) == c.status = t.truth /\ c.journeys = t.journeys
         IN  /\ \A p \in DOMAIN cases : \E t \in executed : Alike(cases[p], t)
             /\ aborted = FALSE => \A t \in executed : \E p \in DOMAIN cases : Alike(cases[p], t)
<1> DEFINE cases == ParsedCases(contract.framework, files)
           Alike(c, t) == c.status = t.truth /\ c.journeys = t.journeys
<1>1. /\ DOMAIN cases = UNION {{s} \X DOMAIN files[s].tests : s \in Readable(files)}
      /\ \A p \in DOMAIN cases :
           /\ cases[p].status = CaseStatus(contract.framework, files[p[1]].tests[p[2]].raw)
           /\ cases[p].journeys = files[p[1]].tests[p[2]].journeys
  BY DEF ParsedCases
<1>2. \A t \in executed : t.truth \in {"passed", "failed", "skipped"}
  BY DEF Ran, Test
<1> HIDE DEF cases
<1>3. ASSUME NEW p \in DOMAIN cases PROVE \E t \in executed : Alike(cases[p], t)
  <2>1. PICK s \in Readable(files) : p \in {s} \X DOMAIN files[s].tests
    BY <1>1
  <2>2. p[1] = s /\ p[2] \in DOMAIN files[s].tests
    BY <2>1
  <2>3. PICK t \in executed : Tells(contract.framework, files[s].tests[p[2]], t)
    BY <2>2 DEF Ran
  <2>4. QED
    BY <1>1, <1>2, <2>2, <2>3, EncodingIsRead DEF Tells
<1>4. ASSUME aborted = FALSE, NEW t \in executed PROVE \E p \in DOMAIN cases : Alike(cases[p], t)
  <2>1. PICK s \in Readable(files) : \E i \in DOMAIN files[s].tests :
               Tells(contract.framework, files[s].tests[i], t)
    BY <1>4 DEF Ran, ToldOf
  <2>2. PICK i \in DOMAIN files[s].tests : Tells(contract.framework, files[s].tests[i], t)
    BY <2>1
  <2>3. <<s, i>> \in DOMAIN cases
    BY <1>1
  <2>4. Alike(cases[<<s, i>>], t)
    BY <1>1, <1>2, <2>2, <2>3, EncodingIsRead DEF Tells
  <2>5. QED
    BY <2>3, <2>4
<1>5. QED
  BY <1>3, <1>4 DEF cases

LEMMA DeclaredAreFinite ==
  ASSUME NEW file \in ContractFile, NEW t
  PROVE  LET declared == Responsible(LoadContract(file).journeys, t)
         IN  /\ IsFiniteSet(DOMAIN declared)
             /\ Cardinality(DOMAIN declared) <= Len(file.entries)
<1> DEFINE declared == Responsible(LoadContract(file).journeys, t)
           n == Len(file.entries)
<1>1. DOMAIN declared \subseteq 1..n /\ n \in Nat
  BY LoadIs DEF Responsible, Restrict
<1> HIDE DEF declared, n
<1>2. IsFiniteSet(1..n) /\ Cardinality(1..n) = n
  BY <1>1, FS_Interval
<1>3. IsFiniteSet(DOMAIN declared) /\ Cardinality(DOMAIN declared) <= n
  BY <1>1, <1>2, FS_Subset
<1>4. QED
  BY <1>3 DEF declared, n

\* What a report credits was passed, and, unless the suite was cut short,
\* nothing tagged with it failed.
LEMMA VerdictIsEarned == Ran /\ Judged => MetIsEarned
<1> SUFFICES ASSUME Ran, Judged PROVE MetIsEarned
  OBVIOUS
<1>1. CASE suite # "evaluated"
  <2>1. result.met = FALSE
    BY <1>1, NoReportType DEF Judged
  <2>2. QED
    BY <1>1, <2>1 DEF MetIsEarned
<1>2. CASE suite = "evaluated"
  <2>1. PICK given \in BOOLEAN : \E down \in 0..1 :
          result = Evaluate(contract, tier, files, given, down)
    BY <1>2 DEF Judged
  <2>2. PICK down \in 0..1 : result = Evaluate(contract, tier, files, given, down)
    BY <2>1
  <2> DEFINE e        == Evaluate(contract, tier, files, given, down)
             declared == Responsible(LoadContract(contract).journeys, tier)
             cases    == ParsedCases(contract.framework, files)
             places   == {i \in DOMAIN declared :
                            declared[i].id \in JourneysWith(cases, "passed")
                                                \ JourneysWith(cases, "failed")}
             proven   == {i \in DOMAIN declared : declared[i].id \in JourneysOf(Came("passed"))}
  <2>3. /\ contract \in ContractFile /\ tier \in EvaluationTier /\ aborted \in BOOLEAN
        /\ \A s \in Stage : IsFiniteSet(DOMAIN files[s].tests)
        /\ Readable(files) = Stage => aborted = FALSE
    BY <1>2 DEF Ran
  <2>4. /\ e.status # "evaluated" => e.met = FALSE /\ e.covered = << >>
        /\ e.status = "evaluated" =>
             e.declared = declared /\ DOMAIN declared # {} /\ e.covered = Covered(declared, cases)
        /\ e.met =>
             /\ e.status = "evaluated"
             /\ Readable(files) = Stage /\ DOMAIN cases # {} /\ WithCaseStatus(cases, "failed") = {}
             /\ ScorePct(e.covered, e.declared, down) >= contract.min
    <3>0. Judges(e, contract, tier, files, down)
      BY RunIsJudged
    <3>1. e.status # "evaluated" => e.met = FALSE /\ e.covered = << >>
      <4> HIDE DEF e
      <4>1. QED
        BY <3>0 DEF Judges
    <3>2. e.status = "evaluated" =>
            e.declared = declared /\ DOMAIN declared # {} /\ e.covered = Covered(declared, cases)
      <4> HIDE DEF e, declared, cases
      <4>1. QED
        BY EvaluatedIs DEF e, declared, cases
    <3>3. e.met =>
            /\ e.status = "evaluated"
            /\ Readable(files) = Stage /\ DOMAIN cases # {} /\ WithCaseStatus(cases, "failed") = {}
            /\ ScorePct(e.covered, e.declared, down) >= contract.min
      <4> HIDE DEF e
      <4>1. QED
        BY <3>0 DEF Judges, cases
    <3> HIDE DEF e, declared, cases
    <3>4. QED
      BY <3>1, <3>2, <3>3
  <2>5. /\ \A p \in DOMAIN cases : \E t \in executed :
             cases[p].status = t.truth /\ cases[p].journeys = t.journeys
        /\ aborted = FALSE => \A t \in executed : \E p \in DOMAIN cases :
             cases[p].status = t.truth /\ cases[p].journeys = t.journeys
    BY CasesAre
  <2>6. Covered(declared, cases) = Restrict(declared, places)
    BY DEF Covered
  <2>7. result = e
    BY <2>2
  <2>8. /\ IsFiniteSet(DOMAIN declared) /\ contract.min \in Int
    BY <2>3, DeclaredAreFinite DEF ContractFile
  <2> HIDE DEF e, declared, cases
  <2>9. JourneysWith(cases, "passed") \subseteq JourneysOf(Came("passed"))
    <3> SUFFICES ASSUME NEW p \in WithCaseStatus(cases, "passed")
                 PROVE  \E t \in Came("passed") : cases[p].journeys = t.journeys
      BY DEF JourneysWith, JourneysOf
    <3>1. QED
      BY <2>5 DEF WithCaseStatus, Came
  <2>10. aborted = FALSE => JourneysOf(Came("failed")) \subseteq JourneysWith(cases, "failed")
    <3> SUFFICES ASSUME aborted = FALSE
                 PROVE  JourneysOf(Came("failed")) \subseteq JourneysWith(cases, "failed")
      OBVIOUS
    <3>1. \A t \in Came("failed") :
            \E p \in WithCaseStatus(cases, "failed") : cases[p].journeys = t.journeys
      BY <2>5 DEF WithCaseStatus, Came
    <3>2. QED
      BY <3>1 DEF JourneysWith, JourneysOf
  <2>11. ASSUME e.met
         PROVE  /\ aborted = FALSE /\ executed # {} /\ Came("failed") = {}
                /\ ScorePct(Restrict(declared, proven), declared, 0) >= contract.min
                /\ e.declared = declared
    <3>1. /\ e.status = "evaluated" /\ e.declared = declared /\ DOMAIN declared # {}
          /\ e.covered = Restrict(declared, places)
          /\ aborted = FALSE /\ DOMAIN cases # {} /\ WithCaseStatus(cases, "failed") = {}
          /\ ScorePct(e.covered, e.declared, down) >= contract.min
      BY <2>3, <2>4, <2>6, <2>11
    <3>2. executed # {}
      BY <2>5, <3>1
    <3>3. Came("failed") = {}
      BY <2>5, <3>1 DEF Came, WithCaseStatus
    <3>4. places \subseteq proven /\ proven \subseteq DOMAIN declared
      BY <2>9
    <3> HIDE DEF places, proven
    <3>5. ScorePct(Restrict(declared, places), declared, down)
            <= ScorePct(Restrict(declared, proven), declared, 0)
      BY <2>8, <3>1, <3>4, ScoreGrows
    <3>6. /\ ScorePct(Restrict(declared, places), declared, down) \in Int
          /\ ScorePct(Restrict(declared, proven), declared, 0) \in Int
      <4>1. IsFiniteSet(places) /\ IsFiniteSet(proven)
        BY <2>8, <3>4, FS_Subset
      <4>2. /\ Cardinality(places) \in Nat /\ Cardinality(proven) \in Nat
            /\ Cardinality(DOMAIN declared) \in Nat /\ Cardinality(DOMAIN declared) # 0
        BY <2>8, <3>1, <4>1, FS_CardinalityType, FS_EmptySet
      <4>3. \A a, n \in Nat, d \in 0..1 : n # 0 => (20000 * a + n - d) \div (2 * n) \in Int
        OBVIOUS
      <4>4. QED
        BY <4>2, <4>3, RestrictIs DEF ScorePct
    <3>7. QED
      BY <2>8, <3>1, <3>2, <3>3, <3>5, <3>6
  <2>12. ASSUME Ids(e.covered) \cap JourneysOf(Came("failed")) # {}
         PROVE  aborted # FALSE /\ ~e.met
    <3>1. e.covered = Covered(declared, cases)
      <4>1. Ids(<< >>) = {}
        BY DEF Ids
      <4>2. QED
        BY <2>4, <2>12, <4>1
    <3>2. PICK id \in Ids(e.covered) : id \in JourneysOf(Came("failed"))
      BY <2>12
    <3>3. id \notin JourneysWith(cases, "failed")
      BY <3>1, <3>2, CoveredIs
    <3>4. aborted # FALSE
      BY <2>10, <3>2, <3>3
    <3>5. QED
      BY <2>11, <3>4
  <2>13. result.met =>
           /\ ~aborted /\ executed # {} /\ Came("failed") = {}
           /\ LET given_proven == {i \in DOMAIN result.declared :
                               result.declared[i].id \in JourneysOf(Came("passed"))}
              IN  ScorePct(Restrict(result.declared, given_proven), result.declared, 0) >= contract.min
    <3> SUFFICES ASSUME result.met
                 PROVE  /\ ~aborted /\ executed # {} /\ Came("failed") = {}
                        /\ LET given_proven == {i \in DOMAIN result.declared :
                                            result.declared[i].id \in JourneysOf(Came("passed"))}
                           IN  ScorePct(Restrict(result.declared, given_proven),
                                        result.declared, 0) >= contract.min
      OBVIOUS
    <3>1. e.met
      BY <2>7
    <3>2. QED
      BY <2>7, <2>11, <3>1
  <2>14. Ids(result.covered) \cap JourneysOf(Came("failed")) # {} => aborted /\ ~result.met
    BY <2>3, <2>7, <2>12
  <2>15. QED
    BY <1>2, <2>13, <2>14 DEF MetIsEarned
<1>3. QED
  BY <1>1, <1>2

\* `met` is earned (evaluate_functional_adequacy): by a suite that was not cut
\* short, without a failure, and by tests that passed, for any contract,
\* number of stages and framework, however the tests are encoded.
THEOREM MetOnlyIfEarned == EvidenceSpec => []MetIsEarned
BY SuiteInvariant, VerdictIsEarned, PTL

\* A report that meets a contract asking for everything covers every journey
\* owed at its tier.
LEMMA AllAreCovered ==
  ASSUME NEW r, NEW t, Ran, Meets(r, t), contract.form = "journeys", contract.min = 10000,
         Len(contract.entries) < 20000, NEW j \in ToSet(contract.entries), j.tier \in {t, "both"}
  PROVE  j.id \in Ids(r.covered)
<1>1. contract \in ContractFile
  BY DEF Ran
<1>2. LoadContract(contract).outcome = "usable" /\ LoadContract(contract).journeys = contract.entries
  BY <1>1, LoadIs DEF Meets
<1> DEFINE declared == Responsible(contract.entries, t)
<1>3. /\ r.declared = declared /\ DOMAIN declared # {}
      /\ IsFiniteSet(DOMAIN declared) /\ Cardinality(DOMAIN declared) <= Len(contract.entries)
  BY <1>1, <1>2, DeclaredAreFinite DEF Meets
<1>4. PICK places \in SUBSET DOMAIN declared : r.covered = Restrict(declared, places)
  BY <1>3 DEF Meets
<1>5. PICK down \in 0..1 : ScorePct(r.covered, declared, down) >= 10000
  BY <1>3 DEF Meets
<1>6. Cardinality(DOMAIN declared) < 20000
  <2>1. Len(contract.entries) \in Nat /\ Cardinality(DOMAIN declared) \in Nat
    BY <1>1, <1>3, LoadIs, FS_CardinalityType
  <2>2. QED
    BY <1>3, <2>1
<1>7. PICK i \in DOMAIN contract.entries : j = contract.entries[i]
  BY DEF ToSet
<1>8. i \in DOMAIN declared /\ declared[i] = j
  BY <1>7 DEF Responsible, Restrict
<1> HIDE DEF declared
<1>9. places = DOMAIN declared
  BY <1>3, <1>4, <1>5, <1>6, ScoreOfAll
<1>10. i \in DOMAIN r.covered /\ r.covered[i] = j
  BY <1>4, <1>8, <1>9, RestrictIs
<1>11. QED
  BY <1>10 DEF Ids

LEMMA TiersAddUp == Ran /\ Judged => NothingFallsBetweenTiers
<1> SUFFICES ASSUME Ran, Judged PROVE NothingFallsBetweenTiers
  OBVIOUS
<1>0. /\ contract \in ContractFile /\ tier \in EvaluationTier
      /\ \A s \in Stage : IsFiniteSet(DOMAIN files[s].tests)
  BY DEF Ran
<1>1. ASSUME suite = "evaluated", result.status = "evaluated", contract.form = "journeys"
      PROVE  Ids(result.declared) \cup Ids(result.deferred) = {e.id : e \in ToSet(contract.entries)}
  <2>1. PICK given \in BOOLEAN : \E down \in 0..1 :
          result = Evaluate(contract, tier, files, given, down)
    BY <1>1 DEF Judged
  <2>2. PICK down \in 0..1 : result = Evaluate(contract, tier, files, given, down)
    BY <2>1
  <2>3. /\ LoadContract(contract).outcome = "usable"
        /\ result.declared = Responsible(LoadContract(contract).journeys, tier)
        /\ result.deferred = Deferred(LoadContract(contract).journeys, tier)
    <3>1. Judges(result, contract, tier, files, down)
      BY <2>2, RunIsJudged
    <3>2. QED
      BY <1>1, <3>1 DEF Judges, Tiered
  <2>4. LoadContract(contract).journeys = contract.entries
    BY <1>0, <1>1, <2>3, LoadIs
  <2> DEFINE entries == contract.entries
             owed == {i \in DOMAIN entries : entries[i].tier \in {tier, "both"}}
             left == {i \in DOMAIN entries : entries[i].tier \notin {tier, "both"}}
  <2>5. /\ Ids(result.declared) = {entries[i].id : i \in owed}
        /\ Ids(result.deferred) = {entries[i].id : i \in left}
    BY <2>3, <2>4 DEF Ids, Responsible, Deferred, Restrict
  <2>6. {e.id : e \in ToSet(entries)} = {entries[i].id : i \in DOMAIN entries}
    BY DEF ToSet
  <2>7. owed \cup left = DOMAIN entries
    OBVIOUS
  <2> HIDE DEF owed, left
  <2>8. QED
    BY <2>5, <2>6, <2>7
<1>2. ASSUME tier = "cd", result.met, attested.met, contract.min = 10000,
             Len(contract.entries) < 20000, NEW j \in ToSet(contract.entries)
      PROVE  /\ j.tier \in {"ci", "both"} => j.id \in Ids(attested.covered)
             /\ j.tier \in {"cd", "both"} => j.id \in Ids(result.covered)
  <2>1. suite = "evaluated"
    BY <1>2, NoReportType DEF Judged
  <2>2. PICK given \in BOOLEAN : \E down \in 0..1 :
          result = Evaluate(contract, tier, files, given, down)
    BY <2>1 DEF Judged
  <2>3. PICK down \in 0..1 : result = Evaluate(contract, tier, files, given, down)
    BY <2>2
  <2>4. Meets(result, "cd") /\ Meets(attested, "ci")
    BY <1>2, <2>3, MetMeets DEF Judged
  <2>5. contract.form = "journeys"
    <3>1. PICK i \in DOMAIN Responsible(LoadContract(contract).journeys, "cd") : TRUE
      BY <2>4 DEF Meets
    <3>2. i \in DOMAIN LoadContract(contract).journeys
          /\ LoadContract(contract).journeys[i].tier \in {"cd", "both"}
      BY <3>1 DEF Responsible, Restrict
    <3>3. CASE contract.form = "absent"
      BY <3>2, <3>3 DEF LoadContract
    <3>4. CASE contract.form \notin {"absent", "journeys"}
      <4>1. LoadContract(contract).journeys = LegacyJourneys(contract.entries).journeys
        BY <3>4 DEF LoadContract
      <4>2. \A k \in DOMAIN LegacyJourneys(contract.entries).journeys :
              LegacyJourneys(contract.entries).journeys[k].tier = "ci"
        BY DEF LegacyJourneys
      <4>3. QED
        BY <3>2, <4>1, <4>2
    <3>5. QED
      BY <3>3, <3>4
  <2>6. QED
    BY <1>2, <2>4, <2>5, AllAreCovered
<1>3. QED
  BY <1>1, <1>2 DEF NothingFallsBetweenTiers

\* Nothing falls between the tiers, for any contract, however often the suite
\* is cut short: what an evaluated report does not owe it defers, and of two
\* that met a contract of fewer than twenty thousand journeys that asks for all
\* of them none is missing.
THEOREM TiersLeaveNothing == EvidenceSpec => []NothingFallsBetweenTiers
BY SuiteInvariant, TiersAddUp, PTL

LEMMA AdequacyTypes == Ran /\ Judged => AdequacyTypeOK
<1> SUFFICES ASSUME Ran, Judged PROVE AdequacyTypeOK
  OBVIOUS
<1>1. IsResult(result)
  <2>1. CASE suite # "evaluated"
    BY <2>1, NoReportType DEF Judged
  <2>2. CASE suite = "evaluated"
    <3>1. PICK given \in BOOLEAN : \E down \in 0..1 :
            result = Evaluate(contract, tier, files, given, down)
      BY <2>2 DEF Judged
    <3>2. PICK down \in 0..1 : result = Evaluate(contract, tier, files, given, down)
      BY <3>1
    <3>3. QED
      <4>1. Judges(result, contract, tier, files, down)
        BY <3>2, RunIsJudged
      <4>2. QED
        BY <4>1 DEF Judges
  <2>3. QED
    BY <2>1, <2>2
<1>2. IsResult(attested)
  BY DEF Judged
<1>3. QED
  BY <1>1, <1>2 DEF Ran, AdequacyTypeOK, IsResult

-----------------------------------------------------------------------------
(* The whole run.                                                            *)

\* The stages follow one another.
StageOK ==
  stage \in {"author", "inputs", "scans", "dependencies", "walk", "controls", "functional",
             "done", "raised"}

LEMMA StageInvariant == EvidenceSpec => []StageOK
<1>1. EvidenceInit => StageOK
  BY DEF EvidenceInit, StageOK
<1>2. StageOK /\ [EvidenceNext]_evidenceVars => StageOK'
  <2> SUFFICES ASSUME StageOK, [EvidenceNext]_evidenceVars PROVE StageOK'
    OBVIOUS
  <2>1. CASE UNCHANGED evidenceVars
    BY <2>1 DEF evidenceVars, StageOK
  <2>2. CASE InspectAuthor \/ AuthorInspected \/ InputsGiven \/ ScansIngested \/ WalkStarted
    BY <2>2 DEF InspectAuthor, AuthorInspected, InputsGiven, ScansIngested, WalkStarted, StageOK
  <2>3. CASE DirectoryListed \/ DependenciesDetected \/ ControlsEvaluated \/ ControlsEnd
    BY <2>3 DEF DirectoryListed, DependenciesDetected, ControlsEvaluated, ControlsEnd, StageOK
  <2>4. CASE FunctionalStep \/ EvidenceCollected \/ Over \/ Meanwhile
    BY <2>4 DEF FunctionalStep, EvidenceCollected, Over, Meanwhile, StageOK, evidenceVars
  <2>5. QED
    BY <2>1, <2>2, <2>3, <2>4 DEF EvidenceNext, Proceed
<1>3. QED
  BY <1>1, <1>2, PTL DEF EvidenceSpec

\* Every variable of a run keeps its type, whatever world the run is in: those
\* of the author's inspection, of the scans, of the dependencies, of the
\* controls and of the functional suite, together.
THEOREM EvidenceTypes == EvidenceSpec => []EvidenceTypeOK
<1>1. EvidenceSpec => []SbomTypeOK
  BY IngestedInvariant, IngestedTypes, PTL
<1>2. EvidenceSpec => []S2C2FTypeOK
  <2>1. ControlsOK => S2C2FTypeOK
    BY DEF ControlsOK
  <2>2. QED
    BY <2>1, ControlsInvariant, PTL
<1>3. EvidenceSpec => []AdequacyTypeOK
  BY SuiteInvariant, AdequacyTypes, PTL
<1>4. TypeOK /\ SbomTypeOK /\ DependencyTypeOK /\ S2C2FTypeOK /\ AdequacyTypeOK /\ StageOK
        => EvidenceTypeOK
  BY DEF EvidenceTypeOK, StageOK
<1>5. QED
  BY <1>1, <1>2, <1>3, <1>4, AuthorTypes, DependencyTypes, StageInvariant, PTL

=============================================================================
