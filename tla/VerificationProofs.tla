------------------------- MODULE VerificationProofs -------------------------
(***************************************************************************)
(* Proofs about one call of `lucid-assay verify`, for any envelopes and    *)
(* flags: what PASSED is worth, and that each flag only takes admissions   *)
(* away.                                                                   *)
(***************************************************************************)
EXTENDS Verification, Induction

\* What EvaluateStatement finds.
ContentViolations ==
  EnvelopeViolations(primary) \cup
    (IF primary.statement = Absent THEN {} ELSE StatementViolations(primary.statement, gate))

\* The files and flags of a call.
Inputs ==
  /\ primary \in Envelope
  /\ slsa \in Envelope \cup {Absent}
  /\ gate \in GateParams
  /\ slsaStatement \in Statement \cup {Absent}

\* The verdict of a finished evaluation is that of AllViolations.
Verdict ==
  /\ identity = IdentityStatus(primary, gate, online)
  /\ violations = AllViolations(primary, slsaStatement, gate, online)
  /\ levels = [source |-> SourceTrack(primary.statement, slsaStatement),
               build |-> BuildTrack(primary.statement, slsaStatement, gate, identity)]
  /\ verdict = VerdictWord(violations # {}, HighestPassingLevel(levels.source),
                           HighestPassingLevel(levels.build))

\* What is known at each stage of a call.
Progress ==
  /\ phase \in {"load", "load_slsa", "statement", "identity", "tracks"} =>
       verdict = Absent /\ stored = Absent /\ exit = Running
  /\ phase = "identity" => violations = ContentViolations
  /\ phase = "tracks" =>
       /\ identity = IdentityStatus(primary, gate, online)
       /\ violations = ContentViolations \cup (IF identity = "failed" THEN {"identity"} ELSE {})
  /\ phase = "report" => Verdict /\ stored = Absent /\ exit = Running
  /\ phase = "done" =>
       \/ verdict = Absent /\ stored = Absent /\ exit = FILE_ERROR
       \/ Verdict /\ stored = Absent /\ exit = FILE_ERROR
       \/ Verdict /\ stored = (IF gate.write THEN verdict ELSE Absent) /\ exit = ExitStatus

IInv == phase \in Phases /\ Inputs /\ Progress

-----------------------------------------------------------------------------
(* The invariant.                                                           *)

LEMMA InitInv == Init => IInv
<1> SUFFICES ASSUME Init PROVE IInv
  OBVIOUS
<1>1. Inputs
  BY InvocationsAssumption DEF Init, Inputs
<1>2. Progress
  BY DEF Init, Progress
<1>3. QED
  BY <1>1, <1>2 DEF Init, IInv, Phases

\* Every step keeps the invariant: one case per step.
LEMMA NextInv == IInv /\ [Next]_vars => IInv'
<1> SUFFICES ASSUME IInv, [Next]_vars PROVE IInv'
  OBVIOUS
<1> USE DEF IInv
<1>1. CASE Load
  BY <1>1 DEF Load, Phases, Inputs, Progress
<1>2. CASE LoadFails
  BY <1>2 DEF LoadFails, Stop, Phases, Inputs, Progress
<1>3. CASE ResolveSlsaStatement
  <2>1. Inputs'
    BY <1>3 DEF ResolveSlsaStatement, Inputs, Envelope
  <2>2. QED
    BY <1>3, <2>1 DEF ResolveSlsaStatement, Phases, Progress
<1>4. CASE EvaluateStatement
  BY <1>4 DEF EvaluateStatement, Phases, Inputs, Progress, ContentViolations
<1>5. CASE VerifyIdentity
  <2>1. Inputs' /\ phase' \in Phases
    BY <1>5 DEF VerifyIdentity, Inputs, Phases
  <2>2. ContentViolations' = ContentViolations
    BY <1>5 DEF VerifyIdentity, ContentViolations
  <2>3. QED
    BY <1>5, <2>1, <2>2 DEF VerifyIdentity, Progress
<1>6. CASE EvaluateTracks
  <2>1. Inputs' /\ phase' \in Phases
    BY <1>6 DEF EvaluateTracks, Inputs, Phases
  <2>2. identity' = IdentityStatus(primary, gate, online)
    BY <1>6 DEF EvaluateTracks, Progress
  <2>3. levels'.build = BuildTrack(primary.statement, slsaStatement, gate, identity)
    BY <1>6 DEF EvaluateTracks
  <2>4. violations' = AllViolations(primary, slsaStatement, gate, online)
    <3>1. violations = ContentViolations \cup (IF identity = "failed" THEN {"identity"} ELSE {})
      BY <1>6 DEF EvaluateTracks, Progress
    <3>2. violations' = violations \cup
            (IF gate.buildL3 /\ ~CumulativeTrackStatus(levels'.build)[3] THEN {"build_l3"} ELSE {})
      BY <1>6 DEF EvaluateTracks
    <3>3. identity = IdentityStatus(primary, gate, online)
      BY <1>6, <2>2 DEF EvaluateTracks
    <3>4. QED
      BY <2>3, <3>1, <3>2, <3>3 DEF AllViolations, ContentViolations
  <2>5. Verdict'
    BY <1>6, <2>2, <2>4 DEF EvaluateTracks, Verdict
  <2>6. QED
    BY <1>6, <2>1, <2>5 DEF EvaluateTracks, Progress
<1>7. CASE Report
  <2>1. Inputs' /\ phase' \in Phases
    BY <1>7 DEF Report, Stop, Inputs, Phases
  <2>2. Verdict' /\ ExitStatus' = ExitStatus
    BY <1>7 DEF Report, Stop, Progress, Verdict, ExitStatus
  <2>3. QED
    BY <1>7, <2>1, <2>2 DEF Report, Stop, Progress
<1>8. CASE WriteFails
  <2>1. Inputs' /\ phase' \in Phases
    BY <1>8 DEF WriteFails, Stop, Inputs, Phases
  <2>2. Verdict'
    BY <1>8 DEF WriteFails, Stop, Progress, Verdict
  <2>3. QED
    BY <1>8, <2>1, <2>2 DEF WriteFails, Stop, Progress
<1>9. CASE UNCHANGED vars
  BY <1>9 DEF vars, Inputs, Progress, Verdict, ContentViolations, ExitStatus
<1>10. QED
  BY <1>1, <1>2, <1>3, <1>4, <1>5, <1>6, <1>7, <1>8, <1>9 DEF Next, Done

LEMMA SpecInv == Spec => []IInv
<1>1. Init => IInv
  BY InitInv
<1>2. IInv /\ [Next]_vars => IInv'
  BY NextInv
<1>3. QED
  BY <1>1, <1>2, PTL DEF Spec

\* A word that was said comes from a finished evaluation.
LEMMA JudgedVerdict == IInv /\ Judged => Verdict /\ Inputs
  BY AbsentAssumption DEF IInv, Judged, Progress, Phases

-----------------------------------------------------------------------------
(* Levels.                                                                  *)

\* The highest passing level is where the levels that pass stop passing.
LEMMA HighestIsFirstGap ==
  ASSUME NEW N \in Nat, NEW levels0 \in [1..N -> BOOLEAN]
  PROVE  /\ HighestPassingLevel(levels0) \in 0..N
         /\ \A n \in 1..HighestPassingLevel(levels0) : levels0[n]
         /\ HighestPassingLevel(levels0) < N => ~levels0[HighestPassingLevel(levels0) + 1]
<1> DEFINE S == {n \in DOMAIN levels0 : CumulativeTrackStatus(levels0)[n]}
           F == {n \in 1..N : ~levels0[n]}
<1>1. HighestPassingLevel(levels0) = Cardinality(S)
  BY DEF HighestPassingLevel
<1>2. \A n \in 1..N : n \in S <=> \A k \in 1..n : levels0[k]
  BY DEF CumulativeTrackStatus
<1>3. S \subseteq 1..N
  OBVIOUS
<1>4. CASE F = {}
  <2>1. S = 1..N
    BY <1>2, <1>3, <1>4
  <2>2. Cardinality(S) = N
    <3>1. Cardinality(1..N) = N
      BY FS_Interval
    <3>2. QED
      BY <2>1, <3>1
  <2>3. \A n \in 1..N : levels0[n]
    BY <1>4
  <2> HIDE DEF S, F
  <2>4. HighestPassingLevel(levels0) = N
    BY <1>1, <2>2
  <2>5. QED
    BY <2>3, <2>4
<1>5. CASE F # {}
  <2>1. F \in SUBSET Nat
    OBVIOUS
  <2>2. PICK m \in F : \A n \in F : m <= n
    <3> HIDE DEF F
    <3>1. QED
      BY <1>5, <2>1, Least
  <2>3. m \in 1..N /\ ~levels0[m] /\ \A k \in 1..(m - 1) : levels0[k]
    BY <2>2
  <2>4. S = 1..(m - 1)
    BY <1>2, <1>3, <2>3
  <2>5. Cardinality(S) = m - 1
    <3>1. Cardinality(1..(m - 1)) = m - 1
      BY <2>3, FS_Interval
    <3>2. QED
      BY <2>4, <3>1
  <2> HIDE DEF S, F
  <2>6. HighestPassingLevel(levels0) = m - 1 /\ (m - 1) + 1 = m
    BY <1>1, <2>3, <2>5
  <2>7. QED
    BY <2>3, <2>6
<1>6. QED
  BY <1>4, <1>5

\* A track that reaches its level n passed every level up to n.
LEMMA HighestIsAll ==
  ASSUME NEW N \in Nat, NEW levels0 \in [1..N -> BOOLEAN],
         HighestPassingLevel(levels0) >= N
  PROVE  \A n \in 1..N : levels0[n]
<1>1. HighestPassingLevel(levels0) = N
  BY HighestIsFirstGap
<1>2. QED
  BY <1>1, HighestIsFirstGap

\* Sequences of three and of four truth values, taken apart.
LEMMA Triple ==
  ASSUME NEW a \in BOOLEAN, NEW b \in BOOLEAN, NEW c \in BOOLEAN
  PROVE  /\ <<a, b, c>> \in Track(3)
         /\ <<a, b, c>>[1] = a /\ <<a, b, c>>[2] = b /\ <<a, b, c>>[3] = c
  BY DEF Track

LEMMA Quadruple ==
  ASSUME NEW a \in BOOLEAN, NEW b \in BOOLEAN, NEW c \in BOOLEAN, NEW d \in BOOLEAN
  PROVE  /\ <<a, b, c, d>> \in Track(4)
         /\ <<a, b, c, d>>[1] = a /\ <<a, b, c, d>>[2] = b
         /\ <<a, b, c, d>>[3] = c /\ <<a, b, c, d>>[4] = d
  BY DEF Track

\* The four checklists of the Source track, level by level.
LEMMA SourceLevelsAre ==
  ASSUME NEW s \in Statement
  PROVE  /\ SourceLevels(s) \in Track(4)
         /\ SourceLevels(s)[3] => s.vcs.author = "linked"
         /\ SourceLevels(s)[4] => TwoPartyReview(s.rules)
<1>1. /\ s.vcs.named \in BOOLEAN /\ VerifiedHistory(s.vcs) \in BOOLEAN
      /\ (s.vcs.author = "linked") \in BOOLEAN /\ TwoPartyReview(s.rules) \in BOOLEAN
  BY DEF Statement, Vcs, VerifiedHistory, TwoPartyReview
<1>2. QED
  BY <1>1, Quadruple DEF SourceLevels

\* The checklists are tracks of four and of three levels.
LEMMA TrackTypes ==
  ASSUME IInv
  PROVE  /\ SourceTrack(primary.statement, slsaStatement) \in Track(4)
         /\ BuildTrack(primary.statement, slsaStatement, gate, identity) \in Track(3)
<1> DEFINE second == slsaStatement
           s == AssayStatement(OrEmpty(primary.statement), second)
           b == BuildStatement(OrEmpty(primary.statement), second)
<1>1. EmptyStatement \in Statement
  BY DEF EmptyStatement, Statement, PredicateType, ScoreBlock, Vcs, BranchRules, Build
<1>2. OrEmpty(primary.statement) \in Statement
  BY <1>1 DEF OrEmpty, IInv, Inputs, Envelope
<1>3. s \in Statement /\ b \in Statement
  BY <1>2 DEF IInv, Inputs, AssayStatement, BuildStatement
<1>4. SourceLevels(s) \in Track(4)
  BY <1>3, SourceLevelsAre
<1>5. BuildLevels(b, identity, gate.certIdentity, gate.expected["repository"]) \in Track(3)
  BY <1>3, Triple DEF BuildLevels, Statement, Build, IsolatedGeneration, SourceBound
<1>6. QED
  BY <1>4, <1>5 DEF SourceTrack, BuildTrack

-----------------------------------------------------------------------------
(* What an admission and PASSED are worth.                                  *)

\* An evaluation that found nothing looked at an assay statement.
LEMMA CleanIsAssay ==
  ASSUME IInv, Judged, violations = {}
  PROVE  /\ primary.statement \in Statement
         /\ primary.statement.type = "assay"
         /\ OrEmpty(primary.statement) = primary.statement
<1>1. Verdict /\ Inputs
  BY JudgedVerdict
<1>2. "payload" \notin EnvelopeViolations(primary)
  BY <1>1 DEF Verdict, AllViolations
<1>3. primary.statement # Absent
  BY <1>2 DEF EnvelopeViolations
<1>4. "predicate_type" \notin StatementViolations(primary.statement, gate)
  BY <1>1, <1>3 DEF Verdict, AllViolations
<1>5. primary.statement.type = "assay"
  BY <1>4 DEF StatementViolations
<1>6. QED
  BY <1>1, <1>3, <1>5 DEF Inputs, Envelope, OrEmpty

\* The source levels reported with an admission are those of the statement the
\* gates looked at (_classify_statements).
THEOREM AdmittedAssessed == Spec => []AdmittedIsAssessed
<1>1. IInv => AdmittedIsAssessed
  <2> SUFFICES ASSUME IInv, Judged, violations = {}
               PROVE  levels.source = SourceLevels(primary.statement)
    BY DEF AdmittedIsAssessed
  <2>1. levels.source = SourceTrack(primary.statement, slsaStatement)
    BY JudgedVerdict DEF Verdict
  <2>2. AssayStatement(OrEmpty(primary.statement), slsaStatement) = primary.statement
    BY CleanIsAssay DEF AssayStatement
  <2>3. QED
    BY <2>1, <2>2 DEF SourceTrack
<1>2. QED
  BY SpecInv, <1>1, PTL

\* PASSED is said only of a change with both statements, a signature that holds
\* and a signer that is the builder (_slsa_check_isolated_provenance_generation).
THEOREM PassedWitnessed == Spec => []PassedIsWitnessed
<1>1. IInv => PassedIsWitnessed
  <2> SUFFICES ASSUME IInv, verdict = "PASSED"
               PROVE  PassedIsWitnessed
    BY DEF PassedIsWitnessed
  <2> DEFINE s == primary.statement
             b == BuildStatement(s, slsaStatement)
  <2>1. Judged /\ Verdict /\ Inputs
    BY JudgedVerdict DEF Judged
  <2>2. /\ violations = {}
        /\ HighestPassingLevel(levels.source) >= 4
        /\ HighestPassingLevel(levels.build) >= 3
    BY <2>1 DEF Verdict, VerdictWord
  <2>3. s \in Statement /\ s.type = "assay" /\ OrEmpty(s) = s
    BY <2>1, <2>2, CleanIsAssay
  <2>4. s # Absent
    <3>1. "payload" \notin EnvelopeViolations(primary)
      BY <2>1, <2>2 DEF Verdict, AllViolations
    <3>2. QED
      BY <3>1 DEF EnvelopeViolations
  <2>5. levels.source \in Track(4) /\ levels.build \in Track(3)
    BY <2>1, TrackTypes DEF Verdict
  <2>6. \A n \in 1..4 : levels.source[n]
    BY <2>2, <2>5, HighestIsAll DEF Track
  <2>7. \A n \in 1..3 : levels.build[n]
    BY <2>2, <2>5, HighestIsAll DEF Track
  <2>8. levels.source = SourceLevels(s)
    BY <2>1, <2>2, <2>3 DEF Verdict, SourceTrack, AssayStatement
  <2>9. s.vcs.author = "linked" /\ TwoPartyReview(s.rules)
    BY <2>3, <2>6, <2>8, SourceLevelsAre
  <2>10. s.rules.approvals \in Nat \ {0}
    BY <2>3, <2>9 DEF TwoPartyReview, Statement, BranchRules
  <2>11. levels.build = BuildLevels(b, identity, gate.certIdentity, gate.expected["repository"])
    BY <2>1, <2>3 DEF Verdict, BuildTrack
  <2>12. /\ b.type = "slsa"
         /\ identity = "verified"
         /\ b.build.builder \in ControlPlaneBuilders
         /\ IsolatedGeneration(b.build, identity, gate.certIdentity)
    BY <2>7, <2>11 DEF BuildLevels
  <2>13. slsaStatement # Absent /\ b = slsaStatement
    BY <2>3, <2>12 DEF BuildStatement
  <2>14. /\ primary.signature = "signed" /\ primary.genuine
         /\ PolicyHolds(primary.certificate, gate)
    BY <2>1, <2>12 DEF Verdict, IdentityStatus
  <2>15. primary.certificate.identity.workflow = slsaStatement.build.builder
    BY <2>12, <2>13, <2>14 DEF IsolatedGeneration, PolicyHolds
  <2>16. QED
    BY <2>3, <2>4, <2>9, <2>10, <2>12, <2>13, <2>14, <2>15 DEF PassedIsWitnessed
<1>2. QED
  BY SpecInv, <1>1, PTL

\* The level the banner names as the missing one failed its own checks and all
\* below it passed; none is named only when nothing is missing
\* (_format_verdict_banner).
THEOREM GapIsReal == Spec => []NamedGapIsReal
<1>1. IInv => NamedGapIsReal
  <2> SUFFICES ASSUME IInv, Judged PROVE NamedGapIsReal
    BY DEF NamedGapIsReal
  <2> DEFINE src == HighestPassingLevel(levels.source)
             bld == HighestPassingLevel(levels.build)
             gap == IncompleteLevel(src, bld)
  <2>1. levels.source \in Track(4) /\ levels.build \in Track(3)
    BY JudgedVerdict, TrackTypes DEF Verdict
  <2>2. /\ src \in 0..4 /\ \A n \in 1..src : levels.source[n]
        /\ src < 4 => ~levels.source[src + 1]
    BY <2>1, HighestIsFirstGap DEF Track
  <2>3. /\ bld \in 0..3 /\ \A n \in 1..bld : levels.build[n]
        /\ bld < 3 => ~levels.build[bld + 1]
    BY <2>1, HighestIsFirstGap DEF Track
  <2>4. DOMAIN levels.source = 1..4 /\ DOMAIN levels.build = 1..3
    BY <2>1 DEF Track
  <2> HIDE DEF src, bld
  <2>5. CASE bld < 3
    <3>1. gap = <<"Build", bld + 1>> /\ gap[1] = "Build" /\ gap[2] = bld + 1
      BY <2>5 DEF IncompleteLevel
    <3>2. gap # Absent
      <4>1. <<"Build", bld + 1>> \in {"Source", "Build"} \X (1..4)
        BY <2>3, <2>5
      <4>2. QED
        BY <3>1, <4>1, AbsentAssumption
    <3>3. bld + 1 \in 1..3 /\ (bld + 1) - 1 = bld
      BY <2>3, <2>5
    <3>4. QED
      BY <2>3, <2>4, <2>5, <3>1, <3>2, <3>3 DEF NamedGapIsReal, src, bld
  <2>6. CASE ~(bld < 3) /\ src < 4
    <3>1. gap = <<"Source", src + 1>> /\ gap[1] = "Source" /\ gap[2] = src + 1
      BY <2>6 DEF IncompleteLevel
    <3>2. gap # Absent
      <4>1. <<"Source", src + 1>> \in {"Source", "Build"} \X (1..4)
        BY <2>2, <2>6
      <4>2. QED
        BY <3>1, <4>1, AbsentAssumption
    <3>3. src + 1 \in 1..4 /\ (src + 1) - 1 = src
      BY <2>2, <2>6
    <3>4. QED
      BY <2>2, <2>4, <2>6, <3>1, <3>2, <3>3 DEF NamedGapIsReal, src, bld
  <2>7. CASE ~(bld < 3) /\ ~(src < 4)
    <3>1. gap = Absent
      BY <2>7 DEF IncompleteLevel
    <3>2. src = 4 /\ bld = 3
      BY <2>2, <2>3, <2>7
    <3>3. \A n \in 1..4 : levels.source[n] /\ (n <= 3 => levels.build[n])
      BY <2>2, <2>3, <3>2
    <3>4. QED
      BY <3>1, <3>3 DEF NamedGapIsReal, src, bld
  <2>8. QED
    BY <2>5, <2>6, <2>7
<1>2. QED
  BY SpecInv, <1>1, PTL

\* Exit status 0 means admitted, and on record where that was asked for.
THEOREM ExitZeroRecorded == Spec => []ExitZeroIsOnRecord
<1>1. IInv => ExitZeroIsOnRecord
  <2> SUFFICES ASSUME IInv PROVE ExitZeroIsOnRecord
    OBVIOUS
  <2>1. CASE phase # "done"
    BY <2>1, AbsentAssumption
       DEF IInv, Phases, Progress, ExitZeroIsOnRecord, PASS, Running
  <2>2. CASE phase = "done"
    BY <2>2, AbsentAssumption
       DEF IInv, Progress, Verdict, VerdictWord, ExitStatus, ExitZeroIsOnRecord, PASS,
           FILE_ERROR, POLICY_VIOLATION
  <2>3. QED
    BY <2>1, <2>2
<1>2. QED
  BY SpecInv, <1>1, PTL

-----------------------------------------------------------------------------
(* Demands.                                                                 *)

\* Flags g ask for no more than flags f do, except for a signer, which they
\* must then ask for alike where Build Level 3 is at stake.
Weaker(g, f) ==
  /\ g.minRcs <= f.minRcs
  /\ g.digest \in {f.digest, NoDigest}
  /\ g.strict => f.strict
  /\ g.commitSigning => f.commitSigning
  /\ g.mutationScore => f.mutationScore
  /\ g.buildL3 => f.buildL3 /\ g.dryRun = f.dryRun /\ g.certIdentity = f.certIdentity
  /\ f.dryRun => g.dryRun
  /\ g.expected["repository"] \in {f.expected["repository"], Absent}
  /\ \A cert \in Certificate : PolicyHolds(cert, f) => PolicyHolds(cert, g)

LEMMA RelaxationsAreWeaker ==
  ASSUME NEW f \in GateParams, NEW g \in Relaxations(f)
  PROVE  g \in GateParams /\ Weaker(g, f)
<1>1. CASE g \in {[f EXCEPT !.minRcs = 0], [f EXCEPT !.digest = NoDigest],
                  [f EXCEPT !.strict = FALSE], [f EXCEPT !.commitSigning = FALSE],
                  [f EXCEPT !.mutationScore = FALSE], [f EXCEPT !.buildL3 = FALSE]}
  <2>1. g \in GateParams
    <3>1. CASE g = [f EXCEPT !.minRcs = 0]
      BY <3>1 DEF GateParams
    <3>2. CASE g = [f EXCEPT !.digest = NoDigest]
      BY <3>2 DEF GateParams
    <3>3. CASE g = [f EXCEPT !.strict = FALSE]
      BY <3>3 DEF GateParams
    <3>4. CASE g = [f EXCEPT !.commitSigning = FALSE]
      BY <3>4 DEF GateParams
    <3>5. CASE g = [f EXCEPT !.mutationScore = FALSE]
      BY <3>5 DEF GateParams
    <3>6. CASE g = [f EXCEPT !.buildL3 = FALSE]
      BY <3>6 DEF GateParams
    <3>7. QED
      BY <1>1, <3>1, <3>2, <3>3, <3>4, <3>5, <3>6
  <2>2. /\ g.certIdentity = f.certIdentity /\ g.certIssuer = f.certIssuer
        /\ g.expectedIssuer = f.expectedIssuer /\ g.expected = f.expected
    BY <1>1 DEF GateParams
  <2>3. \A cert \in Certificate : PolicyHolds(cert, f) => PolicyHolds(cert, g)
    BY <2>2 DEF PolicyHolds, ResolvedIssuer, Asserts
  <2>4. QED
    BY <1>1, <2>1, <2>2, <2>3 DEF GateParams, Weaker
<1>2. CASE \E c \in Claim : g = [f EXCEPT !.expected[c] = Absent]
  <2> PICK c \in Claim : g = [f EXCEPT !.expected[c] = Absent]
    BY <1>2
  <2>1. g \in GateParams
    BY DEF GateParams
  <2>2. /\ g.certIdentity = f.certIdentity /\ g.certIssuer = f.certIssuer
        /\ g.expectedIssuer = f.expectedIssuer
        /\ \A d \in Claim : g.expected[d] = (IF d = c THEN Absent ELSE f.expected[d])
    BY DEF GateParams
  <2>3. \A d \in Claim : Asserts(g, d) => Asserts(f, d) /\ g.expected[d] = f.expected[d]
    BY <2>2 DEF Asserts
  <2>4. ResolvedIssuer(g) \in {ResolvedIssuer(f), Absent}
    BY <2>2, <2>3 DEF ResolvedIssuer
  <2>5. \A cert \in Certificate : PolicyHolds(cert, f) => PolicyHolds(cert, g)
    BY <2>2, <2>3, <2>4 DEF PolicyHolds
  <2>6. g.expected["repository"] \in {f.expected["repository"], Absent}
    BY <2>2 DEF Claim
  <2>7. QED
    BY <2>1, <2>2, <2>5, <2>6 DEF GateParams, Weaker
<1>3. CASE /\ g = [f EXCEPT !.expectedIssuer = Absent, !.certIssuer = Absent]
           /\ ~ \E c \in Claim : Asserts(f, c)
  <2>1. g \in GateParams
    BY <1>3 DEF GateParams
  <2>2. /\ g.certIdentity = f.certIdentity /\ g.expected = f.expected
        /\ g.expectedIssuer = Absent /\ g.certIssuer = Absent
    BY <1>3 DEF GateParams
  <2>3. ResolvedIssuer(g) = Absent
    BY <1>3, <2>2 DEF ResolvedIssuer, Asserts
  <2>4. \A cert \in Certificate : PolicyHolds(cert, f) => PolicyHolds(cert, g)
    BY <2>2, <2>3 DEF PolicyHolds, Asserts
  <2>5. QED
    BY <1>3, <2>1, <2>2, <2>4 DEF GateParams, Weaker
<1>4. CASE g \in {[f EXCEPT !.certIdentity = Absent], [f EXCEPT !.dryRun = TRUE]} /\ ~f.buildL3
  <2>1. g \in GateParams
    BY <1>4 DEF GateParams
  <2>2. /\ g.certIdentity \in {f.certIdentity, Absent} /\ g.certIssuer = f.certIssuer
        /\ g.expectedIssuer = f.expectedIssuer /\ g.expected = f.expected
    BY <1>4 DEF GateParams
  <2>3. \A cert \in Certificate : PolicyHolds(cert, f) => PolicyHolds(cert, g)
    BY <2>2 DEF PolicyHolds, ResolvedIssuer, Asserts
  <2>4. QED
    BY <1>4, <2>1, <2>2, <2>3 DEF GateParams, Weaker
<1>5. QED
  BY <1>1, <1>2, <1>3, <1>4 DEF Relaxations

\* What passes the flags f passes flags that ask for less.
LEMMA WeakerAdmits ==
  ASSUME NEW env \in Envelope, NEW second, NEW reachable,
         NEW f \in GateParams, NEW g \in GateParams, Weaker(g, f),
         AllViolations(env, second, f, reachable) = {}
  PROVE  AllViolations(env, second, g, reachable) = {}
<1> DEFINE statusF == IdentityStatus(env, f, reachable)
           statusG == IdentityStatus(env, g, reachable)
<1>1. EnvelopeViolations(env) = {}
  BY DEF AllViolations
<1>2. env.statement # Absent => StatementViolations(env.statement, g) = {}
  <2> SUFFICES ASSUME env.statement # Absent PROVE StatementViolations(env.statement, g) = {}
    OBVIOUS
  <2>1. StatementViolations(env.statement, f) = {}
    BY DEF AllViolations
  <2>2. env.statement \in Statement
    BY DEF Envelope
  <2>3. ScoreViolations(env.statement.score, g) = {}
    <3>1. ScoreViolations(env.statement.score, f) = {}
      BY <2>1 DEF StatementViolations
    <3>2. env.statement.score \in ScoreBlock
      BY <2>2 DEF Statement
    <3>3. env.statement.score.value # Malformed /\ env.statement.score.value >= f.minRcs
      BY <3>1, <3>2 DEF ScoreViolations, ScoreBlock, GateParams
    <3>4. env.statement.score.value >= g.minRcs
      BY <3>2, <3>3 DEF Weaker, ScoreBlock, GateParams
    <3>5. QED
      BY <3>1, <3>2, <3>3, <3>4 DEF ScoreViolations, ScoreBlock, Weaker, GateParams
  <2>4. QED
    BY <2>1, <2>3 DEF StatementViolations, Weaker
<1>3. statusF # "failed"
  BY DEF AllViolations
<1>4. statusG # "failed" /\ (g.buildL3 /\ statusF = "verified" => statusG = "verified")
  BY <1>3 DEF IdentityStatus, Weaker, Envelope, GateParams
<1>5. g.buildL3 => CumulativeTrackStatus(BuildTrack(env.statement, second, g, statusG))[3]
  <2> SUFFICES ASSUME g.buildL3
               PROVE  CumulativeTrackStatus(BuildTrack(env.statement, second, g, statusG))[3]
    OBVIOUS
  <2> DEFINE b == BuildStatement(OrEmpty(env.statement), second)
             lf == BuildTrack(env.statement, second, f, statusF)
             lg == BuildTrack(env.statement, second, g, statusG)
  <2>1. CumulativeTrackStatus(lf)[3]
    BY DEF AllViolations, Weaker
  <2>2. DOMAIN lf = 1..3 /\ DOMAIN lg = 1..3
    BY DEF BuildTrack, BuildLevels
  <2>3. lf[1] /\ lf[2] /\ lf[3]
    BY <2>1, <2>2 DEF CumulativeTrackStatus
  <2>4. statusF = "verified"
    BY <2>3 DEF BuildTrack, BuildLevels
  <2>5. lg[1] /\ lg[2] /\ lg[3]
    BY <1>4, <2>3, <2>4 DEF BuildTrack, BuildLevels, SourceBound, IsolatedGeneration, Weaker
  <2>6. QED
    BY <2>2, <2>5 DEF CumulativeTrackStatus
<1>6. QED
  BY <1>1, <1>2, <1>4, <1>5 DEF AllViolations

\* Each flag only takes admissions away (_build_identity_policy: "Every asserted
\* claim is AND-ed together").
THEOREM DemandsAreMonotone == Spec => []MoreDemandsNeverAdmitMore
<1>1. IInv => MoreDemandsNeverAdmitMore
  <2> SUFFICES ASSUME IInv, Judged, violations = {}, NEW g \in Relaxations(gate)
               PROVE  AllViolations(primary, slsaStatement, g, online) = {}
    BY DEF MoreDemandsNeverAdmitMore
  <2>1. Verdict /\ Inputs
    BY JudgedVerdict
  <2>2. gate \in GateParams /\ g \in GateParams /\ Weaker(g, gate)
    BY <2>1, RelaxationsAreWeaker DEF Inputs
  <2>3. primary \in Envelope /\ AllViolations(primary, slsaStatement, gate, online) = {}
    BY <2>1 DEF Verdict, Inputs
  <2>4. QED
    BY <2>2, <2>3, WeakerAdmits
<1>2. QED
  BY SpecInv, <1>1, PTL

-----------------------------------------------------------------------------
(* Types.                                                                   *)

LEMMA NextType == IInv /\ TypeOK /\ [Next]_vars => TypeOK'
<1> SUFFICES ASSUME IInv, TypeOK, [Next]_vars PROVE TypeOK'
  OBVIOUS
<1> USE DEF TypeOK
<1>1. CASE Load
  BY <1>1 DEF Load, Phases
<1>2. CASE LoadFails
  BY <1>2 DEF LoadFails, Stop, Phases
<1>3. CASE ResolveSlsaStatement
  <2>1. slsaStatement' \in Statement \cup {Absent}
    BY <1>3 DEF ResolveSlsaStatement, Envelope
  <2>2. QED
    BY <1>3, <2>1 DEF ResolveSlsaStatement, Phases
<1>4. CASE EvaluateStatement
  BY <1>4 DEF EvaluateStatement, Phases, EnvelopeViolations, StatementViolations, ScoreViolations
<1>5. CASE VerifyIdentity
  BY <1>5 DEF VerifyIdentity, Phases, IdentityStatus
<1>6. CASE EvaluateTracks
  <2>1. levels' \in [source : Track(4) \cup {<< >>}, build : Track(3) \cup {<< >>}]
    BY <1>6, TrackTypes DEF EvaluateTracks
  <2>2. verdict' \in {"FAILED", "GATED", "PASSED", Absent}
    BY <1>6 DEF EvaluateTracks, VerdictWord
  <2>3. QED
    BY <1>6, <2>1, <2>2 DEF EvaluateTracks, Phases
<1>7. CASE Report
  BY <1>7 DEF Report, Stop, Phases, ExitStatus
<1>8. CASE WriteFails
  BY <1>8 DEF WriteFails, Stop, Phases
<1>9. CASE UNCHANGED vars
  BY <1>9 DEF vars
<1>10. QED
  BY <1>1, <1>2, <1>3, <1>4, <1>5, <1>6, <1>7, <1>8, <1>9 DEF Next, Done

\* Every variable of a call stays in its type, for any files and flags.
THEOREM VerificationTypeCorrect == Spec => []TypeOK
<1>1. Init => IInv /\ TypeOK
  <2> SUFFICES ASSUME Init PROVE TypeOK
    BY InitInv
  <2>1. Inputs
    BY InitInv DEF IInv
  <2>2. QED
    BY <2>1 DEF Init, TypeOK, Inputs, Phases
<1>2. IInv /\ TypeOK /\ [Next]_vars => (IInv /\ TypeOK)'
  BY NextInv, NextType
<1>3. QED
  BY <1>1, <1>2, PTL DEF Spec
=============================================================================
