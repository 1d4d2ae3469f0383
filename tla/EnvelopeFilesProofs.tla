------------------------- MODULE EnvelopeFilesProofs -------------------------
(***************************************************************************)
(* Theorems of EnvelopeFiles, for every set of companions, any number of   *)
(* verifications at once and any number of runs.                           *)
(***************************************************************************)
EXTENDS EnvelopeFiles, SequenceTheorems, TLAPS

LEMMA CompanionsType ==
  /\ Companions \in Seq({"slsa", "sbom", "sarif"}) /\ Len(Companions) \in 0..3
<1>1. PICK n \in 0..3 : Companions = SubSeq(<<"slsa", "sbom", "sarif">>, 1, n)
  BY EnvelopeFilesAssumption
<1>2. <<"slsa", "sbom", "sarif">> \in Seq({"slsa", "sbom", "sarif"})
      /\ Len(<<"slsa", "sbom", "sarif">>) = 3
  OBVIOUS
<1>3. n = 0 \/ (1 \in 1..3 /\ n \in 1..3)
  BY <1>1
<1>4. CASE n = 0
  <2>1. Companions = << >>
    BY <1>1, <1>4
  <2>2. QED
    BY <2>1
<1>5. CASE n \in 1..3
  BY <1>1, <1>2, <1>5, SubSeqProperties
<1>6. QED
  BY <1>3, <1>4, <1>5

LEMMA OrderType ==
  /\ DOMAIN SigningOrder = 1..(Len(Companions) + 1)
  /\ SigningOrder[1] = "primary" /\ "primary" \in Kind
  /\ \A n \in DOMAIN SigningOrder : SigningOrder[n] \in Kind
<1>1. /\ <<"primary">> \in Seq({"primary", "slsa", "sbom", "sarif"}) /\ Len(<<"primary">>) = 1
      /\ Companions \in Seq({"primary", "slsa", "sbom", "sarif"}) /\ Len(Companions) \in 0..3
      /\ <<"primary">>[1] = "primary"
  BY CompanionsType
<1>2. /\ Len(SigningOrder) = 1 + Len(Companions)
      /\ SigningOrder \in Seq({"primary", "slsa", "sbom", "sarif"})
      /\ SigningOrder[1] = "primary"
  BY <1>1, ConcatProperties DEF SigningOrder
<1>3. DOMAIN SigningOrder = 1..(Len(Companions) + 1)
  BY <1>1, <1>2
<1>4. QED
  BY <1>1, <1>2, <1>3 DEF Kind

\* There is a first one of the statements still to be signed.
LEMMA NextToSignType ==
  ASSUME todo \subseteq Kind, todo # {}
  PROVE  NextToSign \in todo
<1> DEFINE T == {n \in DOMAIN SigningOrder : SigningOrder[n] \in todo}
<1>1. T \subseteq 1..4
  <2>1. DOMAIN SigningOrder \subseteq 1..4
    <3>1. Len(Companions) \in Nat /\ Len(Companions) + 1 <= 4
      <4>1. Len(Companions) \in 0..3
        BY CompanionsType, Zenon
      <4>2. \A n \in 0..3 : n \in Nat /\ n + 1 <= 4
        OBVIOUS
      <4>3. QED
        BY <4>1, <4>2, Zenon
    <3>2. DOMAIN SigningOrder = 1..(Len(Companions) + 1)
      BY OrderType
    <3>3. QED
      BY <3>1, <3>2
  <2>2. QED
    BY <2>1
<1>2. T # {}
  <2>1. PICK k \in todo : TRUE
    OBVIOUS
  <2>2. \E n \in DOMAIN SigningOrder : SigningOrder[n] = k
    BY <2>1 DEF Kind
  <2>3. QED
    BY <2>1, <2>2
<1>3. \E n \in T : \A m \in 1..(n - 1) : m \notin T
  <2> HIDE DEF T
  <2>1. CASE 1 \in T
    BY <2>1
  <2>2. CASE 1 \notin T /\ 2 \in T
    BY <2>2
  <2>3. CASE 1 \notin T /\ 2 \notin T /\ 3 \in T
    BY <2>3
  <2>4. CASE 1 \notin T /\ 2 \notin T /\ 3 \notin T
    <3>1. PICK n \in T : n \in 1..4
      BY <1>1, <1>2
    <3>2. n = 4
      BY <2>4, <3>1
    <3>3. QED
      BY <2>4, <3>1, <3>2
  <2>5. QED
    BY <2>1, <2>2, <2>3, <2>4
<1>4. \E n \in DOMAIN SigningOrder :
        /\ SigningOrder[n] \in todo
        /\ \A m \in 1..(n - 1) : SigningOrder[m] \notin todo
  <2>1. PICK n \in T : \A m \in 1..(n - 1) : m \notin T
    BY <1>3
  <2>2. \A m \in 1..(n - 1) : m \in DOMAIN SigningOrder
    BY OrderType, CompanionsType
  <2>3. QED
    BY <2>1, <2>2
<1>5. QED
  BY <1>4 DEF NextToSign

-----------------------------------------------------------------------------
(* Types, and where a run is while it signs.                                *)

LEMMA FileTypes ==
  /\ Absent \in File /\ Torn \in File
  /\ \A r \in 0..MaxRuns : Whole(r) \in File
  /\ \A f \in File : WithVerdict(f) \in File
<1>1. MaxRuns \in Nat
  BY EnvelopeFilesAssumption
<1>2. QED
  BY <1>1 DEF Absent, Torn, Whole, WithVerdict, File

Signing == {"token", "sign", "store"}
Annotating == {"load", "annotate", "annotating", "gate"}

\* What a run has written and signed so far.
Progress ==
  /\ "primary" \in emitted \/ pc = "idle"
  /\ todo \subseteq emitted
  /\ pc \in Signing \cup Annotating =>
       /\ signing
       /\ \A k \in emitted : statement[k] = Whole(run)
  /\ pc \in Signing => todo # {}
  /\ pc \in {"idle", "write"} \cup Annotating => attempts = 0 /\ todo = {}
  /\ pc = "token" => attempts < MaxAttempts
  /\ pc = "store" => NextToSign = "primary" /\ newest = run
  /\ pc # "idle" => exit = "none"

LEMMA TypeInit == Init => TypeOK /\ Progress
<1> SUFFICES ASSUME Init PROVE TypeOK /\ Progress
  OBVIOUS
<1>1. MaxRuns \in Nat /\ MaxAttempts \in Nat
  BY EnvelopeFilesAssumption
<1>2. TypeOK
  <2>1. statement \in [Kind -> File] /\ envelope \in [Kind -> File] /\ held \in [Process -> File]
    BY FileTypes DEF Init
  <2>2. /\ run \in 0..MaxRuns /\ newest \in 0..MaxRuns /\ attempts \in 0..MaxAttempts
    BY <1>1 DEF Init
  <2>3. /\ verifier \in [Verifier -> {"idle", "loaded", "writing"}]
        /\ writers \subseteq Process /\ emitted \subseteq Kind /\ todo \subseteq Kind
    BY DEF Init
  <2>4. QED
    BY <2>1, <2>2, <2>3 DEF Init, TypeOK
<1>3. Progress
  BY DEF Init, Progress, Signing, Annotating
<1>4. QED
  BY <1>2, <1>3

\* A rewrite of the score's envelope touches no other file.
LEMMA RewriteTypes ==
  ASSUME TypeOK, NEW p \in Process, NEW contents \in File,
         OpenForWriting(p) \/ Close(p, contents) \/ Drop(p)
  PROVE  /\ envelope' \in [Kind -> File]
         /\ writers' \subseteq Process /\ mixed' \in BOOLEAN
         /\ \A k \in Kind \ {"primary"} : envelope'[k] = envelope[k]
<1>1. mixed' \in BOOLEAN
  BY DEF OpenForWriting, Close, Drop
<1>2. QED
  BY <1>1, FileTypes, OrderType DEF TypeOK, OpenForWriting, Close, Drop

LEMMA EndsTypes ==
  ASSUME TypeOK, NEW status \in {"pass", "fail"}, Ends(status)
  PROVE  /\ pc' = "idle" /\ exit' = status /\ todo' = {} /\ attempts' = 0
         /\ held' \in [Process -> File]
BY FileTypes DEF TypeOK, Ends

-----------------------------------------------------------------------------
LEMMA SameNext ==
  ASSUME todo' = todo
  PROVE  NextToSign' = NextToSign
BY DEF NextToSign

LEMMA SignedTypes ==
  ASSUME TypeOK, Progress, todo # {}, Signed
  PROVE  /\ todo' \subseteq todo /\ todo' \subseteq Kind
         /\ attempts' = 0 /\ held' = held /\ exit' = exit
         /\ pc' \in {"load", "token"} /\ (pc' = "load" <=> todo' = {})
BY DEF TypeOK, Signed

\* What a step of a run does not touch: everything of the verifiers.
LEMMA RunTypeStep ==
  ASSUME TypeOK, Progress, RunStep
  PROVE  TypeOK' /\ Progress'
<1> USE FileTypes, OrderType, EnvelopeFilesAssumption
<1>1. CASE WriteStatements
  <2>1. statement' \in [Kind -> File]
    BY <1>1 DEF WriteStatements, TypeOK
  <2>2. TypeOK'
    BY <1>1, <2>1, EndsTypes DEF WriteStatements, TypeOK, primaryFile, options, history
  <2>3. Progress'
    BY <1>1, EndsTypes DEF WriteStatements, TypeOK, Progress, Signing, Annotating, primaryFile, options, history
  <2>4. QED
    BY <2>2, <2>3
<1>2. CASE WriteStatementFails
  <2>1. statement' \in [Kind -> File]
    BY <1>2 DEF WriteStatementFails, TypeOK
  <2>2. TypeOK'
    BY <1>2, <2>1, EndsTypes DEF WriteStatementFails, TypeOK, primaryFile, options, history
  <2>3. Progress'
    BY <1>2, EndsTypes DEF WriteStatementFails, TypeOK, Progress, Signing, Annotating, primaryFile, options, history
  <2>4. QED
    BY <2>2, <2>3
<1>3. CASE GetToken
  BY <1>3 DEF GetToken, TypeOK, Progress, Signing, Annotating, primaryFile, options, history
<1>4. CASE GetTokenFails
  <2>1. TypeOK'
    BY <1>4, EndsTypes DEF GetTokenFails, TypeOK, primaryFile, options, history
  <2>2. Progress'
    BY <1>4, EndsTypes DEF GetTokenFails, TypeOK, Progress, Signing, Annotating, primaryFile, options, history
  <2>3. QED
    BY <2>1, <2>2
<1>5. CASE SigningFails
  BY <1>5, EndsTypes DEF SigningFails, TypeOK, Progress, Signing, Annotating, primaryFile, options, history
<1>6. CASE SignPrimary
  <2>1. TypeOK'
    BY <1>6, RewriteTypes DEF SignPrimary, TypeOK, Process, options, locals
  <2>2. Progress'
    BY <1>6, SameNext DEF SignPrimary, TypeOK, Progress, Signing, Annotating, options, locals
  <2>3. QED
    BY <2>1, <2>2
<1>7. CASE StorePrimary
  <2>1. statement["primary"] \in File
    BY DEF TypeOK
  <2>2. todo # {}
    BY <1>7 DEF StorePrimary, Progress, Signing
  <2>3. TypeOK'
    BY <1>7, <2>1, <2>2, RewriteTypes, SignedTypes DEF StorePrimary, TypeOK, Process, options, history
  <2>4. Progress'
    BY <1>7, <2>2, SignedTypes DEF StorePrimary, TypeOK, Progress, Signing, Annotating, options, history
  <2>5. QED
    BY <2>3, <2>4
<1>8. CASE StorePrimaryFails
  <2>1. TypeOK'
    BY <1>8, RewriteTypes, EndsTypes DEF StorePrimaryFails, TypeOK, Process, options, history
  <2>2. Progress'
    BY <1>8, EndsTypes DEF StorePrimaryFails, TypeOK, Progress, Signing, Annotating, options, history
  <2>3. QED
    BY <2>1, <2>2
<1>9. CASE SignCompanion
  <2>1. todo # {} /\ NextToSign \in Kind
    BY <1>9, NextToSignType DEF SignCompanion, Progress, Signing, TypeOK
  <2>2. envelope' \in [Kind -> File]
    BY <1>9, <2>1 DEF SignCompanion, TypeOK
  <2>3. TypeOK'
    BY <1>9, <2>1, <2>2, SignedTypes DEF SignCompanion, TypeOK, options, history
  <2>4. Progress'
    BY <1>9, <2>1, SignedTypes DEF SignCompanion, TypeOK, Progress, Signing, Annotating, options, history
  <2>5. QED
    BY <2>3, <2>4
<1>10. CASE StoreCompanionFails
  <2>1. todo # {} /\ NextToSign \in Kind
    BY <1>10, NextToSignType DEF StoreCompanionFails, Progress, Signing, TypeOK
  <2>2. envelope' \in [Kind -> File]
    BY <1>10, <2>1 DEF StoreCompanionFails, TypeOK
  <2>3. TypeOK'
    BY <1>10, <2>2, EndsTypes DEF StoreCompanionFails, TypeOK, options, history
  <2>4. Progress'
    BY <1>10, EndsTypes DEF StoreCompanionFails, TypeOK, Progress, Signing, Annotating, options, history
  <2>5. QED
    BY <2>3, <2>4
<1>11. CASE LoadOwnEnvelope
  BY <1>11 DEF LoadOwnEnvelope, TypeOK, Progress, Signing, Annotating, primaryFile, options, history
<1>12. CASE Annotate
  <2>1. TypeOK'
    BY <1>12, RewriteTypes DEF Annotate, TypeOK, Process, options, locals, history
  <2>2. Progress'
    BY <1>12 DEF Annotate, TypeOK, Progress, Signing, Annotating, options, locals, history
  <2>3. QED
    BY <2>1, <2>2
<1>13. CASE VerdictAnnotated
  <2>1. WithVerdict(held["run"]) \in File
    BY DEF TypeOK, Process
  <2>2. TypeOK'
    BY <1>13, <2>1, RewriteTypes DEF VerdictAnnotated, TypeOK, Process, options, locals, history
  <2>3. Progress'
    BY <1>13 DEF VerdictAnnotated, TypeOK, Progress, Signing, Annotating, options, locals, history
  <2>4. QED
    BY <2>2, <2>3
<1>14. CASE AnnotateFails
  <2>1. TypeOK'
    BY <1>14, RewriteTypes DEF AnnotateFails, TypeOK, Process, options, locals, history
  <2>2. Progress'
    BY <1>14 DEF AnnotateFails, TypeOK, Progress, Signing, Annotating, options, locals, history
  <2>3. QED
    BY <2>1, <2>2
<1>15. CASE GateExit
  <2>1. TypeOK'
    BY <1>15, EndsTypes DEF GateExit, TypeOK, primaryFile, options, history
  <2>2. Progress'
    BY <1>15, EndsTypes DEF GateExit, TypeOK, Progress, Signing, Annotating, primaryFile, options, history
  <2>3. QED
    BY <2>1, <2>2
<1>16. QED
  BY <1>1, <1>2, <1>3, <1>4, <1>5, <1>6, <1>7, <1>8, <1>9, <1>10, <1>11, <1>12, <1>13, <1>14,
     <1>15 DEF RunStep

LEMMA VerifyTypeStep ==
  ASSUME TypeOK, Progress, NEW v \in Verifier,
         VerifyLoads(v) \/ VerifyOpens(v) \/ VerifyWrites(v) \/ VerifyFails(v)
  PROVE  TypeOK' /\ Progress'
<1> USE FileTypes, OrderType
<1>1. verifier' \in [Verifier -> {"idle", "loaded", "writing"}]
  BY DEF VerifyLoads, VerifyOpens, VerifyWrites, VerifyFails, Moves, TypeOK
<1>2. held' \in [Process -> File]
  BY DEF VerifyLoads, VerifyOpens, VerifyWrites, VerifyFails, TypeOK
<1>3. v \in Process /\ WithVerdict(held[v]) \in File
  BY DEF TypeOK, Process
<1>4. envelope' \in [Kind -> File] /\ writers' \subseteq Process /\ mixed' \in BOOLEAN
  BY <1>3, RewriteTypes
     DEF VerifyLoads, VerifyOpens, VerifyWrites, VerifyFails, primaryFile, TypeOK
<1>5. UNCHANGED <<runState, history>>
  BY DEF VerifyLoads, VerifyOpens, VerifyWrites, VerifyFails
<1>6. TypeOK'
  BY <1>1, <1>2, <1>4, <1>5 DEF TypeOK, runState, options, history
<1>7. Progress'
  BY <1>5, SameNext DEF Progress, Signing, Annotating, runState, options, history
<1>8. QED
  BY <1>6, <1>7

LEMMA TypeStep == TypeOK /\ Progress /\ [Next]_vars => TypeOK' /\ Progress'
<1> SUFFICES ASSUME TypeOK, Progress, [Next]_vars PROVE TypeOK' /\ Progress'
  OBVIOUS
<1>1. CASE StartRun
  <2>1. TypeOK'
    BY <1>1, EnvelopeFilesAssumption DEF StartRun, TypeOK, locals, primaryFile, history
  <2>2. Progress'
    BY <1>1 DEF StartRun, Progress, TypeOK, Signing, Annotating, locals, primaryFile, history
  <2>3. QED
    BY <2>1, <2>2
<1>2. CASE Killed
  <2>1. TypeOK'
    <3>1. "run" \in Process /\ Torn \in File /\ Drop("run") /\ Ends("fail")
      BY <1>2, FileTypes DEF Killed, Process
    <3>2. envelope' \in [Kind -> File] /\ writers' \subseteq Process /\ mixed' \in BOOLEAN
      BY <3>1, RewriteTypes
    <3>3. /\ pc' = "idle" /\ exit' = "fail" /\ todo' = {} /\ attempts' = 0
          /\ held' \in [Process -> File]
      BY <3>1, EndsTypes
    <3>4. 0 \in 0..MaxAttempts
      BY EnvelopeFilesAssumption
    <3>5. QED
      BY <1>2, <3>2, <3>3, <3>4 DEF Killed, TypeOK, options, history
  <2>2. Progress'
    <3>1. pc' = "idle" /\ todo' = {} /\ attempts' = 0
      BY <1>2, EndsTypes DEF Killed
    <3>2. QED
      BY <3>1 DEF Progress, Signing, Annotating
  <2>3. QED
    BY <2>1, <2>2
<1>3. CASE UNCHANGED vars
  BY <1>3, SameNext DEF vars, TypeOK, Progress, Signing, Annotating
<1>4. QED
  BY <1>1, <1>2, <1>3, RunTypeStep, VerifyTypeStep DEF Next, Verify, Done

\* The type invariant, with the place a run has reached: what is still to be
\* signed is of its statements, and those are on disk.
THEOREM TypeCorrect == Spec => [](TypeOK /\ Progress)
<1>1. Init => TypeOK /\ Progress
  BY TypeInit
<1>2. TypeOK /\ Progress /\ [Next]_vars => TypeOK' /\ Progress'
  BY TypeStep
<1>3. QED
  BY <1>1, <1>2, PTL DEF Spec

-----------------------------------------------------------------------------
(* Whose verdict an envelope carries.                                       *)

OwnVerdicts ==
  /\ \A k \in Kind : statement[k].verdictOn = 0
  /\ \A k \in Kind : envelope[k].verdictOn \in {0, envelope[k].run}
  /\ \A p \in Process : held[p].verdictOn \in {0, held[p].run}

LEMMA OwnVerdictFiles ==
  /\ Absent.verdictOn = 0 /\ Torn.verdictOn = 0
  /\ \A r \in 0..MaxRuns : Whole(r).verdictOn = 0
  /\ \A f \in File : WithVerdict(f).verdictOn = WithVerdict(f).run
BY DEF Absent, Torn, Whole, WithVerdict, File

LEMMA RewriteVerdicts ==
  ASSUME TypeOK, OwnVerdicts, NEW p \in Process, NEW contents \in File,
         contents.verdictOn \in {0, contents.run},
         OpenForWriting(p) \/ Close(p, contents) \/ Drop(p)
  PROVE  \A k \in Kind : envelope'[k].verdictOn \in {0, envelope'[k].run}
BY OwnVerdictFiles, OrderType DEF TypeOK, OwnVerdicts, OpenForWriting, Close, Drop

LEMMA OwnVerdictsStep ==
  TypeOK /\ Progress /\ OwnVerdicts /\ [Next]_vars => OwnVerdicts'
<1> SUFFICES ASSUME TypeOK, Progress, OwnVerdicts, [Next]_vars PROVE OwnVerdicts'
  OBVIOUS
<1> USE OwnVerdictFiles, OrderType
<1>1. \A k \in Kind : statement'[k].verdictOn = 0
  BY DEF Next, RunStep, Verify, vars, OwnVerdicts, TypeOK, StartRun, WriteStatements,
     WriteStatementFails, GetToken, GetTokenFails, SigningFails, SignPrimary, StorePrimary,
     StorePrimaryFails, SignCompanion, StoreCompanionFails, LoadOwnEnvelope, Annotate,
     VerdictAnnotated, AnnotateFails, GateExit, Killed, VerifyLoads, VerifyOpens, VerifyWrites,
     VerifyFails, runState, Done
<1>2. \A p \in Process : held'[p].verdictOn \in {0, held'[p].run}
  BY DEF Next, RunStep, Verify, vars, OwnVerdicts, TypeOK, Process, StartRun, WriteStatements,
     WriteStatementFails, GetToken, GetTokenFails, SigningFails, SignPrimary, StorePrimary,
     StorePrimaryFails, SignCompanion, StoreCompanionFails, LoadOwnEnvelope, Annotate,
     VerdictAnnotated, AnnotateFails, GateExit, Killed, VerifyLoads, VerifyOpens, VerifyWrites,
     VerifyFails, Ends, Signed, locals, Done
<1>3. \A k \in Kind : envelope'[k].verdictOn \in {0, envelope'[k].run}
  <2>1. /\ "run" \in Process /\ statement["primary"] \in File /\ Torn \in File
        /\ Torn.verdictOn \in {0, Torn.run}
        /\ statement["primary"].verdictOn = 0
        /\ WithVerdict(held["run"]) \in File
        /\ WithVerdict(held["run"]).verdictOn = WithVerdict(held["run"]).run
    BY FileTypes DEF TypeOK, OwnVerdicts, Process
  <2>2. ASSUME OpenForWriting("run") \/ Drop("run")
        PROVE  \A k \in Kind : envelope'[k].verdictOn \in {0, envelope'[k].run}
    BY <2>1, <2>2, RewriteVerdicts
  <2>3. CASE StorePrimary
    BY <2>1, <2>3, RewriteVerdicts DEF StorePrimary
  <2>4. CASE VerdictAnnotated
    BY <2>1, <2>4, RewriteVerdicts DEF VerdictAnnotated
  <2>5. CASE SignCompanion \/ StoreCompanionFails
    <3>1. \A k \in Kind : envelope'[k] \in {envelope[k], statement[k], Torn}
      BY <2>5 DEF SignCompanion, StoreCompanionFails, TypeOK
    <3>2. QED
      BY <3>1 DEF OwnVerdicts
  <2>6. CASE SignPrimary \/ StorePrimaryFails \/ Annotate \/ AnnotateFails \/ Killed
    BY <2>2, <2>6 DEF SignPrimary, StorePrimaryFails, Annotate, AnnotateFails, Killed
  <2>7. ASSUME NEW v \in Verifier,
               VerifyOpens(v) \/ VerifyWrites(v) \/ VerifyFails(v)
        PROVE  \A k \in Kind : envelope'[k].verdictOn \in {0, envelope'[k].run}
    <3>1. /\ v \in Process /\ WithVerdict(held[v]) \in File
          /\ WithVerdict(held[v]).verdictOn = WithVerdict(held[v]).run
      BY FileTypes DEF TypeOK, Process
    <3>2. OpenForWriting(v) \/ Drop(v) \/ Close(v, WithVerdict(held[v]))
      BY <2>7 DEF VerifyOpens, VerifyWrites, VerifyFails
    <3>3. QED
      BY <2>1, <3>1, <3>2, RewriteVerdicts
  <2>8. CASE UNCHANGED envelope
    BY <2>8 DEF OwnVerdicts
  <2>9. QED
    BY <2>3, <2>4, <2>5, <2>6, <2>7, <2>8
       DEF Next, RunStep, Verify, vars, StartRun, WriteStatements, WriteStatementFails, GetToken,
       GetTokenFails, SigningFails, LoadOwnEnvelope, GateExit, VerifyLoads, primaryFile, Done
<1>4. QED
  BY <1>1, <1>2, <1>3 DEF OwnVerdicts

\* No envelope ever carries a verdict on another payload than its own.
THEOREM VerdictsAreOwn == Spec => []VerdictOnOwnPayload
<1>1. Init => OwnVerdicts
  BY OwnVerdictFiles DEF Init, OwnVerdicts
<1>2. OwnVerdicts => VerdictOnOwnPayload
  BY DEF OwnVerdicts, VerdictOnOwnPayload
<1>3. QED
  BY <1>1, <1>2, TypeCorrect, OwnVerdictsStep, PTL DEF Spec

-----------------------------------------------------------------------------
(* Companions.                                                              *)

\* The companions a run has signed so far are stored as they were signed.
SignedCompanions ==
  \/ pc \in Signing \cup Annotating
  \/ pc = "idle" /\ exit = "pass" /\ signing
  => \A k \in emitted \ (todo \cup {"primary"}) : envelope[k] = Whole(run)

LEMMA RewriteElsewhere ==
  ASSUME TypeOK, NEW p \in Process, NEW contents,
         OpenForWriting(p) \/ Close(p, contents) \/ Drop(p)
  PROVE  \A k \in Kind \ {"primary"} : envelope'[k] = envelope[k]
BY OrderType DEF TypeOK, OpenForWriting, Close, Drop

LEMMA SignedCompanionsStep ==
  TypeOK /\ Progress /\ SignedCompanions /\ [Next]_vars => SignedCompanions'
<1> SUFFICES ASSUME TypeOK, Progress, SignedCompanions, [Next]_vars PROVE SignedCompanions'
  OBVIOUS
<1>1. emitted \subseteq Kind /\ "run" \in Process
  BY DEF TypeOK, Process
<1>2. CASE StartRun
  BY <1>2 DEF StartRun, SignedCompanions, Signing, Annotating
<1>3. CASE WriteStatements
  BY <1>3 DEF WriteStatements, Ends, SignedCompanions, Signing, Annotating, options
<1>4. CASE WriteStatementFails \/ SigningFails \/ StorePrimaryFails \/ StoreCompanionFails \/ Killed
  BY <1>4 DEF WriteStatementFails, SigningFails, StorePrimaryFails, StoreCompanionFails, Killed,
     Ends, SignedCompanions, Signing, Annotating
<1>5. CASE GetToken \/ LoadOwnEnvelope
  BY <1>5 DEF GetToken, LoadOwnEnvelope, SignedCompanions, Signing, Annotating, options,
     primaryFile
<1>6. CASE GetTokenFails
  BY <1>6 DEF GetTokenFails, Ends, SignedCompanions, Signing, Annotating, options, primaryFile
<1>7. CASE SignPrimary \/ Annotate \/ VerdictAnnotated \/ AnnotateFails
  <2>1. \A k \in Kind \ {"primary"} : envelope'[k] = envelope[k]
    BY <1>1, <1>7, RewriteElsewhere DEF SignPrimary, Annotate, VerdictAnnotated, AnnotateFails
  <2>2. /\ UNCHANGED <<emitted, run, todo>>
        /\ pc \in Signing \cup Annotating
    BY <1>7 DEF SignPrimary, Annotate, VerdictAnnotated, AnnotateFails, options, locals, Signing,
       Annotating
  <2>3. QED
    BY <1>1, <2>1, <2>2 DEF SignedCompanions
<1>8. CASE StorePrimary
  <2>1. \A k \in Kind \ {"primary"} : envelope'[k] = envelope[k]
    BY <1>1, <1>8, RewriteElsewhere DEF StorePrimary
  <2>2. UNCHANGED <<emitted, run>> /\ todo' = todo \ {"primary"} /\ pc \in Signing
    BY <1>8 DEF StorePrimary, Signed, options, Signing, Progress
  <2>3. QED
    BY <1>1, <2>1, <2>2 DEF SignedCompanions
<1>9. CASE SignCompanion
  <2>1. todo # {} /\ todo \subseteq Kind /\ pc \in Signing
    BY <1>9 DEF SignCompanion, Progress, Signing, TypeOK
  <2>2. NextToSign \in todo
    BY <2>1, NextToSignType
  <2>3. statement[NextToSign] = Whole(run)
    BY <2>1, <2>2 DEF Progress
  <2>4. UNCHANGED <<emitted, run>> /\ todo' = todo \ {NextToSign}
    BY <1>9 DEF SignCompanion, Signed, options
  <2>5. envelope' = [envelope EXCEPT ![NextToSign] = Whole(run)]
    BY <1>9, <2>3 DEF SignCompanion
  <2>6. envelope \in [Kind -> File]
    BY DEF TypeOK
  <2>7. QED
    BY <1>1, <2>1, <2>2, <2>4, <2>5, <2>6 DEF SignedCompanions
<1>10. CASE GateExit
  <2>1. todo = {} /\ pc \in Annotating
    BY <1>10 DEF GateExit, Progress, Annotating
  <2>2. UNCHANGED <<emitted, run, envelope>>
    BY <1>10 DEF GateExit, options, primaryFile
  <2>3. QED
    BY <2>1, <2>2 DEF SignedCompanions
<1>11. ASSUME NEW v \in Verifier,
              VerifyLoads(v) \/ VerifyOpens(v) \/ VerifyWrites(v) \/ VerifyFails(v)
       PROVE  SignedCompanions'
  <2>1. \A k \in Kind \ {"primary"} : envelope'[k] = envelope[k]
    BY <1>11, RewriteElsewhere
       DEF VerifyLoads, VerifyOpens, VerifyWrites, VerifyFails, Process, primaryFile
  <2>2. UNCHANGED <<emitted, run, todo, pc, exit, signing>>
    BY <1>11 DEF VerifyLoads, VerifyOpens, VerifyWrites, VerifyFails, runState, options
  <2>3. QED
    BY <1>1, <2>1, <2>2 DEF SignedCompanions
<1>12. CASE UNCHANGED vars
  BY <1>12 DEF vars, SignedCompanions
<1>13. QED
  BY <1>2, <1>3, <1>4, <1>5, <1>6, <1>7, <1>8, <1>9, <1>10, <1>11, <1>12
     DEF Next, RunStep, Verify, Done

\* A run that signs and passes leaves each companion it wrote signed, and
\* signed by itself.
THEOREM CompanionsAreOfThisRun == Spec => []CompanionsOfThisRun
<1>1. Init => SignedCompanions
  BY DEF Init, SignedCompanions, Signing, Annotating
<1>2. TypeOK /\ Progress /\ SignedCompanions => CompanionsOfThisRun
  BY DEF SignedCompanions, CompanionsOfThisRun, Progress
<1>3. QED
  BY <1>1, <1>2, TypeCorrect, SignedCompanionsStep, PTL DEF Spec

-----------------------------------------------------------------------------
(* Whose score an envelope holds.                                           *)

\* Without a race, whoever is about to rewrite the score holds the newest.
Fresh ==
  ~raced =>
    /\ envelope["primary"].state = "whole" => envelope["primary"].run = newest
    /\ \A v \in Verifier : verifier[v] # "idle" => held[v].run = newest
    /\ pc \in {"annotate", "annotating"} => held["run"].run = newest

LEMMA FreshFiles ==
  /\ Torn.state # "whole" /\ Absent.state # "whole"
  /\ \A r \in 0..MaxRuns : Whole(r).run = r
  /\ \A f \in File : WithVerdict(f).run = f.run
BY DEF Absent, Torn, Whole, WithVerdict, File

LEMMA RewriteScore ==
  ASSUME TypeOK, NEW p \in Process, NEW contents,
         OpenForWriting(p) \/ Close(p, contents) \/ Drop(p)
  PROVE  \/ envelope'["primary"] \in {envelope["primary"], Torn}
         \/ Close(p, contents) /\ envelope'["primary"] = contents
BY OrderType DEF TypeOK, OpenForWriting, Close, Drop

LEMMA FreshStep ==
  TypeOK /\ Progress /\ Fresh /\ [Next]_vars => Fresh'
<1> SUFFICES ASSUME TypeOK, Progress, Fresh, [Next]_vars, ~raced' PROVE Fresh'
  BY DEF Fresh
<1> USE FreshFiles
<1>1. "run" \in Process /\ Verifier \subseteq Process /\ "run" \notin Verifier
  BY EnvelopeFilesAssumption DEF Process
<1>2. CASE SignPrimary
  <2>1. envelope'["primary"] = Torn /\ pc' = "store"
    BY <1>2, OrderType DEF SignPrimary, OpenForWriting, TypeOK
  <2>2. \A v \in Verifier : verifier'[v] = "idle"
    BY <1>2 DEF SignPrimary
  <2>3. QED
    BY <2>1, <2>2 DEF Fresh
<1>4. CASE UNCHANGED vars
  BY <1>4 DEF Fresh, vars
<1>5. ASSUME pc' = "idle", ~raced, Ends("pass") \/ Ends("fail"), UNCHANGED <<verifier, history>>,
             envelope'["primary"] \in {envelope["primary"], Torn}
      PROVE  Fresh'
  <2>1. \A v \in Verifier : held'[v] = held[v]
    BY <1>1, <1>5 DEF Ends, TypeOK
  <2>2. QED
    BY <1>5, <2>1 DEF Fresh, history
<1>6. ASSUME UNCHANGED <<verifier, history, held>>, pc' = "annotating" => pc = "annotate",
             pc' # "annotate",
             \/ envelope'["primary"] \in {envelope["primary"], Torn}
             \/ envelope'["primary"].run = newest
      PROVE  Fresh'
  BY <1>6 DEF Fresh, history
<1>7. CASE WriteStatements \/ WriteStatementFails \/ GetToken \/ GetTokenFails \/ SigningFails
           \/ GateExit \/ StartRun
  <2>1. UNCHANGED <<verifier, history, envelope>>
    BY <1>7 DEF WriteStatements, WriteStatementFails, GetToken, GetTokenFails, SigningFails,
       GateExit, StartRun, primaryFile
  <2>2. \A v \in Verifier : held'[v] = held[v]
    BY <1>1, <1>7 DEF WriteStatements, WriteStatementFails, GetToken, GetTokenFails, SigningFails,
       GateExit, StartRun, locals, Ends, TypeOK
  <2>3. pc' \notin {"annotate", "annotating"}
    BY <1>7 DEF WriteStatements, WriteStatementFails, GetToken, GetTokenFails, SigningFails,
       GateExit, StartRun, Ends
  <2>4. QED
    BY <2>1, <2>2, <2>3 DEF Fresh, history
<1>8. CASE StorePrimary
  <2>1. statement["primary"] = Whole(run) /\ newest = run
    BY <1>8 DEF StorePrimary, Progress, Signing
  <2>2. Whole(run).run = run
    BY DEF Whole
  <2>3. pc' \in {"load", "token"} /\ UNCHANGED <<verifier, history, held>>
    BY <1>8 DEF StorePrimary, Signed
  <2>4. \/ envelope'["primary"] \in {envelope["primary"], Torn}
        \/ envelope'["primary"] = statement["primary"]
    BY <1>1, <1>8, RewriteScore DEF StorePrimary
  <2>5. QED
    BY <1>6, <2>1, <2>2, <2>3, <2>4
<1>9. CASE StorePrimaryFails \/ Killed
  <2>1. envelope'["primary"] \in {envelope["primary"], Torn}
    BY <1>9, OrderType DEF StorePrimaryFails, Killed, Drop, TypeOK
  <2>2. Ends("fail") /\ UNCHANGED <<verifier, history>>
    BY <1>9 DEF StorePrimaryFails, Killed
  <2>3. pc' = "idle" /\ ~raced
    BY <2>2 DEF Ends, history
  <2>4. QED
    BY <1>5, <2>1, <2>2, <2>3
<1>10. CASE SignCompanion \/ StoreCompanionFails
  <2>1. todo # {} /\ NextToSign # "primary"
    BY <1>10 DEF SignCompanion, StoreCompanionFails, Progress, Signing
  <2>2. envelope'["primary"] = envelope["primary"]
    BY <1>10, <2>1, OrderType DEF SignCompanion, StoreCompanionFails, TypeOK
  <2>3. /\ UNCHANGED <<verifier, history>>
        /\ pc' \in {"idle", "load", "token"}
        /\ \A v \in Verifier : held'[v] = held[v]
    BY <1>1, <1>10 DEF SignCompanion, StoreCompanionFails, Signed, Ends, TypeOK
  <2>4. QED
    BY <2>2, <2>3 DEF Fresh, history
<1>11. CASE LoadOwnEnvelope
  <2>1. /\ held' = [held EXCEPT !["run"] = envelope["primary"]]
        /\ envelope["primary"].state = "whole"
        /\ UNCHANGED <<verifier, history, envelope>>
    BY <1>11 DEF LoadOwnEnvelope, primaryFile
  <2>2. held'["run"] = envelope["primary"] /\ \A v \in Verifier : held'[v] = held[v]
    BY <1>1, <2>1 DEF TypeOK
  <2>3. QED
    BY <2>1, <2>2 DEF Fresh, history
<1>12. CASE Annotate \/ AnnotateFails
  <2>1. envelope'["primary"] \in {envelope["primary"], Torn}
    BY <1>12, OrderType DEF Annotate, AnnotateFails, OpenForWriting, Drop, TypeOK
  <2>2. /\ UNCHANGED <<verifier, history, held>>
        /\ pc' # "annotate" /\ (pc' = "annotating" => pc = "annotate")
    BY <1>12 DEF Annotate, AnnotateFails, locals
  <2>3. QED
    BY <1>6, <2>1, <2>2
<1>13. CASE VerdictAnnotated
  <2>1. /\ UNCHANGED <<verifier, history, held>> /\ pc = "annotating" /\ pc' = "gate"
    BY <1>13 DEF VerdictAnnotated, locals
  <2>2. held["run"].run = newest /\ held["run"] \in File
    BY <1>1, <2>1 DEF Fresh, history, TypeOK
  <2>3. WithVerdict(held["run"]).run = newest
    BY <2>2
  <2>4. \/ envelope'["primary"] \in {envelope["primary"], Torn}
        \/ envelope'["primary"] = WithVerdict(held["run"])
    BY <1>1, <1>13, RewriteScore DEF VerdictAnnotated
  <2>5. QED
    BY <1>6, <2>1, <2>3, <2>4
<1>14. ASSUME NEW v \in Verifier,
              VerifyLoads(v) \/ VerifyOpens(v) \/ VerifyWrites(v) \/ VerifyFails(v)
       PROVE  Fresh'
  <2>1. UNCHANGED <<pc, history>> /\ held'["run"] = held["run"]
    BY <1>1, <1>14 DEF VerifyLoads, VerifyOpens, VerifyWrites, VerifyFails, runState, TypeOK
  <2>2. CASE VerifyLoads(v)
    <3>1. /\ envelope' = envelope /\ envelope["primary"].state = "whole"
          /\ \A w \in Verifier : \/ held'[w] = envelope["primary"]
                                 \/ held'[w] = held[w] /\ verifier'[w] = verifier[w]
      BY <1>1, <2>2 DEF VerifyLoads, Moves, primaryFile, TypeOK
    <3>2. QED
      BY <2>1, <3>1 DEF Fresh, history
  <2>3. CASE VerifyOpens(v)
    <3>1. envelope'["primary"] = Torn /\ held' = held
      BY <2>3, OrderType DEF VerifyOpens, OpenForWriting, TypeOK
    <3>2. \A w \in Verifier : verifier'[w] # "idle" => verifier[w] # "idle"
      BY <2>3 DEF VerifyOpens, Moves, TypeOK
    <3>3. QED
      BY <2>1, <3>1, <3>2 DEF Fresh, history
  <2>4. CASE VerifyWrites(v) \/ VerifyFails(v)
    <3>1. \A w \in Verifier :
            \/ verifier'[w] = "idle"
            \/ verifier'[w] = verifier[w] /\ held'[w] = held[w]
      BY <1>1, <2>4 DEF VerifyWrites, VerifyFails, Moves, TypeOK
    <3>2. held[v].run = newest /\ held[v] \in File
      BY <1>1, <2>1, <2>4 DEF VerifyWrites, VerifyFails, Moves, Fresh, history, TypeOK
    <3>3. WithVerdict(held[v]).run = newest
      BY <3>2
    <3>4. \/ envelope'["primary"] \in {envelope["primary"], Torn}
          \/ envelope'["primary"] = WithVerdict(held[v])
      BY <1>1, <2>4, RewriteScore DEF VerifyWrites, VerifyFails
    <3>5. QED
      BY <2>1, <3>1, <3>3, <3>4 DEF Fresh, history
  <2>5. QED
    BY <1>14, <2>2, <2>3, <2>4
<1>15. QED
  BY <1>2, <1>4, <1>7, <1>8, <1>9, <1>10, <1>11, <1>12, <1>13, <1>14
     DEF Next, RunStep, Verify, Done

\* The score of an earlier run never comes back, unless a verification had
\* loaded it before the newer one was signed.
THEOREM OldScoresNeedARace == Spec => []OldScoreNeedsARace
<1>1. Init => Fresh
  BY FreshFiles, OrderType DEF Init, Fresh
<1>2. Fresh => OldScoreNeedsARace
  BY DEF Fresh, OldScoreNeedsARace
<1>3. QED
  BY <1>1, <1>2, TypeCorrect, FreshStep, PTL DEF Spec
=============================================================================
