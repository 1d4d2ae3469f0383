---------------------------- MODULE Verification ----------------------------
(***************************************************************************)
(* One `lucid-assay verify`, from the files it loads to its exit status:   *)
(* main, verify_dsse_attestation and their helpers in cli/verify.py.       *)
(*                                                                         *)
(* Sigstore is external.  What a certificate says and whether a bundle     *)
(* verifies are fields of the envelope; whether the trust root can be      *)
(* reached is chosen when the signature is checked.  An envelope carries   *)
(* the payload its bundle was made for, as this tool writes it.            *)
(***************************************************************************)
EXTENDS ComplianceTracks, PolicyGate

CONSTANTS
  Issuer, Ref,     \* OIDC issuers; refs of a certificate
  Invocations      \* the calls considered: sets of files, each with a set of flags

GitHub == "github"

Claim == {"repository", "workflow", "ref"}
Identity == [workflow : Builder, ref : Ref]

\* The claims of a signing certificate; a claim may be missing from it.
Certificate ==
  [identity : Identity, issuer : Issuer,
   claims : [Claim -> Repository \cup Builder \cup Ref \cup {Absent}]]

\* `signature`: no signature, a --dry-run-sign placeholder, or a real one.
\* `bundled`: the complete Sigstore bundle is embedded, not just its parts.
\* `genuine`: the signature is that of the certificate's key on the payload.
Envelope ==
  [typed : BOOLEAN, signature : {"none", "placeholder", "signed"}, bundled : BOOLEAN,
   genuine : BOOLEAN, certificate : Certificate, statement : Statement \cup {Absent}]

\* The flags of the call.
GateParams ==
  [minRcs : Nat, digest : Digest \cup {NoDigest}, strict : BOOLEAN, dryRun : BOOLEAN,
   certIdentity : Identity \cup {Absent}, certIssuer : Issuer \cup {Absent},
   expectedIssuer : Issuer \cup {Absent},
   expected : [Claim -> Repository \cup Builder \cup Ref \cup {Absent}],
   buildL3 : BOOLEAN, commitSigning : BOOLEAN, mutationScore : BOOLEAN, write : BOOLEAN]

\* What stands for nothing is no word of a verdict and no level of a track.
ASSUME AbsentAssumption ==
  Absent \notin {"FAILED", "GATED", "PASSED"} \cup ({"Source", "Build"} \X (1..4))

ASSUME InvocationsAssumption ==
  \A i \in Invocations :
    /\ i.files \subseteq Envelope \X (Envelope \cup {Absent})
    /\ i.gates \subseteq GateParams

-----------------------------------------------------------------------------
(* The signer.                                                              *)

Asserts(g, c) == g.expected[c] # Absent

\* A claim of GitHub Actions pins GitHub's issuer unless another was asked for.
ResolvedIssuer(g) ==
  CASE g.expectedIssuer # Absent -> g.expectedIssuer
    [] g.expectedIssuer = Absent /\ g.certIssuer # Absent -> g.certIssuer
    [] OTHER -> IF \E c \in Claim : Asserts(g, c) THEN GitHub ELSE Absent

\* Mistake: one of the claims asked for is enough.
PolicyHoldsAnyOf(cert, g) ==
  LET asked == {c \in Claim : Asserts(g, c)}
  IN  \/ g.certIdentity # Absent /\ cert.identity = g.certIdentity
      \/ \E c \in asked : cert.claims[c] = g.expected[c]
      \/ g.certIdentity = Absent /\ asked = {}

\* _build_identity_policy: every claim asked for must hold of the certificate.
\* (A ref pattern stands for the one ref it is meant for.)
PolicyHolds(cert, g) ==
  /\ g.certIdentity # Absent => cert.identity = g.certIdentity
  /\ ResolvedIssuer(g) # Absent => cert.issuer = ResolvedIssuer(g)
  /\ \A c \in Claim : Asserts(g, c) => cert.claims[c] = g.expected[c]

\* _verify_sigstore_identity; `online` is whether Sigstore could be asked.
IdentityStatus(env, g, online) ==
  CASE g.dryRun \/ env.signature # "signed" -> "skipped"
    [] ~g.dryRun /\ env.signature = "signed" /\ ~(online /\ env.bundled) -> "unavailable"
    [] OTHER -> IF env.genuine /\ PolicyHolds(env.certificate, g) THEN "verified" ELSE "failed"

-----------------------------------------------------------------------------
(* The gates.  A violation is named, its wording left out.                  *)

EnvelopeViolations(env) ==
  {v \in {"payload_type", "no_signatures", "payload"} :
     \/ v = "payload_type" /\ ~env.typed
     \/ v = "no_signatures" /\ env.signature = "none"
     \/ v = "payload" /\ env.statement = Absent}

\* Only a list of causes that are all known and unavoidable excuses.
Excused(reasons) ==
  reasons \notin {Absent, Malformed, {}} /\ reasons \subseteq AllowedDegradedReasons

ScoreViolations(score, g) ==
  {v \in {"value", "degraded_type", "reasons_type", "below_min_rcs", "degraded"} :
     \/ v = "value" /\ score.value = Malformed
     \/ v = "degraded_type" /\ score.degraded = Malformed
     \/ v = "reasons_type" /\ score.reasons = Malformed
     \/ v = "below_min_rcs" /\ score.value # Malformed /\ score.value < g.minRcs
     \/ /\ v = "degraded" /\ g.strict
        /\ \/ score.degraded \in {Absent, Malformed}
           \/ score.degraded = TRUE /\ ~Excused(score.reasons)}

StatementViolations(s, g) ==
  ScoreViolations(s.score, g) \cup
  {v \in {"predicate_type", "digest", "commit_signing", "mutation_score"} :
     \/ v = "predicate_type" /\ s.type # "assay"
     \/ v = "digest" /\ g.digest # NoDigest /\ g.digest \notin s.digests
     \/ v = "commit_signing" /\ g.commitSigning /\ s.commitSignature # "verified"
     \/ v = "mutation_score" /\ g.mutationScore /\ s.mutation = "failed"}

\* The payload a track falls back to when it cannot be decoded.
OrEmpty(s) == IF s = Absent THEN EmptyStatement ELSE s

SourceTrack(s, slsa) == SourceLevels(AssayStatement(OrEmpty(s), slsa))

BuildTrack(s, slsa, g, identity) ==
  BuildLevels(BuildStatement(OrEmpty(s), slsa), identity, g.certIdentity, g.expected["repository"])

VerdictWord(rejected, source, build) ==
  CASE rejected -> "FAILED"
    [] ~rejected /\ source >= 4 /\ build >= 3 -> "PASSED"
    [] OTHER -> "GATED"

\* The level the banner names as the first one missing, if any.
IncompleteLevel(source, build) ==
  IF build < 3 THEN <<"Build", build + 1>>
  ELSE IF source < 4 THEN <<"Source", source + 1>> ELSE Absent

-----------------------------------------------------------------------------
(* The state of a call: how far it is, what it read, what it found.         *)

VARIABLES
  phase,       \* the next thing main does
  primary,     \* the envelope named on the command line
  slsa,        \* the one named by --slsa-envelope, if any
  gate,        \* the flags
  slsaStatement, \* what _resolve_slsa_statement returned
  online,      \* could Sigstore be asked, when it was
  identity,    \* identity_status
  violations,  \* what is held against the envelope so far
  levels,      \* the checklists of both tracks
  verdict,     \* the word of the verdict
  stored,      \* the word in the file the verdict was written to
  exit         \* the exit status, once there is one

vars == <<phase, primary, slsa, gate, slsaStatement, online, identity, violations, levels,
          verdict, stored, exit>>

Phases == {"load", "load_slsa", "statement", "identity", "tracks", "report", "done"}

PASS == 0
FILE_ERROR == 1
POLICY_VIOLATION == 2
Running == 3   \* no exit status yet

Init ==
  /\ phase = "load"
  /\ \E i \in Invocations :
       /\ \E f \in i.files : primary = f[1] /\ slsa = f[2]
       /\ gate \in i.gates
  /\ slsaStatement = Absent
  /\ online = FALSE
  /\ identity = "skipped"
  /\ violations = {}
  /\ levels = [source |-> << >>, build |-> << >>]
  /\ verdict = Absent
  /\ stored = Absent
  /\ exit = Running

\* main returns.
Stop(status) == phase' = "done" /\ exit' = status

\* A file can be read, or it cannot: missing, too large, no JSON object.
Load ==
  /\ phase = "load"
  /\ phase' = "load_slsa"
  /\ UNCHANGED <<primary, slsa, gate, slsaStatement, online, identity, violations, levels,
                 verdict, stored, exit>>

LoadFails ==
  /\ phase \in {"load", "load_slsa"}
  /\ phase = "load_slsa" => slsa # Absent
  /\ Stop(FILE_ERROR)
  /\ UNCHANGED <<primary, slsa, gate, slsaStatement, online, identity, violations, levels,
                 verdict, stored>>

\* Mistake: the envelope is handed on where its payload is wanted.
ResolveSlsaStatementUndecoded ==
  /\ phase = "load_slsa"
  /\ phase' = "statement"
  /\ slsaStatement' = slsa
  /\ UNCHANGED <<primary, slsa, gate, online, identity, violations, levels, verdict, stored, exit>>

\* The second envelope is decoded; what is wrong with it is a warning.
ResolveSlsaStatement ==
  /\ phase = "load_slsa"
  /\ phase' = "statement"
  /\ slsaStatement' = IF slsa = Absent THEN Absent ELSE slsa.statement
  /\ UNCHANGED <<primary, slsa, gate, online, identity, violations, levels, verdict, stored, exit>>

EvaluateStatement ==
  /\ phase = "statement"
  /\ phase' = "identity"
  /\ violations' = EnvelopeViolations(primary) \cup
       (IF primary.statement = Absent THEN {} ELSE StatementViolations(primary.statement, gate))
  /\ UNCHANGED <<primary, slsa, gate, slsaStatement, online, identity, levels, verdict, stored, exit>>

VerifyIdentity ==
  /\ phase = "identity"
  /\ phase' = "tracks"
  /\ online' \in BOOLEAN
  /\ identity' = IdentityStatus(primary, gate, online')
  /\ violations' = violations \cup (IF identity' = "failed" THEN {"identity"} ELSE {})
  /\ UNCHANGED <<primary, slsa, gate, slsaStatement, levels, verdict, stored, exit>>

\* Both tracks, the one gate that looks at them, and the verdict.
EvaluateTracks ==
  /\ phase = "tracks"
  /\ phase' = "report"
  /\ levels' = [source |-> SourceTrack(primary.statement, slsaStatement),
                build |-> BuildTrack(primary.statement, slsaStatement, gate, identity)]
  /\ violations' = violations \cup
       (IF gate.buildL3 /\ ~CumulativeTrackStatus(levels'.build)[3] THEN {"build_l3"} ELSE {})
  /\ verdict' = VerdictWord(violations' # {}, HighestPassingLevel(levels'.source),
                            HighestPassingLevel(levels'.build))
  /\ UNCHANGED <<primary, slsa, gate, slsaStatement, online, identity, stored, exit>>

ExitStatus == IF violations = {} THEN PASS ELSE POLICY_VIOLATION

\* The report is printed; with --write-verdict the envelope is rewritten, and
\* a file that could not be written decides the exit status.
Report ==
  /\ phase = "report"
  /\ stored' = IF gate.write THEN verdict ELSE stored
  /\ Stop(ExitStatus)
  /\ UNCHANGED <<primary, slsa, gate, slsaStatement, online, identity, violations, levels, verdict>>

\* Mistake: a verdict that could not be written is only reported.
WriteFailsQuietly ==
  /\ phase = "report"
  /\ gate.write
  /\ Stop(ExitStatus)
  /\ UNCHANGED <<primary, slsa, gate, slsaStatement, online, identity, violations, levels,
                 verdict, stored>>

WriteFails ==
  /\ phase = "report"
  /\ gate.write
  /\ Stop(FILE_ERROR)
  /\ UNCHANGED <<primary, slsa, gate, slsaStatement, online, identity, violations, levels,
                 verdict, stored>>

Done == phase = "done" /\ UNCHANGED vars

Next ==
  \/ Load
  \/ LoadFails
  \/ ResolveSlsaStatement
  \/ EvaluateStatement
  \/ VerifyIdentity
  \/ EvaluateTracks
  \/ Report
  \/ WriteFails
  \/ Done

Spec == Init /\ [][Next]_vars

-----------------------------------------------------------------------------
(* Properties.                                                              *)

Track(n) == [1..n -> BOOLEAN]

\* Every variable stays in its type; what is handed on of the second envelope
\* is a statement.
TypeOK ==
  /\ phase \in Phases
  /\ primary \in Envelope
  /\ slsa \in Envelope \cup {Absent}
  /\ gate \in GateParams
  /\ slsaStatement \in Statement \cup {Absent}
  /\ online \in BOOLEAN
  /\ identity \in {"skipped", "unavailable", "verified", "failed"}
  /\ violations \subseteq
       {"payload_type", "no_signatures", "payload", "value", "degraded_type", "reasons_type",
        "below_min_rcs", "degraded", "predicate_type", "digest", "commit_signing",
        "mutation_score", "identity", "build_l3"}
  /\ levels \in [source : Track(4) \cup {<< >>}, build : Track(3) \cup {<< >>}]
  /\ verdict \in {"FAILED", "GATED", "PASSED", Absent}
  /\ stored \in {"FAILED", "GATED", "PASSED", Absent}
  /\ exit \in {PASS, FILE_ERROR, POLICY_VIOLATION, Running}

Judged == verdict \in {"FAILED", "GATED", "PASSED"}

\* PASSED is said only of a change whose two statements are both at hand, whose
\* signature holds, whose signer is the isolated workflow that the provenance
\* says built it (_slsa_check_isolated_provenance_generation), which a linked
\* author committed and which a second person had to approve.
PassedIsWitnessed ==
  verdict = "PASSED" =>
    /\ primary.statement # Absent /\ primary.statement.type = "assay"
    /\ slsaStatement # Absent /\ slsaStatement.type = "slsa"
    /\ primary.signature = "signed" /\ primary.genuine
    /\ primary.certificate.identity.workflow = slsaStatement.build.builder
    /\ slsaStatement.build.builder \in ControlPlaneBuilders
    /\ primary.statement.vcs.author = "linked"
    /\ primary.statement.rules.approvals \in Nat \ {0}

\* The source levels reported with an admission are those of the statement the
\* gates looked at, whatever second statement was given (_classify_statements).
AdmittedIsAssessed ==
  Judged /\ violations = {} => levels.source = SourceLevels(primary.statement)

\* A demand left out, all else equal.  GitHub's issuer is pinned by claims, so
\* an issuer is a demand of its own only where no claim is asserted; and Build
\* Level 3 needs an asserted signer, so that one is no demand under it.
Relaxations(g) ==
  {[g EXCEPT !.minRcs = 0], [g EXCEPT !.digest = NoDigest], [g EXCEPT !.strict = FALSE],
   [g EXCEPT !.commitSigning = FALSE], [g EXCEPT !.mutationScore = FALSE],
   [g EXCEPT !.buildL3 = FALSE]}
  \cup {[g EXCEPT !.expected[c] = Absent] : c \in Claim}
  \cup (IF \E c \in Claim : Asserts(g, c) THEN {}
        ELSE {[g EXCEPT !.expectedIssuer = Absent, !.certIssuer = Absent]})
  \cup (IF g.buildL3 THEN {}
        ELSE {[g EXCEPT !.certIdentity = Absent], [g EXCEPT !.dryRun = TRUE]})

\* What a whole call finds, in one piece.
AllViolations(env, second, g, reachable) ==
  LET status == IdentityStatus(env, g, reachable)
  IN  EnvelopeViolations(env)
      \cup (IF env.statement = Absent THEN {} ELSE StatementViolations(env.statement, g))
      \cup (IF status = "failed" THEN {"identity"} ELSE {})
      \cup (IF /\ g.buildL3
               /\ ~CumulativeTrackStatus(BuildTrack(env.statement, second, g, status))[3]
              THEN {"build_l3"} ELSE {})

\* An envelope admitted by a call is admitted by every call that demands less:
\* each flag only ever takes admissions away (_build_identity_policy: "Every
\* asserted claim is AND-ed together").
MoreDemandsNeverAdmitMore ==
  Judged /\ violations = {} =>
    \A g \in Relaxations(gate) : AllViolations(primary, slsaStatement, g, online) = {}

\* The level the banner names as the missing one did fail its own checks, all
\* below it on its track passed, and none is named only when nothing is missing
\* (_format_verdict_banner).
NamedGapIsReal ==
  Judged =>
    LET gap == IncompleteLevel(HighestPassingLevel(levels.source), HighestPassingLevel(levels.build))
        track == IF gap # Absent /\ gap[1] = "Source" THEN levels.source ELSE levels.build
    IN  IF gap = Absent
          THEN \A n \in 1..4 : levels.source[n] /\ (n <= 3 => levels.build[n])
          ELSE gap[2] \in DOMAIN track /\ ~track[gap[2]] /\ \A k \in 1..(gap[2] - 1) : track[k]

\* Exit status 0 means that the envelope was admitted and, when that was asked
\* for, that the file says so; a file that says FAILED goes with no exit 0.
ExitZeroIsOnRecord ==
  /\ exit = PASS => violations = {} /\ (gate.write => stored = verdict)
  /\ stored = "FAILED" => exit # PASS

\* The warning of _resolve_slsa_statement: where the second envelope is faulty,
\* the Build track falls back to the primary one.
FaultySlsaEnvelopeFallsBack ==
  Judged /\ slsa # Absent /\ EnvelopeViolations(slsa) # {} =>
    levels.build = BuildTrack(primary.statement, Absent, gate, identity)
=============================================================================
