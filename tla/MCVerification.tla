--------------------------- MODULE MCVerification ---------------------------
(* Verification of envelopes that are right in everything, or wrong in one  *)
(* thing, by gates that demand something of the content or of the signer.   *)
EXTENDS Verification

MCContains == {<<"o/r", "o/r">>, <<"o/r-next", "o/r">>, <<"o/r-next", "o/r-next">>}

GoodAssay ==
  [EmptyStatement EXCEPT
     !.type = "assay", !.intoto = TRUE, !.digests = {"d1"},
     !.score = [value |-> 80, degraded |-> FALSE, reasons |-> {}],
     !.commitSignature = "verified", !.mutation = "passed",
     !.vcs = [named |-> TRUE, revisions |-> TRUE, pr |-> "complete", author |-> "linked"],
     !.rules.approvals = 1]

GoodSlsa ==
  [EmptyStatement EXCEPT
     !.type = "slsa", !.intoto = TRUE, !.digests = {"d1"},
     !.build = [defined |-> TRUE, invoked |-> TRUE, builder |-> "sign-client",
                repository |-> "o/r"]]

Unavoidable == <<"patch_coverage", "no_coverable_lines">>
RealGap == <<"patch_coverage", "unavailable">>
MCReason == {Unavoidable, RealGap}

Scores ==
  {[value |-> v, degraded |-> FALSE, reasons |-> {}] : v \in {50, Malformed}}
  \cup
  {[value |-> 80, degraded |-> d, reasons |-> r] :
     d \in {TRUE, Absent, Malformed},
     r \in {Absent, Malformed, {}, {Unavoidable}, {RealGap}, {Unavoidable, RealGap}}}

AssayStatements ==
  {GoodAssay}
  \cup {[GoodAssay EXCEPT !.score = s] : s \in Scores}
  \cup {[GoodAssay EXCEPT !.digests = {}], [GoodAssay EXCEPT !.intoto = FALSE],
        [GoodAssay EXCEPT !.type = "other"]}
  \cup {[GoodAssay EXCEPT !.commitSignature = c] : c \in {"absent", "unavailable", "unverified"}}
  \cup {[GoodAssay EXCEPT !.mutation = m] : m \in {"absent", "degraded", "failed"}}
  \cup {[GoodAssay EXCEPT !.vcs.named = FALSE], [GoodAssay EXCEPT !.vcs.revisions = FALSE]}
  \cup {[GoodAssay EXCEPT !.vcs.pr = p] : p \in {"none", "partial"}}
  \cup {[GoodAssay EXCEPT !.vcs.author = a] : a \in {"absent", "unavailable", "unlinked"}}
  \cup {[GoodAssay EXCEPT !.rules.approvals = n] : n \in {Absent, 0}}
  \cup {[GoodAssay EXCEPT !.rules.unsupportedTier = TRUE]}

SlsaStatements ==
  {GoodSlsa, [GoodSlsa EXCEPT !.build.defined = FALSE], [GoodSlsa EXCEPT !.build.invoked = FALSE],
   [GoodSlsa EXCEPT !.digests = {}], [GoodSlsa EXCEPT !.type = "other"]}
  \cup {[GoodSlsa EXCEPT !.build.builder = b] : b \in {"actions-runner", "build-job", Absent}}
  \cup {[GoodSlsa EXCEPT !.build.repository = r] : r \in {"o/r-next", Absent}}

SignClient == [workflow |-> "sign-client", ref |-> "main"]
BuildJob == [workflow |-> "build-job", ref |-> "main"]

Cert(signer, issuer) ==
  [identity |-> signer, issuer |-> issuer,
   claims |-> [repository |-> "o/r", workflow |-> "sign-client", ref |-> "main"]]
GoodCert == Cert(SignClient, "github")

Certificates ==
  {GoodCert, Cert(BuildJob, "github"), Cert(SignClient, "gitlab")}
  \cup {[GoodCert EXCEPT !.claims[c] = Absent] : c \in {"repository", "ref"}}

Signed(s) ==
  [typed |-> TRUE, signature |-> "signed", bundled |-> TRUE, genuine |-> TRUE,
   certificate |-> GoodCert, statement |-> s]

\* The good statement, signed in every way.
Signings ==
  {[Signed(GoodAssay) EXCEPT !.certificate = c, !.genuine = g] :
     c \in Certificates, g \in BOOLEAN}
  \cup {[Signed(GoodAssay) EXCEPT !.signature = s] : s \in {"none", "placeholder"}}
  \cup {[Signed(GoodAssay) EXCEPT !.bundled = FALSE], [Signed(GoodAssay) EXCEPT !.typed = FALSE]}

Primaries == Signings \cup {Signed(s) : s \in AssayStatements \cup {Absent, GoodSlsa}}

Seconds ==
  {Signed(s) : s \in SlsaStatements \cup {Absent}}
  \cup {[Signed(GoodSlsa) EXCEPT !.typed = FALSE], [Signed(GoodSlsa) EXCEPT !.signature = "none"]}
  \cup {Signed([GoodAssay EXCEPT !.vcs.author = "unlinked"])}

\* Every primary with a good second one, with none, and with one that is an
\* assay statement too; and a good primary with every second one.
Pairs ==
  (Primaries \X {Absent, Signed(GoodSlsa), Signed([GoodAssay EXCEPT !.vcs.author = "unlinked"])})
  \cup ({Signed(GoodAssay)} \X Seconds)

NoClaims == [c \in Claim |-> Absent]
Lax ==
  [minRcs |-> 0, digest |-> NoDigest, strict |-> FALSE, dryRun |-> FALSE,
   certIdentity |-> Absent, certIssuer |-> Absent, expectedIssuer |-> Absent,
   expected |-> NoClaims, buildL3 |-> FALSE, commitSigning |-> FALSE,
   mutationScore |-> FALSE, write |-> FALSE]

ContentGates ==
  {[Lax EXCEPT !.minRcs = m, !.digest = d, !.strict = s, !.commitSigning = c,
               !.mutationScore = c, !.buildL3 = l, !.certIdentity = i, !.write = TRUE] :
     m \in {0, 75}, d \in {NoDigest, "d1"}, s \in BOOLEAN, c \in BOOLEAN, l \in BOOLEAN,
     i \in {Absent, SignClient}}

SignerGates ==
  {[Lax EXCEPT !.certIdentity = i, !.expectedIssuer = e, !.certIssuer = c, !.buildL3 = l,
               !.dryRun = d, !.expected = [repository |-> r, workflow |-> Absent, ref |-> f]] :
     i \in {Absent, SignClient, BuildJob}, e \in {Absent, "gitlab"}, c \in {Absent, "github"},
     l \in BOOLEAN, d \in BOOLEAN, r \in {Absent, "o/r"}, f \in {Absent, "main"}}

\* Content is judged whoever signed, so its gates need one way to sign, and
\* the gates on the signer one content.
MCInvocations ==
  {[files |-> Pairs, gates |-> ContentGates],
   [files |-> {q \in Pairs : q[1] \in Signings}, gates |-> SignerGates]}
=============================================================================
