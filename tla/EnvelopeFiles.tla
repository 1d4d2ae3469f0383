---------------------------- MODULE EnvelopeFiles ----------------------------
(***************************************************************************)
(* The files a run leaves in its output directory.  cli/main.py writes the *)
(* unsigned statements (the score, and whichever of the SLSA, SBOM and     *)
(* SARIF companions the run has), signs them one after the other, each     *)
(* with an OIDC token of its own, then loads the signed score envelope     *)
(* again and rewrites it in place with its verdict.  `lucid-assay verify   *)
(* --write-verdict` rewrites the same file, at any time.                   *)
(*                                                                         *)
(* open(path, "w") truncates, and nothing locks or renames: a rewrite      *)
(* passes through a torn file, can fail there, and two of them can mix.    *)
(***************************************************************************)
EXTENDS Naturals, Sequences

CONSTANTS
  Companions,   \* the companion statements, in the order they are signed
  Verifier,     \* verify --write-verdict processes
  MaxAttempts,  \* _OIDC_FETCH_MAX_ATTEMPTS
  MaxRuns       \* bound on the runs that use the directory

ASSUME EnvelopeFilesAssumption ==
  /\ MaxAttempts \in Nat \ {0} /\ MaxRuns \in Nat
  /\ "run" \notin Verifier
  /\ \E n \in 0..3 : Companions = SubSeq(<<"slsa", "sbom", "sarif">>, 1, n)

\* The statements of a run, in the order they are signed.
SigningOrder == <<"primary">> \o Companions
Kind == {SigningOrder[n] : n \in DOMAIN SigningOrder}

VARIABLES
  statement,  \* kind -> the unsigned file
  envelope,   \* kind -> the signed file
  run,        \* number of the current or last run
  emitted,    \* the statements that run writes
  signing,    \* was it given --sign
  pc,
  todo,       \* statements still to be signed
  attempts,   \* token requests made for the current one
  held,       \* process -> the envelope it loaded
  exit,       \* exit status of the last run: "pass", "fail" or "none"
  verifier,   \* verifier -> what it is doing
  writers,    \* processes that have the primary envelope open for writing
  mixed,      \* were two of them writing it at once
  newest,     \* the last run that signed its score
  raced       \* was it signed while a verifier held an earlier envelope

vars == <<statement, envelope, run, emitted, signing, pc, todo, attempts, held, exit, verifier,
          writers, mixed, newest, raced>>

\* A file: absent, torn (not a JSON document) or whole.  A whole one is of
\* some run, and may carry the verdict on the payload of some run.
File == [state : {"absent", "torn", "whole"}, run : 0..MaxRuns, verdictOn : 0..MaxRuns]

Absent == [state |-> "absent", run |-> 0, verdictOn |-> 0]
Torn == [state |-> "torn", run |-> 0, verdictOn |-> 0]
Whole(r) == [state |-> "whole", run |-> r, verdictOn |-> 0]

\* What _write_verdict_into_envelope writes: what was loaded, with a verdict
\* on it in place of any earlier one.
WithVerdict(file) == [file EXCEPT !.verdictOn = file.run]

Process == Verifier \cup {"run"}

Init ==
  /\ statement = [k \in Kind |-> Absent]
  /\ envelope = [k \in Kind |-> Absent]
  /\ run = 0 /\ emitted = {} /\ signing = FALSE
  /\ pc = "idle" /\ todo = {} /\ attempts = 0
  /\ held = [p \in Process |-> Absent]
  /\ exit = "none"
  /\ verifier = [v \in Verifier |-> "idle"]
  /\ writers = {} /\ mixed = FALSE
  /\ newest = 0 /\ raced = FALSE

-----------------------------------------------------------------------------
(* The primary envelope as a file several processes rewrite.                *)

OpenForWriting(p) ==
  /\ envelope' = [envelope EXCEPT !["primary"] = Torn]
  /\ writers' = writers \cup {p}
  /\ mixed' = (mixed \/ writers # {})

\* Two writers at once interleave their bytes, which may leave no document.
Close(p, contents) ==
  /\ envelope' \in {[envelope EXCEPT !["primary"] = file] :
                      file \in {contents} \cup (IF mixed THEN {Torn} ELSE {})}
  /\ writers' = writers \ {p}
  /\ mixed' = (mixed /\ writers' # {})

\* A write that fails half way (a full disk), or whose process dies.
Drop(p) ==
  /\ envelope' = [envelope EXCEPT !["primary"] = IF p \in writers THEN Torn ELSE @]
  /\ writers' = writers \ {p}
  /\ mixed' = (mixed /\ writers' # {})

primaryFile == <<envelope, writers, mixed>>
options == <<run, emitted, signing>>
locals == <<todo, attempts, held>>
history == <<newest, raced>>

-----------------------------------------------------------------------------
(* A run.                                                                   *)

StartRun ==
  /\ pc = "idle" /\ run < MaxRuns
  /\ run' = run + 1
  /\ emitted' \in {kinds \in SUBSET Kind : "primary" \in kinds}
  /\ signing' \in BOOLEAN
  /\ pc' = "write" /\ exit' = "none"
  /\ UNCHANGED <<statement, locals, verifier, primaryFile, history>>

\* A run that ends, however it does, leaves only its files and exit status.
Ends(status) ==
  /\ pc' = "idle" /\ exit' = status
  /\ todo' = {} /\ attempts' = 0
  /\ held' = [held EXCEPT !["run"] = Absent]

\* Mistake: a score statement that is there already is left alone.
WriteStatementsOnce ==
  /\ pc = "write"
  /\ statement' = [k \in Kind |->
       IF k \in emitted /\ statement[k] = Absent THEN Whole(run) ELSE statement[k]]
  /\ \/ /\ signing
        /\ todo' = emitted
        /\ pc' = "token" /\ UNCHANGED <<attempts, held, exit>>
     \/ /\ ~signing
        /\ \E status \in {"pass", "fail"} : Ends(status)
  /\ UNCHANGED <<options, verifier, primaryFile, history>>

\* The statements are written before anything is signed; the score's gate
\* decides the exit of a run that has nothing to sign.
WriteStatements ==
  /\ pc = "write"
  /\ statement' = [k \in Kind |-> IF k \in emitted THEN Whole(run) ELSE statement[k]]
  /\ \/ /\ signing
        /\ todo' = emitted
        /\ pc' = "token" /\ UNCHANGED <<attempts, held, exit>>
     \/ /\ ~signing
        /\ \E status \in {"pass", "fail"} : Ends(status)
  /\ UNCHANGED <<options, verifier, primaryFile, history>>

\* A statement cannot be written: the ones before it were.
WriteStatementFails ==
  /\ pc = "write"
  /\ \E n \in DOMAIN SigningOrder :
       /\ SigningOrder[n] \in emitted
       /\ LET before == {SigningOrder[m] : m \in 1..(n - 1)} \cap emitted
          IN  statement' = [k \in Kind |-> IF k = SigningOrder[n] THEN Torn
                                           ELSE IF k \in before THEN Whole(run) ELSE statement[k]]
  /\ Ends("fail")
  /\ UNCHANGED <<options, verifier, primaryFile, history>>

GetToken ==
  /\ pc = "token"
  /\ attempts' = attempts + 1
  /\ pc' = "sign"
  /\ UNCHANGED <<statement, options, todo, held, exit, verifier, primaryFile, history>>

\* The statement that is being signed.
NextToSign ==
  LET first == CHOOSE n \in DOMAIN SigningOrder :
                 /\ SigningOrder[n] \in todo
                 /\ \A m \in 1..(n - 1) : SigningOrder[m] \notin todo
  IN  SigningOrder[first]

\* Mistake: one token request too many.
GetTokenFailsOnceMore ==
  /\ pc = "token"
  /\ IF attempts < MaxAttempts
       THEN attempts' = attempts + 1 /\ UNCHANGED <<pc, exit, todo, held>>
       ELSE Ends("fail")
  /\ UNCHANGED <<statement, options, verifier, primaryFile, history>>

\* Mistake: the count of requests starts again instead of running out.
GetTokenFailsForever ==
  /\ pc = "token"
  /\ attempts' = (attempts + 1) % MaxAttempts
  /\ UNCHANGED <<statement, options, pc, exit, todo, held, verifier, primaryFile, history>>

\* A failed request is repeated, a bounded number of times.
GetTokenFails ==
  /\ pc = "token"
  /\ IF attempts + 1 < MaxAttempts
       THEN attempts' = attempts + 1 /\ UNCHANGED <<pc, exit, todo, held>>
       ELSE Ends("fail")
  /\ UNCHANGED <<statement, options, verifier, primaryFile, history>>

\* Mistake: a statement that cannot be signed is skipped.
SigningFailsSoftly ==
  /\ (pc = "token" /\ attempts = 0) \/ pc = "sign"
  /\ todo' = todo \ {NextToSign}
  /\ attempts' = 0
  /\ pc' = (IF todo' = {} THEN "load" ELSE "token")
  /\ UNCHANGED <<statement, options, held, exit, verifier, primaryFile, history>>

\* No ambient identity, or Fulcio or Rekor refuses: nothing is written, the
\* rest is not signed, and the run fails.
SigningFails ==
  /\ (pc = "token" /\ attempts = 0) \/ pc = "sign"
  /\ Ends("fail")
  /\ UNCHANGED <<statement, options, verifier, primaryFile, history>>

Signed ==
  /\ todo' = todo \ {NextToSign}
  /\ attempts' = 0
  /\ pc' = (IF todo' = {} THEN "load" ELSE "token")
  /\ UNCHANGED <<held, exit>>

SignPrimary ==
  /\ pc = "sign" /\ NextToSign = "primary"
  /\ OpenForWriting("run")
  /\ pc' = "store"
  /\ newest' = run
  /\ raced' = (\E v \in Verifier : verifier[v] # "idle")
  /\ UNCHANGED <<statement, options, locals, exit, verifier>>

StorePrimary ==
  /\ pc = "store"
  /\ Close("run", statement["primary"])
  /\ Signed
  /\ UNCHANGED <<statement, options, verifier, history>>

StorePrimaryFails ==
  /\ pc = "store"
  /\ Drop("run")
  /\ Ends("fail")
  /\ UNCHANGED <<statement, options, verifier, history>>

SignCompanion ==
  /\ pc = "sign" /\ NextToSign # "primary"
  /\ envelope' = [envelope EXCEPT ![NextToSign] = statement[NextToSign]]
  /\ Signed
  /\ UNCHANGED <<statement, options, verifier, writers, mixed, history>>

StoreCompanionFails ==
  /\ pc = "sign" /\ NextToSign # "primary"
  /\ envelope' = [envelope EXCEPT ![NextToSign] = Torn]
  /\ Ends("fail")
  /\ UNCHANGED <<statement, options, verifier, writers, mixed, history>>

\* _maybe_annotate_verdict: only the score's envelope is annotated.
LoadOwnEnvelope ==
  /\ pc = "load"
  /\ envelope["primary"].state = "whole"
  /\ held' = [held EXCEPT !["run"] = envelope["primary"]]
  /\ pc' = "annotate"
  /\ UNCHANGED <<statement, options, todo, attempts, exit, verifier, primaryFile, history>>

Annotate ==
  /\ pc = "annotate"
  /\ OpenForWriting("run")
  /\ pc' = "annotating"
  /\ UNCHANGED <<statement, options, locals, exit, verifier, history>>

VerdictAnnotated ==
  /\ pc = "annotating"
  /\ Close("run", WithVerdict(held["run"]))
  /\ pc' = "gate"
  /\ UNCHANGED <<statement, options, locals, exit, verifier, history>>

\* An envelope that cannot be loaded or rewritten is a warning.
AnnotateFails ==
  /\ pc \in {"load", "annotate", "annotating"}
  /\ Drop("run")
  /\ pc' = "gate"
  /\ UNCHANGED <<statement, options, locals, exit, verifier, history>>

\* Whatever became of the annotation, the score's gate decides the exit.
GateExit ==
  /\ pc = "gate"
  /\ \E status \in {"pass", "fail"} : Ends(status)
  /\ UNCHANGED <<statement, options, verifier, primaryFile, history>>

\* The run is killed.
Killed ==
  /\ pc # "idle"
  /\ Drop("run")
  /\ Ends("fail")
  /\ UNCHANGED <<statement, options, verifier, history>>

-----------------------------------------------------------------------------
(* verify --write-verdict.                                                  *)

Moves(v, from, to) == verifier[v] = from /\ verifier' = [verifier EXCEPT ![v] = to]

runState == <<statement, options, pc, todo, attempts, exit>>

\* An absent or torn file is refused with EXIT_FILE_ERROR.
VerifyLoads(v) ==
  /\ envelope["primary"].state = "whole"
  /\ Moves(v, "idle", "loaded")
  /\ held' = [held EXCEPT ![v] = envelope["primary"]]
  /\ UNCHANGED <<runState, primaryFile, history>>

VerifyOpens(v) ==
  /\ Moves(v, "loaded", "writing")
  /\ OpenForWriting(v)
  /\ UNCHANGED <<runState, held, history>>

\* Mistake: the verdict is merged into the newest envelope.
VerifyWritesMerging(v) ==
  /\ Moves(v, "writing", "idle")
  /\ Close(v, [Whole(newest) EXCEPT !.verdictOn = held[v].run])
  /\ held' = [held EXCEPT ![v] = Absent]
  /\ UNCHANGED <<runState, history>>

VerifyWrites(v) ==
  /\ Moves(v, "writing", "idle")
  /\ Close(v, WithVerdict(held[v]))
  /\ held' = [held EXCEPT ![v] = Absent]
  /\ UNCHANGED <<runState, history>>

\* The write fails, or the process dies.
VerifyFails(v) ==
  /\ Moves(v, "loaded", "idle") \/ Moves(v, "writing", "idle")
  /\ Drop(v)
  /\ held' = [held EXCEPT ![v] = Absent]
  /\ UNCHANGED <<runState, history>>

-----------------------------------------------------------------------------
RunStep ==
  \/ WriteStatements
  \/ WriteStatementFails
  \/ GetToken
  \/ GetTokenFails
  \/ SigningFails
  \/ SignPrimary
  \/ StorePrimary
  \/ StorePrimaryFails
  \/ SignCompanion
  \/ StoreCompanionFails
  \/ LoadOwnEnvelope
  \/ Annotate
  \/ VerdictAnnotated
  \/ AnnotateFails
  \/ GateExit

Verify == \E v \in Verifier : VerifyLoads(v) \/ VerifyOpens(v) \/ VerifyWrites(v) \/ VerifyFails(v)

Done == pc = "idle" /\ run = MaxRuns /\ UNCHANGED vars

Next == StartRun \/ RunStep \/ Killed \/ Verify \/ Done

\* Token requests have a timeout and sigstore's calls end or raise.
Spec == Init /\ [][Next]_vars /\ WF_vars(RunStep)

-----------------------------------------------------------------------------
(* Properties.                                                              *)

TypeOK ==
  /\ statement \in [Kind -> File] /\ envelope \in [Kind -> File]
  /\ run \in 0..MaxRuns /\ newest \in 0..MaxRuns
  /\ emitted \subseteq Kind /\ signing \in BOOLEAN
  /\ pc \in {"idle", "write", "token", "sign", "store", "load", "annotate", "annotating", "gate"}
  /\ todo \subseteq Kind
  /\ attempts \in 0..MaxAttempts
  /\ held \in [Process -> File]
  /\ exit \in {"none", "pass", "fail"}
  /\ verifier \in [Verifier -> {"idle", "loaded", "writing"}]
  /\ writers \subseteq Process
  /\ mixed \in BOOLEAN /\ raced \in BOOLEAN

\* A run that signs and passes leaves no companion statement unsigned, and no
\* companion envelope of an earlier run in its place, whatever failed before.
CompanionsOfThisRun ==
  exit = "pass" /\ signing =>
    \A k \in emitted \ {"primary"} : envelope[k] = Whole(run)

\* The verdict an envelope carries was computed from the payload it carries,
\* whatever runs and verifications rewrote the file at the same time.
VerdictOnOwnPayload ==
  \A k \in Kind : envelope[k].verdictOn \in {0, envelope[k].run}

\* The score of an earlier run comes back only through a verification that
\* had loaded it before the newer one was signed.
OldScoreNeedsARace ==
  envelope["primary"].state = "whole" /\ ~raced => envelope["primary"].run = newest

\* The documented promise that annotating the verdict never undoes the
\* signing that succeeded before it (main.py, _maybe_annotate_verdict): a run
\* that signs and passes leaves its signed score behind.
PassingRunKeepsItsScore ==
  exit = "pass" /\ signing =>
    envelope["primary"].state = "whole" /\ envelope["primary"].run = run

\* Every run ends.
RunsEnd == pc # "idle" ~> pc = "idle"
=============================================================================
