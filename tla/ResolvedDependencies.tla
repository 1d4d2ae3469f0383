-------------------------- MODULE ResolvedDependencies --------------------------
(***************************************************************************)
(* cli/parsers/lockfiles.py and the step of cli/main.py that calls it: the *)
(* repository is walked for the lockfiles of twelve package managers, each *)
(* is parsed by a scanner of its own, and an SBOM stands in only when the  *)
(* walk found nothing.                                                     *)
(*                                                                         *)
(* Four formats are scanned line by line, with the entry under            *)
(* construction kept between lines; a line is what the scanner's patterns  *)
(* make of it.  The others are read as a whole and picked from entry by    *)
(* entry.                                                                  *)
(***************************************************************************)
EXTENDS SbomIngestion

CONSTANTS
  NoName,         \* a name, key or version that could not be made out
  Dir, Root       \* the directories of a repository

EntryFormat == {"uv", "poetry", "pipfile", "npm", "go_sum", "gradle_lock", "gradle_build", "pom"}
LineFormat == {"pip_compile", "pnpm", "yarn_classic", "yarn_berry"}

\* A line, or an entry, of a lockfile: fields its kind has no use for are
\* NoName or empty.
Line == [kind : STRING, name : Name \cup {NoName}, version : Version \cup {NoName},
         hash : SUBSET Hash]
Artifact == [kind : STRING, hash : SUBSET Hash]
Entry == [kind : STRING, uri : Purl, artifacts : Seq(Artifact)]

\* What the patterns of a scanner tell apart.
LineKinds ==
  [pip_compile |-> {"requirement", "hash", "bad_hash", "other"},
   pnpm |-> {"packages", "section", "key", "resolution"},
   yarn_classic |-> {"header", "version", "integrity"},
   yarn_berry |-> {"header", "metadata", "version", "checksum"}]

\* A requirement is pinned and its hash lines state one hash each; a checksum
\* states at most one.
LineOf(format) ==
  {l \in Line : /\ l.kind \in LineKinds[format]
                /\ l.kind = "requirement" => l.name \in Name /\ l.version \in Version
                /\ l.kind = "metadata" => l.name = NoName
                /\ l.kind = "hash" => \E h \in Hash : l.hash = {h}
                /\ l.kind = "checksum" => l.hash \in Digest}

\* What the readers of the other formats tell apart.
EntryKinds(format) ==
  {"pinned", "incomplete"} \cup
  CASE format = "npm" -> {"link", "outside"}
    [] format = "go_sum" -> {"go.mod"}
    [] format = "gradle_lock" -> {"comment", "empty"}
    [] format = "gradle_build" -> {"comment", "range", "placeholder"}
    [] format = "pom" -> {"range", "placeholder", "misplaced"}
    [] OTHER -> {}

\* Only an SRI string states more than one hash of an artifact.
EntryOf(format) ==
  {e \in Entry : /\ e.kind \in EntryKinds(format)
                 /\ format # "npm" =>
                      \A i \in DOMAIN e.artifacts : e.artifacts[i].hash \in Digest}

IsLockfile(file) ==
  \/ file.format \in LineFormat /\ file.content \in Seq(LineOf(file.format))
  \/ file.format \in EntryFormat /\ file.content \in Seq(EntryOf(file.format))

IsDirectory(d) ==
  /\ d.skipped \in BOOLEAN /\ d.listable \in BOOLEAN
  /\ d.subdirs \in Seq(Dir)
  /\ \A i \in DOMAIN d.files : i \in Nat /\ d.files[i].readable \in BOOLEAN /\ IsLockfile(d.files[i])

ASSUME DependenciesAssumption ==
  /\ NoName \notin Name \cup Version
  /\ Root \in Dir
  /\ \A h \in Hash : h.algo \in {"sha512", "sha256", "sha1", "gitCommit"}

VARIABLES
  repository,  \* the checkout: its directories, listed in the order the file system gives
  pending,     \* the stack of directories still to be listed
  resolved     \* resolved_dependencies so far

dependencyVars == <<repository, pending, resolved>>

Dependency(uri, digest) == [uri |-> uri, digest |-> digest]

-----------------------------------------------------------------------------
(* Digests.                                                                  *)

WithHash(digest, hash) == {h \in digest : h.algo # hash.algo} \cup {hash}

Strength == [sha512 |-> 3, sha256 |-> 2, sha1 |-> 1, gitCommit |-> 0]

\* _decode_sri_integrity: the strongest of the entries that decode.
DecodeSri(hashes) ==
  LET known == {h \in hashes : Strength[h.algo] > 0}
  IN  IF known = {} THEN {}
      ELSE {CHOOSE h \in known : \A g \in known : Strength[g.algo] <= Strength[h.algo]}

\* _decode_yarn_berry_checksum: a SHA-512 or nothing.
DecodeChecksum(hashes) == {h \in hashes : h.algo = "sha512"}

\* Of the artifacts at these places, the first that states a hash.
FirstHash(artifacts, places) ==
  LET hashed == {i \in places : artifacts[i].hash # {}}
  IN  IF hashed = {} THEN {} ELSE artifacts[Min(hashed)].hash

OfKind(artifacts, kind) == {i \in DOMAIN artifacts : artifacts[i].kind = kind}

\* _uv_package_digest: the first wheel, else the sdist, else the git commit.
UvDigest(artifacts) ==
  LET wheels == OfKind(artifacts, "wheel")
      wheel  == FirstHash(artifacts, {i \in wheels : \A j \in wheels : i <= j})
      sdist  == FirstHash(artifacts, OfKind(artifacts, "sdist"))
  IN  IF wheel # {} THEN wheel
      ELSE IF sdist # {} THEN sdist ELSE FirstHash(artifacts, OfKind(artifacts, "git"))

\* _poetry_package_digest: the first well-formed wheel, else the first file.
PoetryDigest(artifacts) ==
  LET wheel == FirstHash(artifacts, OfKind(artifacts, "wheel"))
  IN  IF wheel # {} THEN wheel ELSE FirstHash(artifacts, DOMAIN artifacts)

NpmDigest(artifacts) == DecodeSri(UNION {artifacts[i].hash : i \in DOMAIN artifacts})

-----------------------------------------------------------------------------
(* Entry by entry.  An entry of kind "pinned" names a package at a version;   *)
(* one that is "incomplete" lacks a name or a version, or is not what the     *)
(* pattern of its format expects.                                            *)

ListedIf(lists, entry, digest) == IF lists THEN <<Dependency(entry.uri, digest)>> ELSE << >>

\* The [[package]] tables of uv.lock and of poetry.lock.
UvPackage(entry) == ListedIf(entry.kind # "incomplete", entry, UvDigest(entry.artifacts))
PoetryPackage(entry) == ListedIf(entry.kind # "incomplete", entry, PoetryDigest(entry.artifacts))

\* The default and the develop section of Pipfile.lock.
PipfileEntry(entry) ==
  ListedIf(entry.kind # "incomplete", entry, FirstHash(entry.artifacts, DOMAIN entry.artifacts))

\* package-lock.json: a workspace link and a key outside of node_modules,
\* such as the root project, are no dependencies.
NpmEntry(entry) ==
  ListedIf(entry.kind \notin {"incomplete", "link", "outside"}, entry, NpmDigest(entry.artifacts))

\* go.sum: the hash of a go.mod file is not that of the module.
GoSumLine(entry) ==
  ListedIf(entry.kind \notin {"incomplete", "go.mod"}, entry,
           FirstHash(entry.artifacts, DOMAIN entry.artifacts))

\* gradle.lockfile, whose entries carry no digest.
GradleLockLine(entry) == ListedIf(entry.kind \notin {"incomplete", "comment", "empty"}, entry, {})

\* build.gradle: a floating version, a range or a variable is no pin.
GradleBuildLine(entry) ==
  ListedIf(entry.kind \notin {"incomplete", "comment", "range", "placeholder"}, entry, {})

\* pom.xml: an element below <dependencies> whose coordinates hold no ${...}.
\* A range is listed as if it were a version.
PomElement(entry) ==
  ListedIf(entry.kind \notin {"incomplete", "misplaced", "placeholder"}, entry, {})

\* _LOCKFILE_PARSERS, as far as it names parsers of entries.
ParseEntry(format, entry) ==
  CASE format = "uv" -> UvPackage(entry)
    [] format = "poetry" -> PoetryPackage(entry)
    [] format = "pipfile" -> PipfileEntry(entry)
    [] format = "npm" -> NpmEntry(entry)
    [] format = "go_sum" -> GoSumLine(entry)
    [] format = "gradle_lock" -> GradleLockLine(entry)
    [] format = "gradle_build" -> GradleBuildLine(entry)
    [] OTHER -> PomElement(entry)

\* The dependencies of a file, by the place of their entries in it.
ParseEntries(format, entries) ==
  [i \in {j \in DOMAIN entries : ParseEntry(format, entries[j]) # << >>} |->
     ParseEntry(format, entries[i])[1]]

-----------------------------------------------------------------------------
(* Line by line.  `entry` holds the entry under construction.                 *)

EmptyScan == [deps |-> << >>, settled |-> FALSE, inside |-> FALSE, name |-> NoName,
              version |-> NoName, digest |-> {}]

Flushed(entry, complete) ==
  IF complete THEN Append(entry.deps, Dependency(<<entry.name, entry.version>>, entry.digest))
  ELSE entry.deps

\* _flush of _pip_compile_entries: an entry without a hash is no dependency.
PipFlush(entry) ==
  [EmptyScan EXCEPT !.deps = Flushed(entry, entry.name # NoName /\ entry.digest # {})]

PipLine(entry, line) ==
  CASE line.kind = "requirement" ->
         [PipFlush(entry) EXCEPT !.name = line.name, !.version = line.version]
    [] line.kind = "hash" ->
         IF entry.name = NoName THEN entry
         ELSE [entry EXCEPT !.digest = WithHash(@, CHOOSE h \in line.hash : TRUE)]
    [] line.kind = "bad_hash" -> entry
    [] OTHER -> PipFlush(entry)

\* parse_pnpm_lock: any line indented like a key opens an entry, and the
\* first resolution of an entry counts, decoded or not.
PnpmFlush(entry) == Flushed(entry, entry.name # NoName /\ entry.version # NoName)

PnpmLine(entry, line) ==
  IF line.kind = "packages" THEN [entry EXCEPT !.inside = TRUE]
  ELSE IF ~entry.inside THEN entry
  ELSE CASE line.kind = "section" -> [EmptyScan EXCEPT !.deps = PnpmFlush(entry)]
         [] line.kind = "key" ->
              [EmptyScan EXCEPT !.deps = PnpmFlush(entry), !.inside = TRUE,
                                !.name = line.name, !.version = line.version]
         [] line.kind = "resolution" ->
              IF entry.settled THEN entry
              ELSE [entry EXCEPT !.settled = TRUE, !.digest = DecodeSri(line.hash)]
         [] OTHER -> entry

\* _parse_yarn_classic and _parse_yarn_berry: the last version and the last
\* digest of a block count; Berry's __metadata block names no package.
YarnFlush(entry) == [EmptyScan EXCEPT !.deps =
                      Flushed(entry, entry.name # NoName /\ entry.version # NoName)]

\* Mistake: a block keeps the digest of the one before it.
YarnLineKeepsDigest(entry, line) ==
  IF line.kind \in {"header", "metadata"}
    THEN [YarnFlush(entry) EXCEPT !.name = line.name, !.digest = entry.digest]
  ELSE IF entry.name = NoName THEN entry
  ELSE CASE line.kind = "version" -> [entry EXCEPT !.version = line.version]
         [] line.kind = "integrity" -> [entry EXCEPT !.digest = DecodeSri(line.hash)]
         [] line.kind = "checksum" -> [entry EXCEPT !.digest = DecodeChecksum(line.hash)]
         [] OTHER -> entry

YarnLine(entry, line) ==
  IF line.kind \in {"header", "metadata"}
    THEN [YarnFlush(entry) EXCEPT !.name = line.name]
  ELSE IF entry.name = NoName THEN entry
  ELSE CASE line.kind = "version" -> [entry EXCEPT !.version = line.version]
         [] line.kind = "integrity" -> [entry EXCEPT !.digest = DecodeSri(line.hash)]
         [] line.kind = "checksum" -> [entry EXCEPT !.digest = DecodeChecksum(line.hash)]
         [] OTHER -> entry

ScanLine(format, entry, line) ==
  CASE format = "pip_compile" -> PipLine(entry, line)
    [] format = "pnpm" -> PnpmLine(entry, line)
    [] OTHER -> YarnLine(entry, line)

\* The scanner's state after each number of lines.
Scan(format, lines) ==
  LET after[n \in 0..Len(lines)] ==
        IF n = 0 THEN EmptyScan ELSE ScanLine(format, after[n - 1], lines[n])
  IN  after

ParseLines(format, lines) ==
  LET last == Scan(format, lines)[Len(lines)]
  IN  CASE format = "pip_compile" -> PipFlush(last).deps
        [] format = "pnpm" -> PnpmFlush(last)
        [] OTHER -> YarnFlush(last).deps

\* A file that cannot be read, or is malformed as a whole, yields nothing.
ParseLockfile(file) ==
  IF ~file.readable THEN << >>
  ELSE IF file.format \in LineFormat THEN ParseLines(file.format, file.content)
  ELSE ParseEntries(file.format, file.content)

-----------------------------------------------------------------------------
(* What a lockfile declares, said without the scanner's running state: each  *)
(* line that opens a block owns the lines up to the next that ends it.       *)

Opens(format) == IF format = "pip_compile" THEN {"requirement"}
                 ELSE IF format = "pnpm" THEN {"key"} ELSE {"header", "metadata"}
Ends(format) == Opens(format) \cup (IF format = "pip_compile" THEN {"other"}
                                    ELSE IF format = "pnpm" THEN {"section"} ELSE {})

\* The lines of the block opened at i.
Block(format, lines, i) ==
  {k \in (i + 1)..Len(lines) : \A m \in (i + 1)..k : lines[m].kind \notin Ends(format)}

\* Does the line belong to the part of the file that holds packages.
Counts(format, lines, i) ==
  format = "pnpm" =>
    \E p \in 1..(i - 1) : /\ lines[p].kind = "packages"
                          /\ \A m \in p..i : lines[m].kind # "section"

OfBlock(lines, block, kind) == {k \in block : lines[k].kind = kind}

BlockVersion(format, lines, i, block) ==
  LET versions == OfBlock(lines, block, "version")
  IN  IF format \in {"pip_compile", "pnpm"} THEN lines[i].version
      ELSE IF versions = {} THEN NoName ELSE lines[Max(versions)].version

BlockDigest(format, lines, block) ==
  CASE format = "pip_compile" ->
         {h \in UNION {lines[k].hash : k \in OfBlock(lines, block, "hash")} :
            \E k \in OfBlock(lines, block, "hash") :
              /\ h \in lines[k].hash
              /\ \A m \in OfBlock(lines, block, "hash") :
                   m > k => \A g \in lines[m].hash : g.algo # h.algo}
    [] format = "pnpm" ->
         LET own == OfBlock(lines, block, "resolution")
         IN  IF own = {} THEN {} ELSE DecodeSri(lines[Min(own)].hash)
    [] format = "yarn_classic" ->
         LET own == OfBlock(lines, block, "integrity")
         IN  IF own = {} THEN {} ELSE DecodeSri(lines[Max(own)].hash)
    [] OTHER ->
         LET own == OfBlock(lines, block, "checksum")
         IN  IF own = {} THEN {} ELSE DecodeChecksum(lines[Max(own)].hash)

DeclaredByLines(format, lines) ==
  LET At(i) == LET block == Block(format, lines, i)
               IN  Dependency(<<lines[i].name, BlockVersion(format, lines, i, block)>>,
                              BlockDigest(format, lines, block))
      blocks == {i \in DOMAIN lines : lines[i].kind \in Opens(format) /\ Counts(format, lines, i)}
  IN  {d \in {At(i) : i \in blocks} :
         /\ d.uri \in Purl
         /\ format = "pip_compile" => d.digest # {}}

DigestOf(format, artifacts) ==
  CASE format = "uv" -> UvDigest(artifacts)
    [] format = "poetry" -> PoetryDigest(artifacts)
    [] format = "npm" -> NpmDigest(artifacts)
    [] format \in {"pipfile", "go_sum"} -> FirstHash(artifacts, DOMAIN artifacts)
    [] OTHER -> {}

\* An entry that pins a package declares it; a range does so only in a pom.
DeclaredBy(file) ==
  IF ~file.readable THEN {}
  ELSE IF file.format \in LineFormat THEN DeclaredByLines(file.format, file.content)
  ELSE LET entries == {e \in ToSet(file.content) :
                         \/ e.kind = "pinned"
                         \/ file.format = "pom" /\ e.kind = "range"}
       IN  {Dependency(e.uri, DigestOf(file.format, e.artifacts)) : e \in entries}

\* The directories that the walk descends into from a directory.
Below(repo, d) == {e \in ToSet(repo[d].subdirs) : repo[d].listable /\ ~repo[e].skipped}

\* The directories a walk from this one has to reach: every set of directories
\* that has it and what is below its members has them.
Reachable(repo, from) ==
  {d \in Dir : \A D \in SUBSET Dir :
     from \in D /\ (\A e \in D : Below(repo, e) \subseteq D) => d \in D}

\* What the lockfiles of one directory declare, and of all in reach.
DeclaredIn(repo, d) ==
  IF repo[d].listable THEN UNION {DeclaredBy(f) : f \in ToSet(repo[d].files)} ELSE {}

Declared(repo) == UNION {DeclaredIn(repo, d) : d \in Reachable(repo, Root)}

-----------------------------------------------------------------------------
(* The walk.                                                                 *)

NoRepository == [d \in Dir |-> [skipped |-> FALSE, listable |-> FALSE,
                                subdirs |-> << >>, files |-> << >>]]

Uris(deps) == {d.uri : d \in deps}

\* Where the dependencies of several files are found: in which file, and there.
Places(parsed) == UNION {{f} \X DOMAIN parsed[f] : f \in DOMAIN parsed}

Before(p, q) == p[1] < q[1] \/ (p[1] = q[1] /\ p[2] < q[2])

\* detect_and_parse_dependencies: the first lockfile to name a URI wins.
Merge(deps, parsed) ==
  LET At(p) == parsed[p[1]][p[2]]
      Wins(p) == /\ At(p).uri \notin Uris(deps)
                 /\ \A q \in Places(parsed) : Before(q, p) => At(q).uri # At(p).uri
  IN  deps \cup {At(p) : p \in {q \in Places(parsed) : Wins(q)}}

StartWalk ==
  /\ pending' = <<Root>> /\ resolved' = {}
  /\ UNCHANGED repository

\* The directories _iter_lockfiles descends into, in the order it meets them.
Subdirectories(d) ==
  LET met == repository[d].subdirs
      kept[n \in 0..Len(met)] ==
        IF n = 0 THEN << >>
        ELSE IF repository[met[n]].skipped THEN kept[n - 1] ELSE Append(kept[n - 1], met[n])
  IN  kept[Len(met)]

\* What the parsers make of the lockfiles of a directory.
Parsing(locks) == [i \in DOMAIN locks |-> ParseLockfile(locks[i])]

\* _iter_lockfiles pops a directory and lists it; one that cannot be listed
\* is passed over.
ListDirectory ==
  /\ pending # << >>
  /\ LET d == Last(pending)
     IN  IF repository[d].listable
           THEN /\ pending' = Front(pending) \o Subdirectories(d)
                /\ resolved' = Merge(resolved, Parsing(repository[d].files))
           ELSE pending' = Front(pending) /\ UNCHANGED resolved
  /\ UNCHANGED repository

\* sbom_components_to_resolved_dependencies: the first component to produce
\* a PURL wins, one without a PURL is left out.
SbomDependencies(parsed) ==
  LET known == {i \in DOMAIN parsed.components : parsed.components[i].purl # NoPurl}
  IN  Merge({}, <<[i \in known |-> Dependency(parsed.components[i].purl,
                                              parsed.components[i].digest)]>>)

\* _detect_lockfile_dependencies: the SBOM stands in for an empty walk only.
WithSbom(deps, parsed) ==
  IF deps # {} \/ parsed.state # "read" THEN deps ELSE SbomDependencies(parsed)

WalkEnds ==
  /\ pending = << >>
  /\ resolved' = WithSbom(resolved, sbom)
  /\ UNCHANGED <<repository, pending>>

-----------------------------------------------------------------------------
(* Properties.                                                              *)

\* The type of the variables.
DependencyTypeOK ==
  /\ DOMAIN repository = Dir
  /\ pending \in Seq(Dir)
  /\ resolved \subseteq [uri : Purl, digest : Digest]
=============================================================================
