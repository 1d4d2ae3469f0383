----------------------------- MODULE LockfileProofs -----------------------------
(***************************************************************************)
(* What the parsers and the walk of ResolvedDependencies make of lockfiles *)
(* of any length and of any tree of directories: the lemmas the theorems   *)
(* of a run (ProvenanceEvidenceProofs) rest on.                            *)
(***************************************************************************)
EXTENDS ResolvedDependencies, Induction, SequenceTheorems

LEMMA MinOf ==
  ASSUME NEW S \in SUBSET Nat, S # {}
  PROVE  Min(S) \in S /\ \A y \in S : Min(S) <= y
<1>1. \E x \in S : \A y \in S : x <= y
  BY Least
<1>2. QED
  BY <1>1 DEF Min

LEMMA MaxIs ==
  ASSUME NEW S \in SUBSET Nat, NEW n \in S, \A y \in S : y <= n
  PROVE  Max(S) = n
<1>1. n \in S /\ \A y \in S : n >= y
  OBVIOUS
<1>2. Max(S) \in S /\ \A y \in S : Max(S) >= y
  BY <1>1 DEF Max
<1>3. Max(S) \in Nat /\ n \in Nat /\ Max(S) >= n /\ n >= Max(S)
  BY <1>1, <1>2
<1>4. QED
  BY <1>3

LEMMA MinIs ==
  ASSUME NEW S \in SUBSET Nat, NEW n \in S, \A y \in S : n <= y
  PROVE  Min(S) = n
<1>1. Min(S) \in S /\ \A y \in S : Min(S) <= y
  BY MinOf
<1>2. Min(S) \in Nat /\ n \in Nat /\ Min(S) <= n /\ n <= Min(S)
  BY <1>1
<1>3. QED
  BY <1>2

-----------------------------------------------------------------------------
(* Digests.                                                                  *)

Dependencies == [uri : Purl, digest : Digest]

LEMMA SmallDigests == {} \in Digest /\ \A h \in Hash : {h} \in Digest
BY DEF Digest

LEMMA DecodeSriType == ASSUME NEW hashes \in SUBSET Hash PROVE DecodeSri(hashes) \in Digest
<1> DEFINE known == {h \in hashes : Strength[h.algo] > 0}
           S(n) == {h \in known : Strength[h.algo] = n}
           strongest == CHOOSE h \in known : \A g \in known : Strength[g.algo] <= Strength[h.algo]
<1>1. \A h \in hashes : Strength[h.algo] \in {0, 1, 2, 3}
  BY DependenciesAssumption DEF Strength
<1>2. CASE known = {}
  BY <1>2, SmallDigests DEF DecodeSri
<1>3. CASE known # {}
  <2>1. \E h \in known : \A g \in known : Strength[g.algo] <= Strength[h.algo]
    <3>1. CASE \E h \in known : Strength[h.algo] = 3
      BY <1>1, <3>1
    <3>2. CASE (\A h \in known : Strength[h.algo] # 3) /\ \E h \in known : Strength[h.algo] = 2
      BY <1>1, <3>2
    <3>3. CASE \A h \in known : Strength[h.algo] # 3 /\ Strength[h.algo] # 2
      BY <1>1, <1>3, <3>3
    <3>4. QED
      BY <3>1, <3>2, <3>3
  <2>2. strongest \in hashes
    BY <2>1
  <2>3. DecodeSri(hashes) = {strongest}
    BY <1>3 DEF DecodeSri
  <2>4. QED
    BY <2>2, <2>3, SmallDigests
<1>4. QED
  BY <1>2, <1>3

LEMMA DecodeChecksumType ==
  ASSUME NEW digest \in Digest PROVE DecodeChecksum(digest) \in Digest
BY DEF DecodeChecksum, Digest

LEMMA WithHashType ==
  ASSUME NEW digest \in Digest, NEW h \in Hash PROVE WithHash(digest, h) \in Digest
BY DEF WithHash, Digest

LEMMA FirstHashType ==
  ASSUME NEW artifacts \in Seq(Artifact), \A i \in DOMAIN artifacts : artifacts[i].hash \in Digest,
         NEW places \in SUBSET DOMAIN artifacts
  PROVE  FirstHash(artifacts, places) \in Digest
<1> DEFINE hashed == {i \in places : artifacts[i].hash # {}}
<1>1. hashed \in SUBSET Nat
  OBVIOUS
<1>2. CASE hashed = {}
  BY <1>2, SmallDigests DEF FirstHash
<1>3. CASE hashed # {}
  <2>1. Min(hashed) \in hashed
    <3> HIDE DEF hashed
    <3>1. QED
      BY <1>1, <1>3, MinOf
  <2>2. QED
    BY <1>3, <2>1 DEF FirstHash
<1>4. QED
  BY <1>2, <1>3

LEMMA DigestOfType ==
  ASSUME NEW format \in EntryFormat, NEW e \in EntryOf(format)
  PROVE  DigestOf(format, e.artifacts) \in Digest
<1>1. e.artifacts \in Seq(Artifact)
  BY DEF EntryOf, Entry
<1>2. CASE format = "npm"
  <2>1. \A i \in DOMAIN e.artifacts : e.artifacts[i].hash \in SUBSET Hash
    <3>1. \A i \in DOMAIN e.artifacts : e.artifacts[i] \in Artifact
      BY <1>1
    <3>2. QED
      BY <3>1 DEF Artifact
  <2>2. UNION {e.artifacts[i].hash : i \in DOMAIN e.artifacts} \in SUBSET Hash
    BY <2>1
  <2>3. QED
    BY <1>2, <2>2, DecodeSriType DEF DigestOf, NpmDigest
<1>3. CASE format # "npm"
  <2>1. \A i \in DOMAIN e.artifacts : e.artifacts[i].hash \in Digest
    BY <1>3 DEF EntryOf
  <2>2. \A places \in SUBSET DOMAIN e.artifacts : FirstHash(e.artifacts, places) \in Digest
    BY <1>1, <2>1, FirstHashType
  <2>3. UvDigest(e.artifacts) \in Digest /\ PoetryDigest(e.artifacts) \in Digest
    BY <2>2 DEF UvDigest, PoetryDigest, OfKind
  <2>4. QED
    BY <1>3, <2>2, <2>3, SmallDigests DEF DigestOf
<1>4. QED
  BY <1>2, <1>3

\* The entries that are listed are those that pin a package, or that state a
\* range in a pom, with the digest of their artifacts.
LEMMA ParseEntryIs ==
  ASSUME NEW format \in EntryFormat, NEW e \in EntryOf(format)
  PROVE  ParseEntry(format, e) =
           IF e.kind = "pinned" \/ (format = "pom" /\ e.kind = "range")
             THEN <<Dependency(e.uri, DigestOf(format, e.artifacts))>> ELSE << >>
<1>1. e.kind \in EntryKinds(format)
  BY DEF EntryOf
<1>2. CASE format \in {"uv", "poetry", "pipfile", "npm", "go_sum"}
  BY <1>1, <1>2 DEF EntryKinds, ParseEntry, DigestOf, UvPackage, PoetryPackage, PipfileEntry,
                    NpmEntry, GoSumLine, ListedIf
<1>3. CASE format \in {"gradle_lock", "gradle_build", "pom"}
  BY <1>1, <1>3 DEF EntryKinds, ParseEntry, DigestOf, GradleLockLine, GradleBuildLine, PomElement,
                    ListedIf
<1>4. QED
  BY <1>2, <1>3 DEF EntryFormat

\* What a function takes its arguments to.
Listed(deps) == {deps[i] : i \in DOMAIN deps}

LEMMA EntriesAreDeclared ==
  ASSUME NEW file, file.readable = TRUE, file.format \in EntryFormat,
         file.content \in Seq(EntryOf(file.format))
  PROVE  /\ Listed(ParseEntries(file.format, file.content)) = DeclaredBy(file)
         /\ DOMAIN ParseEntries(file.format, file.content) \subseteq Nat
         /\ DeclaredBy(file) \subseteq Dependencies
<1> DEFINE entries == file.content
           Pins(e) == e.kind = "pinned" \/ (file.format = "pom" /\ e.kind = "range")
           Made(e) == Dependency(e.uri, DigestOf(file.format, e.artifacts))
           parsed == ParseEntries(file.format, file.content)
<1>1. file.format \notin LineFormat
  BY DEF EntryFormat, LineFormat
<1>2. \A i \in DOMAIN entries : entries[i] \in EntryOf(file.format) /\ i \in Nat
  OBVIOUS
<1>3. \A i \in DOMAIN entries :
        /\ ParseEntry(file.format, entries[i]) # << >> <=> Pins(entries[i])
        /\ Pins(entries[i]) => ParseEntry(file.format, entries[i])[1] = Made(entries[i])
  <2> SUFFICES ASSUME NEW i \in DOMAIN entries
               PROVE  /\ ParseEntry(file.format, entries[i]) # << >> <=> Pins(entries[i])
                      /\ Pins(entries[i]) => ParseEntry(file.format, entries[i])[1] = Made(entries[i])
    OBVIOUS
  <2>1. ParseEntry(file.format, entries[i]) = IF Pins(entries[i]) THEN <<Made(entries[i])>> ELSE << >>
    BY <1>2, ParseEntryIs
  <2>2. QED
    <3> HIDE DEF Pins, Made
    <3>1. QED
      BY <2>1
<1>4. parsed = [i \in {j \in DOMAIN entries : Pins(entries[j])} |-> Made(entries[i])]
  BY <1>3 DEF ParseEntries
<1>5. DeclaredBy(file) = {Made(e) : e \in {x \in ToSet(entries) : Pins(x)}}
  BY <1>1 DEF DeclaredBy
<1>6. Listed(parsed) = DeclaredBy(file) /\ DOMAIN parsed \subseteq Nat
  BY <1>2, <1>4, <1>5 DEF Listed, ToSet
<1>7. \A i \in DOMAIN entries : Made(entries[i]) \in Dependencies
  BY <1>2, DigestOfType DEF Dependency, Dependencies, EntryOf, Entry
<1>8. QED
  BY <1>5, <1>6, <1>7 DEF ToSet

-----------------------------------------------------------------------------
(* The line scanners.                                                        *)

ScanStates(format) ==
  {s \in [deps : Seq(Dependencies), settled : BOOLEAN, inside : BOOLEAN,
          name : Name \cup {NoName}, version : Version \cup {NoName}, digest : Digest] :
     format = "pip_compile" /\ s.name # NoName => s.version \in Version}

LEMMA EmptyScanType == ASSUME NEW format PROVE EmptyScan \in ScanStates(format)
BY SmallDigests, EmptySeq DEF EmptyScan, ScanStates

LEMMA FlushedType ==
  ASSUME NEW format, NEW s \in ScanStates(format), NEW complete \in BOOLEAN,
         complete => s.name # NoName /\ s.version # NoName
  PROVE  Flushed(s, complete) \in Seq(Dependencies)
<1>1. s.deps \in Seq(Dependencies)
  BY DEF ScanStates
<1>2. complete => Dependency(<<s.name, s.version>>, s.digest) \in Dependencies
  BY DEF ScanStates, Dependency, Dependencies, Purl
<1>3. QED
  BY <1>1, <1>2, AppendProperties DEF Flushed

\* A state after a flush, its fields given.
LEMMA FreshState ==
  ASSUME NEW format, NEW deps \in Seq(Dependencies), NEW inside \in BOOLEAN,
         NEW name \in Name \cup {NoName}, NEW version \in Version \cup {NoName},
         format = "pip_compile" /\ name # NoName => version \in Version
  PROVE  [EmptyScan EXCEPT !.deps = deps, !.inside = inside, !.name = name, !.version = version]
           \in ScanStates(format)
BY SmallDigests DEF EmptyScan, ScanStates

LEMMA PipFlushType ==
  ASSUME NEW s \in ScanStates("pip_compile")
  PROVE  PipFlush(s) \in ScanStates("pip_compile") /\ PipFlush(s).deps \in Seq(Dependencies)
<1> DEFINE deps == Flushed(s, s.name # NoName /\ s.digest # {})
<1>1. s.name # NoName => s.version \in Version
  BY DEF ScanStates
<1>2. deps \in Seq(Dependencies)
  <2>1. s.name # NoName /\ s.digest # {} => s.name # NoName /\ s.version # NoName
    BY <1>1, DependenciesAssumption
  <2>2. (s.name # NoName /\ s.digest # {}) \in BOOLEAN
    OBVIOUS
  <2>3. QED
    BY <2>1, <2>2, FlushedType
<1>3. PipFlush(s) = [EmptyScan EXCEPT !.deps = deps]
  BY DEF PipFlush
<1>4. QED
  <2> HIDE DEF deps
  <2>1. QED
    BY <1>2, <1>3, SmallDigests DEF ScanStates, EmptyScan

LEMMA PipLineType ==
  ASSUME NEW s \in ScanStates("pip_compile"), NEW line \in LineOf("pip_compile")
  PROVE  PipLine(s, line) \in ScanStates("pip_compile")
<1>1. PipFlush(s) \in ScanStates("pip_compile")
  BY PipFlushType
<1>2. CASE line.kind = "requirement"
  <2>1. line.name \in Name /\ line.version \in Version
    BY <1>2 DEF LineOf
  <2>2. PipLine(s, line) = [PipFlush(s) EXCEPT !.name = line.name, !.version = line.version]
    BY <1>2 DEF PipLine
  <2>3. QED
    BY <1>1, <2>1, <2>2 DEF ScanStates
<1>3. CASE line.kind = "hash"
  <2>1. (CHOOSE h \in line.hash : TRUE) \in Hash
    BY <1>3 DEF LineOf
  <2>2. s.digest \in Digest
    BY DEF ScanStates
  <2>3. WithHash(s.digest, CHOOSE h \in line.hash : TRUE) \in Digest
    BY <2>1, <2>2, WithHashType
  <2>4. QED
    BY <1>3, <2>3 DEF PipLine, ScanStates
<1>4. CASE line.kind \notin {"requirement", "hash"}
  BY <1>1, <1>4 DEF PipLine
<1>5. QED
  BY <1>2, <1>3, <1>4

LEMMA PnpmLineType ==
  ASSUME NEW s \in ScanStates("pnpm"), NEW line \in LineOf("pnpm")
  PROVE  PnpmLine(s, line) \in ScanStates("pnpm") /\ PnpmFlush(s) \in Seq(Dependencies)
<1>1. PnpmFlush(s) \in Seq(Dependencies)
  <2>1. (s.name # NoName /\ s.version # NoName) \in BOOLEAN
    OBVIOUS
  <2>2. QED
    BY <2>1, FlushedType DEF PnpmFlush
<1>2. line.name \in Name \cup {NoName} /\ line.version \in Version \cup {NoName} /\ line.hash \in SUBSET Hash
  BY DEF LineOf, Line
<1>3. DecodeSri(line.hash) \in Digest
  BY <1>2, DecodeSriType
<1>4. CASE line.kind = "packages"
  BY <1>1, <1>4 DEF PnpmLine, ScanStates
<1>5. CASE line.kind = "section" /\ s.inside
  BY <1>1, <1>5, SmallDigests DEF PnpmLine, ScanStates, EmptyScan
<1>6. CASE line.kind = "key" /\ s.inside
  BY <1>1, <1>2, <1>6, SmallDigests DEF PnpmLine, ScanStates, EmptyScan
<1>7. CASE line.kind = "resolution" /\ s.inside
  BY <1>1, <1>3, <1>7 DEF PnpmLine, ScanStates
<1>8. CASE line.kind # "packages" /\ (~s.inside \/ line.kind \notin {"section", "key", "resolution"})
  BY <1>1, <1>8 DEF PnpmLine
<1>9. QED
  BY <1>1, <1>4, <1>5, <1>6, <1>7, <1>8

LEMMA YarnLineType ==
  ASSUME NEW format \in {"yarn_classic", "yarn_berry"}, NEW s \in ScanStates(format),
         NEW line \in LineOf(format)
  PROVE  YarnLine(s, line) \in ScanStates(format) /\ YarnFlush(s).deps \in Seq(Dependencies)
<1> DEFINE deps == Flushed(s, s.name # NoName /\ s.version # NoName)
<1>1. deps \in Seq(Dependencies)
  <2>1. (s.name # NoName /\ s.version # NoName) \in BOOLEAN
    OBVIOUS
  <2>2. QED
    BY <2>1, FlushedType
<1>2. YarnFlush(s) = [EmptyScan EXCEPT !.deps = deps]
  BY DEF YarnFlush
<1> HIDE DEF deps
<1>0. YarnFlush(s).deps \in Seq(Dependencies)
  BY <1>1, <1>2 DEF EmptyScan
<1>3. line.name \in Name \cup {NoName} /\ line.version \in Version \cup {NoName} /\ line.hash \in SUBSET Hash
  BY DEF LineOf, Line
<1>4. DecodeSri(line.hash) \in Digest
  BY <1>3, DecodeSriType
<1>5. line.kind = "checksum" => DecodeChecksum(line.hash) \in Digest
  <2>1. line.kind = "checksum" => line.hash \in Digest
    BY DEF LineOf
  <2>2. QED
    BY <2>1, DecodeChecksumType
<1>6. CASE line.kind \in {"header", "metadata"}
  BY <1>0, <1>1, <1>2, <1>3, <1>6, SmallDigests DEF YarnLine, ScanStates, EmptyScan
<1>7. CASE line.kind \in {"version", "integrity", "checksum"} /\ s.name # NoName
  <2>1. CASE line.kind = "version"
    <3>1. YarnLine(s, line) = [s EXCEPT !.version = line.version]
      BY <1>7, <2>1 DEF YarnLine
    <3>2. QED
      BY <1>0, <1>3, <3>1 DEF ScanStates
  <2>2. CASE line.kind = "integrity"
    <3>1. YarnLine(s, line) = [s EXCEPT !.digest = DecodeSri(line.hash)]
      BY <1>7, <2>2 DEF YarnLine
    <3>2. QED
      BY <1>0, <1>4, <3>1 DEF ScanStates
  <2>3. CASE line.kind = "checksum"
    <3>1. YarnLine(s, line) = [s EXCEPT !.digest = DecodeChecksum(line.hash)]
      BY <1>7, <2>3 DEF YarnLine
    <3>2. QED
      BY <1>0, <1>5, <2>3, <3>1 DEF ScanStates
  <2>4. QED
    BY <1>0, <1>7, <2>1, <2>2, <2>3
<1>8. CASE /\ line.kind \notin {"header", "metadata"}
           /\ s.name = NoName \/ line.kind \notin {"version", "integrity", "checksum"}
  BY <1>0, <1>8 DEF YarnLine
<1>9. QED
  BY <1>6, <1>7, <1>8, <1>0

LEMMA ScanLineType ==
  ASSUME NEW format \in LineFormat, NEW s \in ScanStates(format), NEW line \in LineOf(format)
  PROVE  ScanLine(format, s, line) \in ScanStates(format)
<1>1. CASE format = "pip_compile"
  BY <1>1, PipLineType DEF ScanLine
<1>2. CASE format = "pnpm"
  BY <1>2, PnpmLineType DEF ScanLine
<1>3. CASE format \in {"yarn_classic", "yarn_berry"}
  BY <1>3, YarnLineType DEF ScanLine
<1>4. QED
  BY <1>1, <1>2, <1>3 DEF LineFormat

\* The scanner takes the lines one after the other.
LEMMA ScanUnfolds ==
  ASSUME NEW format \in LineFormat, NEW lines, lines \in Seq(LineOf(format))
  PROVE  LET after == Scan(format, lines)
         IN  /\ after \in [0..Len(lines) -> ScanStates(format)]
             /\ after[0] = EmptyScan
             /\ \A n \in 1..Len(lines) : after[n] = ScanLine(format, after[n - 1], lines[n])
<1> DEFINE N == Len(lines)
           S == ScanStates(format)
           step == [n \in 1..N |-> [s \in S |-> ScanLine(format, s, lines[n])]]
           Solves(f) == f = [n \in 0..N |-> IF n = 0 THEN EmptyScan
                                            ELSE ScanLine(format, f[n - 1], lines[n])]
<1>1. N \in Nat /\ EmptyScan \in S /\ \A n \in 1..N : lines[n] \in LineOf(format)
  BY EmptyScanType
<1>2. \A n \in 1..N, s \in S : ScanLine(format, s, lines[n]) \in S
  BY <1>1, ScanLineType
<1>3. step \in [1..N -> [S -> S]]
  BY <1>2
<1>4. PICK g \in [0..N -> S] : g[0] = EmptyScan /\ \A n \in 1..N : g[n] = step[n][g[n - 1]]
  <2> DEFINE base == EmptyScan
  <2>1. N \in Nat /\ base \in S
    BY <1>1
  <2> HIDE DEF step, S, N, base
  <2>2. \E g \in [0..N -> S] : g[0] = base /\ \A n \in 1..N : g[n] = step[n][g[n - 1]]
    BY ONLY <2>1, <1>3, RecursiveFunction
  <2>3. QED
    BY <2>2 DEF base
<1>5. \A n \in 1..N : n - 1 \in 0..N /\ g[n] = ScanLine(format, g[n - 1], lines[n])
  BY <1>1, <1>4
<1>6. Solves(g)
  <2> HIDE DEF S
  <2>1. QED
    BY <1>1, <1>4, <1>5
<1>7. Scan(format, lines) = CHOOSE f : Solves(f)
  BY DEF Scan
<1>8. Solves(Scan(format, lines))
  <2> HIDE DEF Solves
  <2>1. QED
    BY <1>6, <1>7
<1> DEFINE after == Scan(format, lines)
<1>9. after = [n \in 0..N |-> IF n = 0 THEN EmptyScan ELSE ScanLine(format, after[n - 1], lines[n])]
  BY <1>8
<1> HIDE DEF after
<1>10. /\ after = [n \in 0..N |-> after[n]] /\ after[0] = EmptyScan
       /\ \A n \in 1..N : after[n] = ScanLine(format, after[n - 1], lines[n])
  BY <1>1, <1>9
<1>11. \A n \in 0..N : after[n] \in S
  <2> DEFINE T == {n \in 0..N : after[n] \in S}
  <2> HIDE DEF S, N
  <2>1. 0 \in T
    BY <1>1, <1>10
  <2>2. \A n \in 0..(N - 1) : n \in T => n + 1 \in T
    <3> SUFFICES ASSUME NEW n \in 0..(N - 1), n \in T PROVE n + 1 \in T
      OBVIOUS
    <3>1. n + 1 \in 1..N /\ (n + 1) - 1 = n /\ n + 1 \in 0..N
      BY <1>1
    <3>2. after[n + 1] = ScanLine(format, after[n], lines[n + 1])
      BY <1>10, <3>1
    <3>3. QED
      BY <1>2, <3>1, <3>2
  <2>3. \A n \in 0..N : n \in T
    <3> HIDE DEF T
    <3>1. QED
      BY <1>1, <2>1, <2>2, UpToSet
  <2>4. QED
    BY <2>3
<1>12. QED
  BY <1>10, <1>11 DEF after

-----------------------------------------------------------------------------
(* A scanner and the blocks of its file.  After n lines the blocks opened so *)
(* far have ended, all but one.                                              *)

Starts(format, lines) ==
  {i \in DOMAIN lines : lines[i].kind \in Opens(format) /\ Counts(format, lines, i)}

Ended(format, lines, n) ==
  {i \in Starts(format, lines) : \E m \in (i + 1)..n : lines[m].kind \in Ends(format)}

Current(format, lines, n) ==
  {i \in Starts(format, lines) :
     i <= n /\ \A m \in (i + 1)..n : lines[m].kind \notin Ends(format)}

DeclaredAt(format, lines, i, block) ==
  Dependency(<<lines[i].name, BlockVersion(format, lines, i, block)>>,
             BlockDigest(format, lines, block))

\* Is that a dependency, or a block that says too little.
Declares(format, d) == d.uri \in Purl /\ (format = "pip_compile" => d.digest # {})

DeclaredByEnded(format, lines, n) ==
  {d \in {DeclaredAt(format, lines, i, Block(format, lines, i)) : i \in Ended(format, lines, n)} :
     Declares(format, d)}

InPackages(lines, n) ==
  \E p \in 1..n : lines[p].kind = "packages" /\ \A m \in p..n : lines[m].kind # "section"

LEMMA OneCurrent ==
  ASSUME NEW format, NEW lines, NEW L, lines \in Seq(L), NEW n \in 0..Len(lines),
         NEW i \in Current(format, lines, n), NEW j \in Current(format, lines, n)
  PROVE  i = j
<1>1. i \in Nat /\ j \in Nat /\ i <= n /\ j <= n /\ n \in Nat
  BY DEF Current, Starts
<1>2. lines[i].kind \in Ends(format) /\ lines[j].kind \in Ends(format)
  BY DEF Current, Starts, Ends
<1>3. ~(i < j)
  BY <1>1, <1>2 DEF Current
<1>4. ~(j < i)
  BY <1>1, <1>2 DEF Current
<1>5. QED
  BY <1>1, <1>3, <1>4

\* A line that ends the block before it, and may open one.
LEMMA BlockEnds ==
  ASSUME NEW format, NEW lines, NEW L, lines \in Seq(L), NEW n \in 0..(Len(lines) - 1),
         lines[n + 1].kind \in Ends(format)
  PROVE  /\ Ended(format, lines, n + 1) = Ended(format, lines, n) \cup Current(format, lines, n)
         /\ \A i \in Current(format, lines, n) : Block(format, lines, i) = (i + 1)..n
         /\ Current(format, lines, n + 1) = Starts(format, lines) \cap {n + 1}
<1>1. Len(lines) \in Nat /\ n \in Nat /\ DOMAIN lines = 1..Len(lines)
  OBVIOUS
<1>2. ASSUME NEW i \in Starts(format, lines)
      PROVE  i \in Ended(format, lines, n + 1)
               <=> i \in Ended(format, lines, n) \/ i \in Current(format, lines, n)
  <2>1. i \in Nat
    BY <1>1 DEF Starts
  <2>2. CASE i <= n
    <3>1. n + 1 \in (i + 1)..(n + 1)
      BY <1>1, <2>1, <2>2
    <3>2. i \in Ended(format, lines, n + 1)
      BY <3>1 DEF Ended
    <3>3. i \in Ended(format, lines, n) \/ i \in Current(format, lines, n)
      BY <2>2 DEF Ended, Current
    <3>4. QED
      BY <3>2, <3>3
  <2>3. CASE i > n
    <3>1. (i + 1)..(n + 1) = {} /\ (i + 1)..n = {}
      BY <1>1, <2>1, <2>3
    <3>2. QED
      BY <1>1, <2>1, <2>3, <3>1 DEF Ended, Current
  <2>4. QED
    BY <1>1, <2>1, <2>2, <2>3
<1>3. Ended(format, lines, n + 1) = Ended(format, lines, n) \cup Current(format, lines, n)
  BY <1>2 DEF Ended, Current
<1>4. ASSUME NEW i \in Current(format, lines, n) PROVE Block(format, lines, i) = (i + 1)..n
  <2>1. i \in Nat /\ i <= n /\ \A m \in (i + 1)..n : lines[m].kind \notin Ends(format)
    BY <1>1 DEF Current, Starts
  <2>2. ASSUME NEW k \in (i + 1)..Len(lines)
        PROVE  (\A m \in (i + 1)..k : lines[m].kind \notin Ends(format)) <=> k <= n
    <3>1. CASE k <= n
      BY <1>1, <2>1, <3>1
    <3>2. CASE k > n
      <4>1. n + 1 \in (i + 1)..k
        BY <1>1, <2>1, <3>2
      <4>2. QED
        BY <1>1, <3>2, <4>1
    <3>3. QED
      BY <1>1, <2>1, <3>1, <3>2
  <2>3. (i + 1)..n = {k \in (i + 1)..Len(lines) : k <= n}
    BY <1>1, <2>1
  <2>4. QED
    BY <2>2, <2>3 DEF Block
<1>5. Current(format, lines, n + 1) = Starts(format, lines) \cap {n + 1}
  <2>1. ASSUME NEW i \in Starts(format, lines), i <= n + 1,
               \A m \in (i + 1)..(n + 1) : lines[m].kind \notin Ends(format)
        PROVE  i = n + 1
    <3>1. i \in Nat
      BY <1>1 DEF Starts
    <3>2. ~(i <= n)
      <4> SUFFICES ASSUME i <= n PROVE FALSE
        OBVIOUS
      <4>1. n + 1 \in (i + 1)..(n + 1)
        BY <1>1, <3>1
      <4>2. QED
        BY <2>1, <4>1
    <3>3. QED
      BY <1>1, <2>1, <3>1, <3>2
  <2>2. (n + 1 + 1)..(n + 1) = {} /\ n + 1 <= n + 1
    BY <1>1
  <2>3. QED
    BY <2>1, <2>2 DEF Current
<1>6. QED
  BY <1>3, <1>4, <1>5

\* A line that belongs to the block, if one is open.
LEMMA BlockGoesOn ==
  ASSUME NEW format, NEW lines, NEW L, lines \in Seq(L), NEW n \in 0..(Len(lines) - 1),
         lines[n + 1].kind \notin Ends(format)
  PROVE  /\ Ended(format, lines, n + 1) = Ended(format, lines, n)
         /\ Current(format, lines, n + 1) = Current(format, lines, n)
         /\ \A i \in Current(format, lines, n) : i \in Nat /\ (i + 1)..(n + 1) = ((i + 1)..n) \cup {n + 1}
<1>1. Len(lines) \in Nat /\ n \in Nat /\ DOMAIN lines = 1..Len(lines)
  OBVIOUS
<1>2. ASSUME NEW i \in Starts(format, lines)
      PROVE  /\ i \in Ended(format, lines, n + 1) <=> i \in Ended(format, lines, n)
             /\ i \in Current(format, lines, n + 1) <=> i \in Current(format, lines, n)
             /\ i \in Current(format, lines, n) =>
                  i \in Nat /\ (i + 1)..(n + 1) = ((i + 1)..n) \cup {n + 1}
  <2>1. i \in Nat /\ i # n + 1
    BY <1>1 DEF Starts, Ends
  <2>2. CASE i <= n
    <3>1. (i + 1)..(n + 1) = ((i + 1)..n) \cup {n + 1}
      BY <1>1, <2>1, <2>2
    <3>2. i <= n + 1
      BY <1>1, <2>1, <2>2
    <3>3. QED
      BY <2>1, <2>2, <3>1, <3>2 DEF Ended, Current
  <2>3. CASE i > n
    <3>1. (i + 1)..(n + 1) = {} /\ (i + 1)..n = {} /\ ~(i <= n + 1)
      BY <1>1, <2>1, <2>3
    <3>2. QED
      BY <1>1, <2>1, <2>3, <3>1 DEF Ended, Current
  <2>4. QED
    BY <1>1, <2>1, <2>2, <2>3
<1>3. QED
  BY <1>2 DEF Ended, Current

\* The last block ends with the file.
LEMMA BlocksAreOver ==
  ASSUME NEW format, NEW lines, NEW L, lines \in Seq(L)
  PROVE  /\ Starts(format, lines)
              = Ended(format, lines, Len(lines)) \cup Current(format, lines, Len(lines))
         /\ \A i \in Current(format, lines, Len(lines)) :
              Block(format, lines, i) = (i + 1)..Len(lines)
<1>1. Len(lines) \in Nat /\ DOMAIN lines = 1..Len(lines)
  OBVIOUS
<1>2. \A i \in Starts(format, lines) : i \in Nat /\ i <= Len(lines)
  BY <1>1 DEF Starts
<1>3. Starts(format, lines)
        = Ended(format, lines, Len(lines)) \cup Current(format, lines, Len(lines))
  BY <1>2 DEF Ended, Current
<1>4. ASSUME NEW i \in Current(format, lines, Len(lines)),
             NEW k \in (i + 1)..Len(lines), NEW m \in (i + 1)..k
      PROVE  lines[m].kind \notin Ends(format)
  <2>1. m \in (i + 1)..Len(lines)
    BY <1>1, <1>2 DEF Current
  <2>2. QED
    BY <2>1 DEF Current
<1>5. QED
  BY <1>3, <1>4 DEF Block

\* What the state of a scanner has to do with the block that is open.
Holds(format, lines, i, block, s) ==
  /\ s.name = lines[i].name
  /\ s.name # NoName => /\ s.version = BlockVersion(format, lines, i, block)
                        /\ s.digest = BlockDigest(format, lines, block)
  /\ format = "pnpm" => (s.settled <=> OfBlock(lines, block, "resolution") # {})

\* After n lines it lists what the blocks that have ended declare, and holds
\* what the open one says.
Follows(format, lines, n, s) ==
  /\ Listed(s.deps) = DeclaredByEnded(format, lines, n)
  /\ Current(format, lines, n) = {} => s.name = NoName
  /\ \A i \in Current(format, lines, n) : Holds(format, lines, i, (i + 1)..n, s)
  /\ format = "pnpm" => (s.inside <=> InPackages(lines, n))

\* What a flush asks of the entry it lists.
Complete(format, s) ==
  s.name # NoName /\ (IF format = "pip_compile" THEN s.digest # {} ELSE s.version # NoName)

LEMMA FlushedListed ==
  ASSUME NEW s, s.deps \in Seq(Dependencies), NEW complete \in BOOLEAN,
         complete => Dependency(<<s.name, s.version>>, s.digest) \in Dependencies
  PROVE  Listed(Flushed(s, complete)) =
           IF complete THEN Listed(s.deps) \cup {Dependency(<<s.name, s.version>>, s.digest)}
           ELSE Listed(s.deps)
<1> DEFINE d == Dependency(<<s.name, s.version>>, s.digest)
           seq == s.deps
<1>1. CASE ~complete
  BY <1>1 DEF Flushed
<1>2. CASE complete
  <2>1. Flushed(s, complete) = Append(seq, d) /\ d \in Dependencies /\ seq \in Seq(Dependencies)
    BY <1>2 DEF Flushed
  <2>2. Listed(Append(seq, d)) = Listed(seq) \cup {d}
    <3> HIDE DEF seq, d
    <3>1. /\ DOMAIN Append(seq, d) = DOMAIN seq \cup {Len(seq) + 1}
          /\ Append(seq, d)[Len(seq) + 1] = d
          /\ \A i \in DOMAIN seq : Append(seq, d)[i] = seq[i]
      BY <2>1
    <3>2. QED
      BY <3>1 DEF Listed
  <2>3. QED
    BY <1>2, <2>1, <2>2
<1>3. QED
  BY <1>1, <1>2

LEMMA FlushIsDeclared ==
  ASSUME NEW format \in LineFormat, NEW lines, lines \in Seq(LineOf(format)),
         NEW n \in 0..Len(lines), NEW s \in ScanStates(format), Follows(format, lines, n, s)
  PROVE  Listed(Flushed(s, Complete(format, s))) =
           Listed(s.deps)
             \cup {d \in {DeclaredAt(format, lines, i, (i + 1)..n) : i \in Current(format, lines, n)} :
                     Declares(format, d)}
<1> DEFINE d == Dependency(<<s.name, s.version>>, s.digest)
           own == {DeclaredAt(format, lines, i, (i + 1)..n) : i \in Current(format, lines, n)}
<1>1. /\ s.deps \in Seq(Dependencies) /\ Complete(format, s) \in BOOLEAN /\ s.digest \in Digest
      /\ s.name \in Name \cup {NoName} /\ s.version \in Version \cup {NoName}
      /\ format = "pip_compile" /\ s.name # NoName => s.version \in Version
  BY DEF ScanStates, Complete
<1>2. Complete(format, s) <=> s.name \in Name /\ Declares(format, d)
  BY <1>1, DependenciesAssumption DEF Complete, Declares, Dependency, Purl
<1>3. Complete(format, s) => d \in Dependencies
  BY <1>1, <1>2 DEF Declares, Dependency, Dependencies
<1>4. Listed(Flushed(s, Complete(format, s))) =
        IF Complete(format, s) THEN Listed(s.deps) \cup {d} ELSE Listed(s.deps)
  BY <1>1, <1>3, FlushedListed
<1>5. CASE Current(format, lines, n) = {}
  <2>1. ~Complete(format, s)
    BY <1>5 DEF Follows, Complete
  <2>2. QED
    BY <1>4, <1>5, <2>1
<1>6. CASE Current(format, lines, n) # {}
  <2>1. PICK i \in Current(format, lines, n) : TRUE
    BY <1>6
  <2>2. Current(format, lines, n) = {i}
    BY <2>1, OneCurrent
  <2>3. own = {DeclaredAt(format, lines, i, (i + 1)..n)}
    BY <2>2
  <2>4. Holds(format, lines, i, (i + 1)..n, s)
    BY <2>1 DEF Follows
  <2>5. CASE s.name = NoName
    <3>1. DeclaredAt(format, lines, i, (i + 1)..n).uri[1] = NoName
      BY <2>4, <2>5 DEF Holds, DeclaredAt, Dependency
    <3>2. ~Declares(format, DeclaredAt(format, lines, i, (i + 1)..n))
      BY <3>1, DependenciesAssumption DEF Declares, Purl
    <3>3. ~Complete(format, s)
      BY <2>5 DEF Complete
    <3>4. QED
      BY <1>4, <2>3, <3>2, <3>3
  <2>6. CASE s.name # NoName
    <3>1. DeclaredAt(format, lines, i, (i + 1)..n) = d
      BY <2>4, <2>6 DEF Holds, DeclaredAt
    <3>2. Complete(format, s) <=> Declares(format, d)
      BY <1>1, <1>2, <2>6
    <3>3. own = {d}
      BY <2>3, <3>1
    <3>4. QED
      <4> HIDE DEF own, d
      <4>1. QED
        BY <1>4, <3>2, <3>3 DEF own
  <2>7. QED
    BY <2>5, <2>6
<1>7. QED
  BY <1>5, <1>6

\* The blocks that have ended with a line that ends one.
LEMMA EndsDeclare ==
  ASSUME NEW format \in LineFormat, NEW lines, lines \in Seq(LineOf(format)),
         NEW n \in 0..(Len(lines) - 1), lines[n + 1].kind \in Ends(format)
  PROVE  DeclaredByEnded(format, lines, n + 1) =
           DeclaredByEnded(format, lines, n)
             \cup {d \in {DeclaredAt(format, lines, i, (i + 1)..n) : i \in Current(format, lines, n)} :
                     Declares(format, d)}
<1>1. /\ Ended(format, lines, n + 1) = Ended(format, lines, n) \cup Current(format, lines, n)
      /\ \A i \in Current(format, lines, n) : Block(format, lines, i) = (i + 1)..n
  <2> DEFINE L == LineOf(format)
  <2>1. lines \in Seq(L)
    OBVIOUS
  <2> HIDE DEF L
  <2>2. QED
    BY <2>1, BlockEnds, ZenonT(20)
<1> DEFINE At(i) == DeclaredAt(format, lines, i, Block(format, lines, i))
<1>2. \A i \in Current(format, lines, n) : At(i) = DeclaredAt(format, lines, i, (i + 1)..n)
  BY <1>1
<1>3. {At(i) : i \in Ended(format, lines, n + 1)} =
        {At(i) : i \in Ended(format, lines, n)}
          \cup {DeclaredAt(format, lines, i, (i + 1)..n) : i \in Current(format, lines, n)}
  <2> HIDE DEF At
  <2>1. QED
    BY <1>1, <1>2
<1>4. QED
  BY <1>3 DEF DeclaredByEnded

LEMMA FreshBlock ==
  ASSUME NEW format \in LineFormat, NEW lines, NEW i
  PROVE  /\ BlockVersion(format, lines, i, {})
              = IF format \in {"pip_compile", "pnpm"} THEN lines[i].version ELSE NoName
         /\ BlockDigest(format, lines, {}) = {}
         /\ OfBlock(lines, {}, "resolution") = {}
<1>1. \A kind : OfBlock(lines, {}, kind) = {}
  BY DEF OfBlock
<1>2. BlockDigest(format, lines, {}) = {}
  <2>1. CASE format = "pip_compile"
    <3>1. UNION {lines[k].hash : k \in OfBlock(lines, {}, "hash")} = {}
      BY <1>1
    <3>2. QED
      BY <2>1, <3>1 DEF BlockDigest
  <2>2. CASE format # "pip_compile"
    BY <1>1, <2>2 DEF BlockDigest
  <2>3. QED
    BY <2>1, <2>2
<1>3. QED
  BY <1>1, <1>2 DEF BlockVersion

\* A line that ends a block: what the open one declares is listed, and a new
\* one starts from nothing.
LEMMA EndingStep ==
  ASSUME NEW format \in LineFormat, NEW lines, lines \in Seq(LineOf(format)),
         NEW n \in 0..(Len(lines) - 1), NEW s \in ScanStates(format), Follows(format, lines, n, s),
         lines[n + 1].kind \in Ends(format),
         NEW t, t.deps = Flushed(s, Complete(format, s)),
         n + 1 \notin Starts(format, lines) => t.name = NoName,
         n + 1 \in Starts(format, lines) =>
           /\ t.name = lines[n + 1].name /\ t.digest = {} /\ t.settled = FALSE
           /\ t.version = IF format \in {"pip_compile", "pnpm"} THEN lines[n + 1].version ELSE NoName,
         format = "pnpm" => (t.inside <=> InPackages(lines, n + 1))
  PROVE  Follows(format, lines, n + 1, t)
<1>1. Listed(t.deps) = DeclaredByEnded(format, lines, n + 1)
  <2>1. n \in 0..Len(lines)
    OBVIOUS
  <2>2. Listed(t.deps) =
          Listed(s.deps)
            \cup {d \in {DeclaredAt(format, lines, i, (i + 1)..n) : i \in Current(format, lines, n)} :
                    Declares(format, d)}
    BY <2>1, FlushIsDeclared
  <2>3. Listed(s.deps) = DeclaredByEnded(format, lines, n)
    BY DEF Follows
  <2>4. QED
    BY <2>2, <2>3, EndsDeclare
<1>2. Current(format, lines, n + 1) = Starts(format, lines) \cap {n + 1}
  BY BlockEnds
<1>3. Current(format, lines, n + 1) = {} => t.name = NoName
  BY <1>2
<1>4. ASSUME NEW i \in Current(format, lines, n + 1)
      PROVE  Holds(format, lines, i, (i + 1)..(n + 1), t)
  <2>1. i = n + 1 /\ n + 1 \in Starts(format, lines) /\ (i + 1)..(n + 1) = {}
    BY <1>2
  <2>2. /\ t.version = BlockVersion(format, lines, n + 1, {})
        /\ t.digest = BlockDigest(format, lines, {})
        /\ t.settled <=> OfBlock(lines, {}, "resolution") # {}
    BY <2>1, FreshBlock
  <2>3. QED
    BY <2>1, <2>2 DEF Holds
<1>5. QED
  BY <1>1, <1>3, <1>4 DEF Follows

\* A line of the block, if one is open.
LEMMA StayingStep ==
  ASSUME NEW format \in LineFormat, NEW lines, lines \in Seq(LineOf(format)),
         NEW n \in 0..(Len(lines) - 1), NEW s, Follows(format, lines, n, s),
         lines[n + 1].kind \notin Ends(format),
         NEW t, t.deps = s.deps, t.name = s.name,
         \A i \in Current(format, lines, n) : Holds(format, lines, i, ((i + 1)..n) \cup {n + 1}, t),
         format = "pnpm" => (t.inside <=> InPackages(lines, n + 1))
  PROVE  Follows(format, lines, n + 1, t)
<1>1. /\ Ended(format, lines, n + 1) = Ended(format, lines, n)
      /\ Current(format, lines, n + 1) = Current(format, lines, n)
      /\ \A i \in Current(format, lines, n) : (i + 1)..(n + 1) = ((i + 1)..n) \cup {n + 1}
  BY BlockGoesOn
<1>2. DeclaredByEnded(format, lines, n + 1) = DeclaredByEnded(format, lines, n)
  BY <1>1 DEF DeclaredByEnded
<1>3. \A i \in Current(format, lines, n + 1) : Holds(format, lines, i, (i + 1)..(n + 1), t)
  BY <1>1
<1>4. QED
  BY <1>1, <1>2, <1>3 DEF Follows

\* The packages part of a pnpm lockfile.
LEMMA PackagesGoOn ==
  ASSUME NEW lines, NEW L, lines \in Seq(L), NEW n \in 0..(Len(lines) - 1)
  PROVE  /\ InPackages(lines, n + 1) <=>
              \/ lines[n + 1].kind = "packages"
              \/ InPackages(lines, n) /\ lines[n + 1].kind # "section"
         /\ Counts("pnpm", lines, n + 1) <=>
              InPackages(lines, n) /\ lines[n + 1].kind # "section"
<1>1. /\ n \in Nat /\ 1..(n + 1) = (1..n) \cup {n + 1} /\ (n + 1) - 1 = n
      /\ \A p \in 1..n : p..(n + 1) = (p..n) \cup {n + 1}
      /\ (n + 1)..(n + 1) = {n + 1}
  OBVIOUS
<1>2. Counts("pnpm", lines, n + 1) <=> InPackages(lines, n) /\ lines[n + 1].kind # "section"
  <2>1. Counts("pnpm", lines, n + 1) <=>
          \E p \in 1..n : /\ lines[p].kind = "packages"
                          /\ \A m \in p..(n + 1) : lines[m].kind # "section"
    BY <1>1 DEF Counts
  <2>2. \A p \in 1..n : (\A m \in p..(n + 1) : lines[m].kind # "section")
                          <=> (\A m \in p..n : lines[m].kind # "section") /\ lines[n + 1].kind # "section"
    BY <1>1
  <2>3. QED
    BY <2>1, <2>2 DEF InPackages
<1>3. InPackages(lines, n + 1) <=> lines[n + 1].kind = "packages" \/ Counts("pnpm", lines, n + 1)
  <2>1. Counts("pnpm", lines, n + 1) <=>
          \E p \in 1..n : /\ lines[p].kind = "packages"
                          /\ \A m \in p..(n + 1) : lines[m].kind # "section"
    BY <1>1 DEF Counts
  <2>2. QED
    BY <1>1, <2>1 DEF InPackages
<1>4. QED
  BY <1>2, <1>3

LEMMA CurrentIsInPackages ==
  ASSUME NEW lines, NEW L, lines \in Seq(L), NEW n \in 0..Len(lines), Current("pnpm", lines, n) # {}
  PROVE  InPackages(lines, n)
<1>1. PICK i \in Current("pnpm", lines, n) : TRUE
  OBVIOUS
<1>2. /\ i \in Nat /\ n \in Nat /\ i <= n /\ Counts("pnpm", lines, i)
      /\ \A m \in (i + 1)..n : lines[m].kind # "section"
  BY <1>1 DEF Current, Starts, Ends
<1>3. PICK p \in 1..(i - 1) : lines[p].kind = "packages" /\ \A m \in p..i : lines[m].kind # "section"
  BY <1>2 DEF Counts
<1>4. \A m \in p..n : m \in p..i \/ m \in (i + 1)..n
  BY <1>2, <1>3
<1>5. p \in 1..n
  BY <1>2, <1>3
<1>6. QED
  BY <1>2, <1>3, <1>4, <1>5 DEF InPackages

\* The digest and the version of a block that a line has joined.
LEMMA PipDigestGrows ==
  ASSUME NEW lines, NEW block \in SUBSET Nat, NEW n \in Nat, \A k \in block : k < n,
         lines[n].kind = "hash", NEW h, lines[n].hash = {h}
  PROVE  BlockDigest("pip_compile", lines, block \cup {n})
           = WithHash(BlockDigest("pip_compile", lines, block), h)
<1> DEFINE own == OfBlock(lines, block, "hash")
           Stated(ks) == UNION {lines[k].hash : k \in ks}
           Stays(g, ks) == \E k \in ks : /\ g \in lines[k].hash
                                         /\ \A m \in ks : m > k => \A x \in lines[m].hash : x.algo # g.algo
           Kept4(ks) == {g \in Stated(ks) : Stays(g, ks)}
<1>0. OfBlock(lines, block \cup {n}, "hash") = own \cup {n}
  BY DEF OfBlock
<1>1. /\ BlockDigest("pip_compile", lines, block) = Kept4(own)
      /\ BlockDigest("pip_compile", lines, block \cup {n}) = Kept4(own \cup {n})
  BY <1>0 DEF BlockDigest
<1>2. /\ \A k \in own : k \in Nat /\ k < n /\ ~(k > n) /\ n > k
      /\ ~(n > n)
  <2>1. \A k \in block : k \in Nat /\ k < n /\ ~(k > n) /\ n > k
    OBVIOUS
  <2>2. \A k \in own : k \in block
    BY DEF OfBlock
  <2>3. ~(n > n)
    OBVIOUS
  <2> HIDE DEF own
  <2>4. QED
    BY ONLY <2>1, <2>2, <2>3
<1>3. Stated(own \cup {n}) = Stated(own) \cup {h}
  <2> HIDE DEF own
  <2>1. QED
    OBVIOUS
<1>4. Stays(h, own \cup {n})
  <2> HIDE DEF own
  <2>1. QED
    BY <1>2
<1>5. ASSUME NEW g, g # h PROVE Stays(g, own \cup {n}) <=> Stays(g, own) /\ g.algo # h.algo
  <2> HIDE DEF own
  <2>1. \A k \in own : (\A m \in own \cup {n} : m > k => \A x \in lines[m].hash : x.algo # g.algo)
                        <=> (\A m \in own : m > k => \A x \in lines[m].hash : x.algo # g.algo) /\ g.algo # h.algo
    BY <1>2
  <2>2. ~(g \in lines[n].hash)
    BY <1>5
  <2>3. Stays(g, own \cup {n}) <=>
          \E k \in own : /\ g \in lines[k].hash
                         /\ \A m \in own \cup {n} : m > k => \A x \in lines[m].hash : x.algo # g.algo
    BY <2>2
  <2>4. QED
    BY <2>1, <2>3
<1>6. Kept4(own \cup {n}) = {g \in Kept4(own) : g.algo # h.algo} \cup {h}
  <2> HIDE DEF Stated, Stays
  <2>1. QED
    BY <1>3, <1>4, <1>5
<1>7. QED
  BY <1>1, <1>6 DEF WithHash

LEMMA PnpmDigestGrows ==
  ASSUME NEW lines, NEW block \in SUBSET Nat, NEW n \in Nat, \A k \in block : k < n,
         lines[n].kind = "resolution"
  PROVE  /\ OfBlock(lines, block \cup {n}, "resolution") # {}
         /\ BlockDigest("pnpm", lines, block \cup {n}) =
              IF OfBlock(lines, block, "resolution") = {} THEN DecodeSri(lines[n].hash)
              ELSE BlockDigest("pnpm", lines, block)
<1> DEFINE own == OfBlock(lines, block, "resolution")
<1>1. OfBlock(lines, block \cup {n}, "resolution") = own \cup {n}
  BY DEF OfBlock
<1>2. own \in SUBSET Nat /\ own \subseteq block
  BY DEF OfBlock
<1>3. CASE own = {}
  <2>1. Min({n}) = n
    BY MinIs
  <2>2. QED
    BY <1>1, <1>3, <2>1 DEF BlockDigest
<1>4. CASE own # {}
  <2> DEFINE least == Min(own)
  <2>1. least \in own /\ \A y \in own : least <= y
    <3> HIDE DEF own
    <3>1. QED
      BY <1>2, <1>4, MinOf
  <2>2. Min(own \cup {n}) = least
    <3>1. own \cup {n} \in SUBSET Nat /\ least \in own \cup {n} /\ \A y \in own \cup {n} : least <= y
      BY <1>2, <2>1
    <3> HIDE DEF own, least
    <3>2. QED
      BY <3>1, MinIs
  <2>3. QED
    BY <1>1, <1>4, <2>2 DEF BlockDigest
<1>5. QED
  BY <1>3, <1>4

\* The last line of a kind, once one more of it has come.
LEMMA LastOfKind ==
  ASSUME NEW lines, NEW block \in SUBSET Nat, NEW n \in Nat, \A k \in block : k < n
  PROVE  /\ OfBlock(lines, block \cup {n}, lines[n].kind) # {}
         /\ Max(OfBlock(lines, block \cup {n}, lines[n].kind)) = n
<1> DEFINE own == OfBlock(lines, block \cup {n}, lines[n].kind)
<1>1. own \in SUBSET Nat /\ n \in own /\ \A y \in own : y <= n
  <2>1. \A k \in block \cup {n} : k \in Nat /\ k <= n
    OBVIOUS
  <2>2. n \in own /\ own \subseteq block \cup {n}
    BY DEF OfBlock
  <2> HIDE DEF own
  <2>3. QED
    BY <2>1, <2>2
<1>2. QED
  <2> HIDE DEF own
  <2>1. Max(own) = n /\ own # {}
    BY <1>1, MaxIs
  <2>2. QED
    BY <2>1 DEF own

-----------------------------------------------------------------------------
(* Each scanner follows the blocks of its file.                              *)

LEMMA PipStep ==
  ASSUME NEW lines, lines \in Seq(LineOf("pip_compile")), NEW n \in 0..(Len(lines) - 1),
         NEW s \in ScanStates("pip_compile"), Follows("pip_compile", lines, n, s)
  PROVE  Follows("pip_compile", lines, n + 1, PipLine(s, lines[n + 1]))
<1> DEFINE line == lines[n + 1]
           t == PipLine(s, line)
<1>1. n + 1 \in DOMAIN lines /\ line \in LineOf("pip_compile") /\ "pip_compile" \in LineFormat
  BY DEF LineFormat
<1>2. line.kind \in {"requirement", "hash", "bad_hash", "other"}
  BY <1>1 DEF LineOf, LineKinds
<1>3. /\ Opens("pip_compile") = {"requirement"} /\ Ends("pip_compile") = {"requirement", "other"}
      /\ Counts("pip_compile", lines, n + 1)
  BY DEF Opens, Ends, Counts
<1>4. PipFlush(s) = [EmptyScan EXCEPT !.deps = Flushed(s, Complete("pip_compile", s))]
  BY DEF PipFlush, Complete
<1>5. CASE line.kind = "requirement"
  <2>1. n + 1 \in Starts("pip_compile", lines)
    BY <1>1, <1>3, <1>5 DEF Starts
  <2>2. t = [PipFlush(s) EXCEPT !.name = line.name, !.version = line.version]
    BY <1>5 DEF PipLine
  <2>3. /\ t.deps = Flushed(s, Complete("pip_compile", s)) /\ t.name = line.name
        /\ t.digest = {} /\ t.settled = FALSE /\ t.version = line.version
    BY <1>4, <2>2 DEF EmptyScan
  <2>4. QED
    <3> HIDE DEF t
    <3>1. Follows("pip_compile", lines, n + 1, t)
      BY <1>1, <1>3, <1>5, <2>1, <2>3, EndingStep
    <3>2. QED
      BY <3>1 DEF t
<1>6. CASE line.kind = "other"
  <2>1. n + 1 \notin Starts("pip_compile", lines)
    BY <1>3, <1>6 DEF Starts
  <2>2. t = PipFlush(s)
    BY <1>6 DEF PipLine
  <2>3. t.deps = Flushed(s, Complete("pip_compile", s)) /\ t.name = NoName
    BY <1>4, <2>2 DEF EmptyScan
  <2>4. QED
    <3> HIDE DEF t
    <3>1. Follows("pip_compile", lines, n + 1, t)
      BY <1>1, <1>3, <1>6, <2>1, <2>3, EndingStep
    <3>2. QED
      BY <3>1 DEF t
<1>7. CASE line.kind \in {"hash", "bad_hash"}
  <2>1. line.kind \notin Ends("pip_compile")
    BY <1>3, <1>7
  <2>2. t.deps = s.deps /\ t.name = s.name
    BY <1>7 DEF PipLine, ScanStates
  <2>3. ASSUME NEW i \in Current("pip_compile", lines, n)
        PROVE  Holds("pip_compile", lines, i, ((i + 1)..n) \cup {n + 1}, t)
    <3> DEFINE block == (i + 1)..n
    <3>1. Holds("pip_compile", lines, i, block, s)
      BY DEF Follows
    <3>2. block \in SUBSET Nat /\ n + 1 \in Nat /\ \A k \in block : k < n + 1
      BY DEF Current, Starts
    <3> HIDE DEF block
    <3>3. CASE line.kind = "bad_hash" \/ s.name = NoName
      <4>1. t = s
        BY <1>7, <3>3 DEF PipLine
      <4>2. line.kind = "bad_hash" =>
              OfBlock(lines, block \cup {n + 1}, "hash") = OfBlock(lines, block, "hash")
        BY DEF OfBlock
      <4>3. line.kind = "bad_hash" =>
              BlockDigest("pip_compile", lines, block \cup {n + 1}) = BlockDigest("pip_compile", lines, block)
        BY <4>2 DEF BlockDigest
      <4>4. QED
        BY <3>1, <3>3, <4>1, <4>3 DEF Holds, BlockVersion, block
    <3>4. CASE line.kind = "hash" /\ s.name # NoName
      <4>1. PICK h \in Hash : line.hash = {h}
        BY <1>1, <3>4 DEF LineOf
      <4>2. t = [s EXCEPT !.digest = WithHash(s.digest, h)]
        BY <3>4, <4>1 DEF PipLine
      <4>3. t.name = s.name /\ t.version = s.version /\ t.digest = WithHash(s.digest, h)
        BY <4>2 DEF ScanStates
      <4>4. BlockDigest("pip_compile", lines, block \cup {n + 1})
              = WithHash(BlockDigest("pip_compile", lines, block), h)
        BY <3>2, <3>4, <4>1, PipDigestGrows
      <4>5. QED
        <5> HIDE DEF t
        <5>1. Holds("pip_compile", lines, i, block \cup {n + 1}, t)
          BY <3>1, <3>4, <4>3, <4>4 DEF Holds, BlockVersion
        <5>2. QED
          BY <5>1 DEF t, block
    <3>5. QED
      BY <1>7, <3>3, <3>4
  <2>4. QED
    <3> HIDE DEF t
    <3>1. Follows("pip_compile", lines, n + 1, t)
      BY <1>1, <2>1, <2>2, <2>3, StayingStep
    <3>2. QED
      BY <3>1 DEF t
<1>8. QED
  BY <1>2, <1>5, <1>6, <1>7

LEMMA PnpmStep ==
  ASSUME NEW lines, lines \in Seq(LineOf("pnpm")), NEW n \in 0..(Len(lines) - 1),
         NEW s \in ScanStates("pnpm"), Follows("pnpm", lines, n, s)
  PROVE  Follows("pnpm", lines, n + 1, PnpmLine(s, lines[n + 1]))
<1> DEFINE line == lines[n + 1]
           t == PnpmLine(s, line)
<1>1. /\ n + 1 \in DOMAIN lines /\ line \in LineOf("pnpm") /\ "pnpm" \in LineFormat
      /\ n \in 0..Len(lines)
  BY DEF LineFormat
<1>2. line.kind \in {"packages", "section", "key", "resolution"}
  BY <1>1 DEF LineOf, LineKinds
<1>3. /\ Opens("pnpm") = {"key"} /\ Ends("pnpm") = {"key", "section"}
      /\ n + 1 \in Starts("pnpm", lines) <=> line.kind = "key" /\ InPackages(lines, n)
  <2>1. Opens("pnpm") = {"key"} /\ Ends("pnpm") = {"key", "section"}
    BY DEF Opens, Ends
  <2>2. Counts("pnpm", lines, n + 1) <=> InPackages(lines, n) /\ line.kind # "section"
    BY PackagesGoOn
  <2>3. QED
    BY <1>1, <2>1, <2>2 DEF Starts
<1>4. s.inside <=> InPackages(lines, n)
  BY DEF Follows
<1>5. InPackages(lines, n + 1) <=>
        line.kind = "packages" \/ (InPackages(lines, n) /\ line.kind # "section")
  BY PackagesGoOn
<1>6. ~s.inside => Current("pnpm", lines, n) = {} /\ s.name = NoName /\ ~Complete("pnpm", s)
  <2>1. ~s.inside => Current("pnpm", lines, n) = {}
    BY <1>1, <1>4, CurrentIsInPackages
  <2>2. QED
    BY <2>1 DEF Follows, Complete
<1>7. /\ s.deps \in Seq(Dependencies) /\ s.inside \in BOOLEAN
      /\ PnpmFlush(s) = Flushed(s, Complete("pnpm", s))
  BY DEF PnpmFlush, Complete, ScanStates
<1>8. CASE line.kind \in {"key", "section"}
  <2>1. /\ t.deps = Flushed(s, Complete("pnpm", s))
        /\ n + 1 \notin Starts("pnpm", lines) => t.name = NoName
        /\ n + 1 \in Starts("pnpm", lines) =>
             t.name = line.name /\ t.digest = {} /\ t.settled = FALSE /\ t.version = line.version
        /\ t.inside <=> InPackages(lines, n + 1)
    <3>1. CASE ~s.inside
      <4>1. t = s
        BY <1>8, <3>1 DEF PnpmLine
      <4>2. Flushed(s, Complete("pnpm", s)) = s.deps
        BY <1>6, <3>1 DEF Flushed
      <4>3. QED
        BY <1>3, <1>4, <1>5, <1>6, <1>8, <3>1, <4>1, <4>2
    <3>2. CASE s.inside /\ line.kind = "section"
      <4>1. t = [EmptyScan EXCEPT !.deps = PnpmFlush(s)]
        BY <3>2 DEF PnpmLine
      <4>2. QED
        BY <1>3, <1>5, <1>7, <3>2, <4>1 DEF EmptyScan
    <3>3. CASE s.inside /\ line.kind = "key"
      <4>1. t = [EmptyScan EXCEPT !.deps = PnpmFlush(s), !.inside = TRUE,
                                  !.name = line.name, !.version = line.version]
        BY <3>3 DEF PnpmLine
      <4>2. QED
        BY <1>3, <1>4, <1>5, <1>7, <3>3, <4>1 DEF EmptyScan
    <3>4. QED
      BY <1>7, <1>8, <3>1, <3>2, <3>3
  <2>2. QED
    <3> HIDE DEF t
    <3>1. Follows("pnpm", lines, n + 1, t)
      BY <1>1, <1>3, <1>8, <2>1, EndingStep
    <3>2. QED
      BY <3>1 DEF t
<1>9. CASE line.kind \in {"packages", "resolution"}
  <2>1. line.kind \notin Ends("pnpm")
    BY <1>3, <1>9
  <2>2. t.deps = s.deps /\ t.name = s.name /\ t.version = s.version
    BY <1>9 DEF PnpmLine, ScanStates
  <2>3. t.inside <=> InPackages(lines, n + 1)
    BY <1>4, <1>5, <1>9 DEF PnpmLine, ScanStates
  <2>4. ASSUME NEW i \in Current("pnpm", lines, n)
        PROVE  Holds("pnpm", lines, i, ((i + 1)..n) \cup {n + 1}, t)
    <3> DEFINE block == (i + 1)..n
    <3>1. Holds("pnpm", lines, i, block, s)
      BY DEF Follows
    <3>2. block \in SUBSET Nat /\ n + 1 \in Nat /\ \A k \in block : k < n + 1
      BY DEF Current, Starts
    <3>3. s.inside
      BY <1>6, <1>7
    <3> HIDE DEF block
    <3>4. CASE line.kind = "packages"
      <4>1. t.digest = s.digest /\ t.settled = s.settled
        BY <3>4 DEF PnpmLine, ScanStates
      <4>2. OfBlock(lines, block \cup {n + 1}, "resolution") = OfBlock(lines, block, "resolution")
        BY <3>4 DEF OfBlock
      <4>3. BlockDigest("pnpm", lines, block \cup {n + 1}) = BlockDigest("pnpm", lines, block)
        BY <4>2 DEF BlockDigest
      <4>4. QED
        <5> HIDE DEF t
        <5>1. Holds("pnpm", lines, i, block \cup {n + 1}, t)
          BY <3>1, <2>2, <4>1, <4>2, <4>3 DEF Holds, BlockVersion
        <5>2. QED
          BY <5>1 DEF t, block
    <3>5. CASE line.kind = "resolution"
      <4>1. /\ t.settled = TRUE
            /\ t.digest = IF s.settled THEN s.digest ELSE DecodeSri(line.hash)
        BY <3>3, <3>5 DEF PnpmLine, ScanStates
      <4>2. /\ OfBlock(lines, block \cup {n + 1}, "resolution") # {}
            /\ BlockDigest("pnpm", lines, block \cup {n + 1}) =
                 IF OfBlock(lines, block, "resolution") = {} THEN DecodeSri(line.hash)
                 ELSE BlockDigest("pnpm", lines, block)
        BY <3>2, <3>5, PnpmDigestGrows
      <4>3. QED
        <5> HIDE DEF t
        <5>1. Holds("pnpm", lines, i, block \cup {n + 1}, t)
          BY <3>1, <2>2, <4>1, <4>2 DEF Holds, BlockVersion
        <5>2. QED
          BY <5>1 DEF t, block
    <3>6. QED
      BY <1>9, <3>4, <3>5
  <2>5. QED
    <3> HIDE DEF t
    <3>1. Follows("pnpm", lines, n + 1, t)
      BY <1>1, <2>1, <2>2, <2>3, <2>4, StayingStep
    <3>2. QED
      BY <3>1 DEF t
<1>10. QED
  BY <1>2, <1>8, <1>9

LEMMA YarnStep ==
  ASSUME NEW format \in {"yarn_classic", "yarn_berry"},
         NEW lines, lines \in Seq(LineOf(format)), NEW n \in 0..(Len(lines) - 1),
         NEW s \in ScanStates(format), Follows(format, lines, n, s)
  PROVE  Follows(format, lines, n + 1, YarnLine(s, lines[n + 1]))
<1> DEFINE line == lines[n + 1]
           t == YarnLine(s, line)
<1>1. /\ n + 1 \in DOMAIN lines /\ line \in LineOf(format) /\ format \in LineFormat
      /\ format # "pip_compile" /\ format # "pnpm"
  BY DEF LineFormat
<1>2. /\ line.kind \in {"header", "metadata", "version", "integrity", "checksum"}
      /\ line.kind = "integrity" => format = "yarn_classic"
      /\ line.kind = "checksum" => format = "yarn_berry"
  BY <1>1 DEF LineOf, LineKinds
<1>3. /\ Opens(format) = {"header", "metadata"} /\ Ends(format) = {"header", "metadata"}
      /\ n + 1 \in Starts(format, lines) <=> line.kind \in {"header", "metadata"}
  BY <1>1 DEF Opens, Ends, Counts, Starts
<1>4. YarnFlush(s) = [EmptyScan EXCEPT !.deps = Flushed(s, Complete(format, s))]
  BY <1>1 DEF YarnFlush, Complete
<1>5. CASE line.kind \in {"header", "metadata"}
  <2>1. t = [YarnFlush(s) EXCEPT !.name = line.name]
    BY <1>5 DEF YarnLine
  <2>2. /\ t.deps = Flushed(s, Complete(format, s)) /\ t.name = line.name
        /\ t.digest = {} /\ t.settled = FALSE /\ t.version = NoName
    BY <1>4, <2>1 DEF EmptyScan
  <2>3. QED
    <3> HIDE DEF t
    <3>1. Follows(format, lines, n + 1, t)
      BY <1>1, <1>3, <1>5, <2>2, EndingStep
    <3>2. QED
      BY <3>1 DEF t
<1>6. CASE line.kind \in {"version", "integrity", "checksum"}
  <2>1. line.kind \notin Ends(format)
    BY <1>3, <1>6
  <2>2. /\ t.deps = s.deps /\ t.name = s.name
        /\ s.name # NoName =>
             /\ t.version = IF line.kind = "version" THEN line.version ELSE s.version
             /\ t.digest = IF line.kind = "integrity" THEN DecodeSri(line.hash)
                           ELSE IF line.kind = "checksum" THEN DecodeChecksum(line.hash) ELSE s.digest
    BY <1>6 DEF YarnLine, ScanStates
  <2>3. ASSUME NEW i \in Current(format, lines, n)
        PROVE  Holds(format, lines, i, ((i + 1)..n) \cup {n + 1}, t)
    <3> DEFINE block == (i + 1)..n
    <3>1. Holds(format, lines, i, block, s)
      BY DEF Follows
    <3>2. block \in SUBSET Nat /\ n + 1 \in Nat /\ \A k \in block : k < n + 1
      BY DEF Current, Starts
    <3> HIDE DEF block
    <3>3. \A kind : line.kind # kind =>
            OfBlock(lines, block \cup {n + 1}, kind) = OfBlock(lines, block, kind)
      BY DEF OfBlock
    <3>4. /\ OfBlock(lines, block \cup {n + 1}, line.kind) # {}
          /\ Max(OfBlock(lines, block \cup {n + 1}, line.kind)) = n + 1
      <4> DEFINE m == n + 1
                 own == OfBlock(lines, block \cup {m}, lines[m].kind)
      <4>1. block \in SUBSET Nat /\ m \in Nat /\ (\A k \in block : k < m)
        BY <3>2
      <4> HIDE DEF m
      <4>2. own # {} /\ Max(own) = m
        BY ONLY <4>1, LastOfKind
      <4>3. QED
        BY <4>2 DEF m
    <3>5. BlockVersion(format, lines, i, block \cup {n + 1}) =
            IF line.kind = "version" THEN line.version ELSE BlockVersion(format, lines, i, block)
      <4> DEFINE own(b) == OfBlock(lines, b, "version")
      <4>1. \A b : BlockVersion(format, lines, i, b) =
              IF own(b) = {} THEN NoName ELSE lines[Max(own(b))].version
        BY <1>1 DEF BlockVersion
      <4>2. line.kind # "version" => own(block \cup {n + 1}) = own(block)
        BY <3>3
      <4>3. line.kind = "version" => own(block \cup {n + 1}) # {} /\ Max(own(block \cup {n + 1})) = n + 1
        BY <3>4
      <4> HIDE DEF own
      <4>4. QED
        BY <4>1, <4>2, <4>3
    <3>6. BlockDigest(format, lines, block \cup {n + 1}) =
            IF line.kind = "integrity" THEN DecodeSri(line.hash)
            ELSE IF line.kind = "checksum" THEN DecodeChecksum(line.hash)
            ELSE BlockDigest(format, lines, block)
      <4>1. CASE format = "yarn_classic"
        <5> DEFINE own(b) == OfBlock(lines, b, "integrity")
        <5>1. \A b : BlockDigest(format, lines, b) =
                IF own(b) = {} THEN {} ELSE DecodeSri(lines[Max(own(b))].hash)
          BY <4>1 DEF BlockDigest
        <5>2. line.kind # "integrity" => own(block \cup {n + 1}) = own(block)
          BY <3>3
        <5>3. line.kind = "integrity" => own(block \cup {n + 1}) # {} /\ Max(own(block \cup {n + 1})) = n + 1
          BY <3>4
        <5> HIDE DEF own
        <5>4. QED
          BY <1>2, <4>1, <5>1, <5>2, <5>3
      <4>2. CASE format = "yarn_berry"
        <5> DEFINE own(b) == OfBlock(lines, b, "checksum")
        <5>1. \A b : BlockDigest(format, lines, b) =
                IF own(b) = {} THEN {} ELSE DecodeChecksum(lines[Max(own(b))].hash)
          BY <4>2 DEF BlockDigest
        <5>2. line.kind # "checksum" => own(block \cup {n + 1}) = own(block)
          BY <3>3
        <5>3. line.kind = "checksum" => own(block \cup {n + 1}) # {} /\ Max(own(block \cup {n + 1})) = n + 1
          BY <3>4
        <5> HIDE DEF own
        <5>4. QED
          BY <1>2, <4>2, <5>1, <5>2, <5>3
      <4>3. QED
        BY <4>1, <4>2
    <3>7. QED
      <4> HIDE DEF t
      <4>1. Holds(format, lines, i, block \cup {n + 1}, t)
        BY <1>1, <2>2, <3>1, <3>5, <3>6 DEF Holds
      <4>2. QED
        BY <4>1 DEF t, block
  <2>4. QED
    <3> HIDE DEF t
    <3>1. Follows(format, lines, n + 1, t)
      BY <1>1, <2>1, <2>2, <2>3, StayingStep
    <3>2. QED
      BY <3>1 DEF t
<1>7. QED
  BY <1>2, <1>5, <1>6

LEMMA ScanFollows ==
  ASSUME NEW format \in LineFormat, NEW lines, lines \in Seq(LineOf(format))
  PROVE  \A n \in 0..Len(lines) : /\ Scan(format, lines)[n] \in ScanStates(format)
                                  /\ Follows(format, lines, n, Scan(format, lines)[n])
<1> DEFINE after == Scan(format, lines)
           N == Len(lines)
           T == {n \in 0..N : Follows(format, lines, n, after[n])}
<1>1. /\ after \in [0..N -> ScanStates(format)] /\ after[0] = EmptyScan
      /\ \A n \in 1..N : after[n] = ScanLine(format, after[n - 1], lines[n])
  BY ScanUnfolds
<1>2. N \in Nat /\ DOMAIN lines = 1..N
  OBVIOUS
<1>3. 0 \in T
  <2>1. Current(format, lines, 0) = {} /\ Ended(format, lines, 0) = {}
    <3>1. \A i \in Starts(format, lines) : i \in Nat /\ i >= 1 /\ (i + 1)..0 = {}
      BY <1>2 DEF Starts
    <3>2. QED
      BY <3>1 DEF Current, Ended
  <2>2. Listed(EmptyScan.deps) = {} /\ DeclaredByEnded(format, lines, 0) = {}
    BY <2>1 DEF EmptyScan, Listed, DeclaredByEnded
  <2>3. ~InPackages(lines, 0) /\ EmptyScan.inside = FALSE /\ EmptyScan.name = NoName
    BY DEF InPackages, EmptyScan
  <2>4. Follows(format, lines, 0, EmptyScan)
    BY <2>1, <2>2, <2>3 DEF Follows
  <2>5. QED
    BY <1>1, <1>2, <2>4
<1>4. ASSUME NEW n \in 0..(N - 1), n \in T PROVE n + 1 \in T
  <2>1. n + 1 \in 1..N /\ (n + 1) - 1 = n /\ n \in 0..N /\ n + 1 \in 0..N
    BY <1>2
  <2>2. after[n] \in ScanStates(format) /\ after[n + 1] = ScanLine(format, after[n], lines[n + 1])
    BY <1>1, <2>1
  <2>3. Follows(format, lines, n, after[n])
    BY <1>4
  <2> DEFINE s == after[n]
  <2> HIDE DEF after
  <2>4. Follows(format, lines, n + 1, ScanLine(format, s, lines[n + 1]))
    <3>1. CASE format = "pip_compile"
      <4>1. Follows(format, lines, n + 1, PipLine(s, lines[n + 1]))
        BY <2>2, <2>3, <3>1, PipStep
      <4>2. QED
        BY <3>1, <4>1 DEF ScanLine
    <3>2. CASE format = "pnpm"
      <4>1. Follows(format, lines, n + 1, PnpmLine(s, lines[n + 1]))
        BY <2>2, <2>3, <3>2, PnpmStep
      <4>2. QED
        BY <3>2, <4>1 DEF ScanLine
    <3>3. CASE format \in {"yarn_classic", "yarn_berry"}
      <4>1. Follows(format, lines, n + 1, YarnLine(s, lines[n + 1]))
        BY <2>2, <2>3, <3>3, YarnStep
      <4>2. QED
        BY <3>3, <4>1 DEF ScanLine
    <3>4. QED
      BY <3>1, <3>2, <3>3 DEF LineFormat
  <2>5. QED
    BY <2>1, <2>2, <2>4
<1>5. \A n \in 0..N : n \in T
  <2> HIDE DEF T, N
  <2>1. \A n \in 0..(N - 1) : n \in T => n + 1 \in T
    BY <1>4
  <2>2. QED
    BY <1>2, <1>3, <2>1, UpToSet
<1>6. QED
  BY <1>1, <1>5

\* Whatever the lines, a scanner lists what the blocks of the file declare:
\* no digest and no version of a neighbouring block, and no block left out.
LEMMA LinesAreDeclared ==
  ASSUME NEW format \in LineFormat, NEW lines, lines \in Seq(LineOf(format))
  PROVE  /\ Listed(ParseLines(format, lines)) = DeclaredByLines(format, lines)
         /\ ParseLines(format, lines) \in Seq(Dependencies)
<1> DEFINE N == Len(lines)
           s == Scan(format, lines)[N]
<1>1. N \in 0..N
  OBVIOUS
<1>2. s \in ScanStates(format) /\ Follows(format, lines, N, s)
  BY <1>1, ScanFollows
<1>3. ParseLines(format, lines) = Flushed(s, Complete(format, s))
  <2> HIDE DEF s
  <2>1. CASE format = "pip_compile"
    BY <2>1 DEF ParseLines, PipFlush, Complete, EmptyScan, s
  <2>2. CASE format = "pnpm"
    BY <2>2 DEF ParseLines, PnpmFlush, Complete, s
  <2>3. CASE format \in {"yarn_classic", "yarn_berry"}
    BY <2>3 DEF ParseLines, YarnFlush, Complete, EmptyScan, s
  <2>4. QED
    BY <2>1, <2>2, <2>3 DEF LineFormat
<1> HIDE DEF s
<1>4. Complete(format, s) => s.name # NoName /\ s.version # NoName
  BY <1>2, DependenciesAssumption DEF Complete, ScanStates
<1>5. ParseLines(format, lines) \in Seq(Dependencies)
  <2>1. Complete(format, s) \in BOOLEAN
    BY DEF Complete
  <2>2. QED
    BY <1>2, <1>3, <1>4, <2>1, FlushedType
<1> DEFINE At(i) == DeclaredAt(format, lines, i, Block(format, lines, i))
           ended == Ended(format, lines, N)
           open == Current(format, lines, N)
           starts == Starts(format, lines)
<1>6. Listed(ParseLines(format, lines)) =
        {d \in {At(i) : i \in ended} : Declares(format, d)}
          \cup {d \in {DeclaredAt(format, lines, i, (i + 1)..N) : i \in open} : Declares(format, d)}
  <2>1. Listed(s.deps) = DeclaredByEnded(format, lines, N)
    BY <1>2 DEF Follows
  <2>2. Listed(Flushed(s, Complete(format, s))) =
          Listed(s.deps)
            \cup {d \in {DeclaredAt(format, lines, i, (i + 1)..N) : i \in open} : Declares(format, d)}
    BY <1>1, <1>2, FlushIsDeclared
  <2>3. QED
    BY <1>3, <2>1, <2>2 DEF DeclaredByEnded
<1>7. starts = ended \cup open /\ \A i \in open : At(i) = DeclaredAt(format, lines, i, (i + 1)..N)
  <2>1. /\ starts = ended \cup open
        /\ \A i \in open : Block(format, lines, i) = (i + 1)..N
    BY BlocksAreOver
  <2>2. QED
    BY <2>1
<1>8. DeclaredByLines(format, lines) = {d \in {At(i) : i \in starts} : Declares(format, d)}
  BY DEF DeclaredByLines, DeclaredAt, Starts, Declares
<1>9. {At(i) : i \in starts} =
        {At(i) : i \in ended} \cup {DeclaredAt(format, lines, i, (i + 1)..N) : i \in open}
  <2> HIDE DEF At, starts, ended, open
  <2>1. QED
    BY <1>7
<1>10. QED
  <2> HIDE DEF At, starts, ended, open
  <2>1. QED
    BY <1>5, <1>6, <1>8, <1>9

\* What a lockfile of any format is parsed to is what it declares.
LEMMA LockfileIsDeclared ==
  ASSUME NEW file, IsLockfile(file), file.readable \in BOOLEAN
  PROVE  /\ Listed(ParseLockfile(file)) = DeclaredBy(file)
         /\ DOMAIN ParseLockfile(file) \subseteq Nat
         /\ DeclaredBy(file) \subseteq Dependencies
<1>1. CASE ~file.readable
  BY <1>1 DEF ParseLockfile, DeclaredBy, Listed
<1>2. CASE file.readable /\ file.format \in LineFormat
  <2>1. file.content \in Seq(LineOf(file.format))
    BY <1>2 DEF IsLockfile, LineFormat, EntryFormat
  <2>2. /\ ParseLockfile(file) = ParseLines(file.format, file.content)
        /\ DeclaredBy(file) = DeclaredByLines(file.format, file.content)
    BY <1>2 DEF ParseLockfile, DeclaredBy
  <2>3. /\ Listed(ParseLines(file.format, file.content)) = DeclaredByLines(file.format, file.content)
        /\ ParseLines(file.format, file.content) \in Seq(Dependencies)
    BY <1>2, <2>1, LinesAreDeclared
  <2>4. Listed(ParseLines(file.format, file.content)) \subseteq Dependencies
    BY <2>3 DEF Listed
  <2>5. QED
    BY <2>2, <2>3, <2>4
<1>3. CASE file.readable /\ file.format \notin LineFormat
  <2>1. file.format \in EntryFormat /\ file.content \in Seq(EntryOf(file.format))
    BY <1>3 DEF IsLockfile
  <2>2. ParseLockfile(file) = ParseEntries(file.format, file.content)
    BY <1>3 DEF ParseLockfile
  <2>3. QED
    BY <1>3, <2>1, <2>2, EntriesAreDeclared
<1>4. QED
  BY <1>1, <1>2, <1>3

-----------------------------------------------------------------------------
(* Merging.                                                                  *)

Distinct(deps) == \A d, e \in deps : d.uri = e.uri => d = e

\* What several files list, all told.
Found(parsed) == UNION {Listed(parsed[f]) : f \in DOMAIN parsed}

LEMMA PlacesAre ==
  ASSUME NEW parsed, NEW p
  PROVE  p \in Places(parsed) <=>
           /\ p = <<p[1], p[2]>> /\ p[1] \in DOMAIN parsed /\ p[2] \in DOMAIN parsed[p[1]]
BY DEF Places

\* Of the places where a URI is found one comes first.
LEMMA FirstPlace ==
  ASSUME NEW S \in SUBSET (Nat \X Nat), S # {}
  PROVE  \E p \in S : \A q \in S : ~Before(q, p)
<1> DEFINE Rows == {q[1] : q \in S}
           row == CHOOSE r \in Rows : \A x \in Rows : r <= x
           Columns == {q[2] : q \in {x \in S : x[1] = row}}
           column == CHOOSE c \in Columns : \A x \in Columns : c <= x
<1>1. Rows \in SUBSET Nat /\ Rows # {}
  OBVIOUS
<1>2. row \in Rows /\ \A x \in Rows : row <= x
  <2>1. \E r \in Rows : \A x \in Rows : r <= x
    <3> HIDE DEF Rows
    <3>1. QED
      BY <1>1, Least
  <2>2. QED
    BY <2>1
<1>3. Columns \in SUBSET Nat /\ Columns # {}
  BY <1>2
<1>4. column \in Columns /\ \A x \in Columns : column <= x
  <2>1. \E c \in Columns : \A x \in Columns : c <= x
    <3> HIDE DEF Columns
    <3>1. QED
      BY <1>3, Least
  <2>2. QED
    BY <2>1
<1>5. PICK p \in S : p[1] = row /\ p[2] = column
  <2> HIDE DEF row, column
  <2>1. QED
    BY <1>4
<1>6. ASSUME NEW q \in S, Before(q, p) PROVE FALSE
  <2>1. q[1] \in Rows /\ (q[1] = row => q[2] \in Columns) /\ q[1] \in Nat /\ q[2] \in Nat
    BY <1>6
  <2>2. row \in Nat /\ column \in Nat /\ row <= q[1] /\ (q[1] = row => column <= q[2])
    <3> HIDE DEF row, column, Rows, Columns
    <3>1. QED
      BY <1>1, <1>2, <1>3, <1>4, <2>1
  <2>3. q[1] < row \/ (q[1] = row /\ q[2] < column)
    <3> HIDE DEF row, column
    <3>1. QED
      BY <1>5, <1>6 DEF Before
  <2>4. QED
    <3> HIDE DEF row, column
    <3>1. QED
      BY <2>1, <2>2, <2>3
<1>7. QED
  BY <1>6

\* Two places of one URI: one of them is before the other.
LEMMA OneBefore ==
  ASSUME NEW p \in Nat \X Nat, NEW q \in Nat \X Nat, p # q
  PROVE  Before(p, q) \/ Before(q, p)
<1>1. p = <<p[1], p[2]>> /\ q = <<q[1], q[2]>> /\ p[1] \in Nat /\ p[2] \in Nat /\ q[1] \in Nat /\ q[2] \in Nat
  OBVIOUS
<1>2. p[1] # q[1] \/ p[2] # q[2]
  BY <1>1
<1>3. QED
  BY <1>1, <1>2 DEF Before

LEMMA MergeIs ==
  ASSUME NEW deps, Distinct(deps), NEW parsed, DOMAIN parsed \subseteq Nat,
         \A f \in DOMAIN parsed : DOMAIN parsed[f] \subseteq Nat
  PROVE  /\ Distinct(Merge(deps, parsed))
         /\ deps \subseteq Merge(deps, parsed)
         /\ Merge(deps, parsed) \subseteq deps \cup Found(parsed)
         /\ Uris(Merge(deps, parsed)) = Uris(deps) \cup Uris(Found(parsed))
<1> DEFINE At(p) == parsed[p[1]][p[2]]
           Wins(p) == /\ At(p).uri \notin Uris(deps)
                      /\ \A q \in Places(parsed) : Before(q, p) => At(q).uri # At(p).uri
           won == {At(p) : p \in {q \in Places(parsed) : Wins(q)}}
<1>1. Merge(deps, parsed) = deps \cup won
  BY DEF Merge
<1>2. Places(parsed) \in SUBSET (Nat \X Nat)
  BY PlacesAre
<1>3. Found(parsed) = {At(p) : p \in Places(parsed)}
  <2>1. ASSUME NEW d \in Found(parsed) PROVE \E p \in Places(parsed) : d = At(p)
    <3>1. PICK f \in DOMAIN parsed : d \in Listed(parsed[f])
      BY DEF Found
    <3>2. PICK i \in DOMAIN parsed[f] : d = parsed[f][i]
      BY <3>1 DEF Listed
    <3>3. <<f, i>> \in Places(parsed) /\ At(<<f, i>>) = d
      BY <3>2, PlacesAre
    <3>4. QED
      BY <3>3
  <2>2. ASSUME NEW p \in Places(parsed) PROVE At(p) \in Found(parsed)
    BY PlacesAre DEF Found, Listed
  <2>3. QED
    BY <2>1, <2>2
<1>4. won \subseteq Found(parsed)
  BY <1>3
<1>5. Distinct(won)
  <2> SUFFICES ASSUME NEW p \in Places(parsed), NEW q \in Places(parsed), Wins(p), Wins(q),
                      At(p).uri = At(q).uri
               PROVE  At(p) = At(q)
    BY DEF Distinct
  <2>1. p = q
    <3> SUFFICES ASSUME p # q PROVE FALSE
      OBVIOUS
    <3>1. Before(p, q) \/ Before(q, p)
      BY <1>2, OneBefore
    <3>2. QED
      BY <3>1
  <2>2. QED
    BY <2>1
<1>6. \A d \in won : d.uri \notin Uris(deps)
  OBVIOUS
<1>7. Distinct(deps \cup won)
  <2> HIDE DEF won
  <2>1. \A d \in deps, e \in won : d.uri # e.uri
    BY <1>6 DEF Uris
  <2>2. QED
    BY <1>5, <2>1 DEF Distinct
<1>8. ASSUME NEW p \in Places(parsed), At(p).uri \notin Uris(deps)
      PROVE  At(p).uri \in Uris(won)
  <2> DEFINE S == {q \in Places(parsed) : At(q).uri = At(p).uri}
  <2>1. S \in SUBSET (Nat \X Nat) /\ S # {}
    BY <1>2
  <2>2. PICK q \in S : \A x \in S : ~Before(x, q)
    <3> HIDE DEF S
    <3>1. QED
      BY <2>1, FirstPlace
  <2>3. Wins(q) /\ q \in Places(parsed)
    BY <1>8, <2>2
  <2>4. At(q) \in won /\ At(q).uri = At(p).uri
    BY <2>2, <2>3
  <2>5. QED
    <3> HIDE DEF won
    <3>1. QED
      BY <2>4 DEF Uris
<1>9. Uris(deps \cup won) = Uris(deps) \cup Uris(Found(parsed))
  <2>1. \A d \in Found(parsed) : d.uri \in Uris(deps) \/ d.uri \in Uris(won)
    BY <1>3, <1>8
  <2> HIDE DEF won
  <2>2. QED
    BY <1>4, <2>1 DEF Uris
<1>10. QED
  <2> HIDE DEF won
  <2>1. QED
    BY <1>1, <1>4, <1>7, <1>9

-----------------------------------------------------------------------------
(* Directories.                                                              *)

Tree(repo) == \A d \in Dir : IsDirectory(repo[d])

LEMMA BelowIsDir ==
  ASSUME NEW repo, Tree(repo), NEW d \in Dir
  PROVE  Below(repo, d) \subseteq Dir
<1>1. repo[d].subdirs \in Seq(Dir)
  BY DEF Tree, IsDirectory
<1>2. ToSet(repo[d].subdirs) \subseteq Dir
  BY <1>1 DEF ToSet
<1>3. QED
  BY <1>2 DEF Below

LEMMA ReachableIs ==
  ASSUME NEW repo, Tree(repo), NEW from \in Dir
  PROVE  /\ from \in Reachable(repo, from)
         /\ \A d \in Reachable(repo, from) : Below(repo, d) \subseteq Reachable(repo, from)
         /\ \A d \in Reachable(repo, from) :
              d = from \/ \E c \in Below(repo, from) : d \in Reachable(repo, c)
<1> DEFINE Closed(D) == \A e \in D : Below(repo, e) \subseteq D
<1>1. from \in Reachable(repo, from)
  BY DEF Reachable
<1>2. ASSUME NEW start \in Dir, NEW d \in Reachable(repo, start)
      PROVE  Below(repo, d) \subseteq Reachable(repo, start)
  <2>1. d \in Dir /\ \A D \in SUBSET Dir : start \in D /\ Closed(D) => d \in D
    BY DEF Reachable
  <2>2. \A D \in SUBSET Dir : start \in D /\ Closed(D) => Below(repo, d) \subseteq D
    BY <2>1
  <2>3. Below(repo, d) \subseteq Dir
    BY <2>1, BelowIsDir
  <2>4. QED
    BY <2>2, <2>3 DEF Reachable
<1>3. ASSUME NEW d \in Reachable(repo, from)
      PROVE  d = from \/ \E c \in Below(repo, from) : d \in Reachable(repo, c)
  <2> DEFINE D == {from} \cup {x \in Dir : \E c \in Below(repo, from) : x \in Reachable(repo, c)}
  <2>1. D \in SUBSET Dir /\ from \in D
    OBVIOUS
  <2>2. Below(repo, from) \subseteq Dir
    BY BelowIsDir
  <2>3. ASSUME NEW e \in D PROVE Below(repo, e) \subseteq D
    <3>1. CASE e = from
      <4>1. \A c \in Below(repo, from) : c \in Reachable(repo, c)
        BY <2>2 DEF Reachable
      <4>2. QED
        BY <2>2, <3>1, <4>1
    <3>2. CASE e # from
      <4>1. PICK c \in Below(repo, from) : e \in Reachable(repo, c)
        BY <3>2
      <4>2. Below(repo, e) \subseteq Reachable(repo, c)
        BY <1>2, <2>2, <4>1
      <4>3. Reachable(repo, c) \subseteq Dir
        BY DEF Reachable
      <4>4. QED
        BY <4>2, <4>3
    <3>3. QED
      BY <3>1, <3>2
  <2>4. d \in D
    <3> HIDE DEF D
    <3>1. Closed(D)
      BY <2>3
    <3>2. QED
      BY <2>1, <3>1 DEF Reachable
  <2>5. QED
    BY <2>4
<1>4. QED
  BY <1>1, <1>2, <1>3

\* The directories the walk descends into are those below that are not skipped.
LEMMA SubdirectoriesAre ==
  ASSUME NEW d \in Dir, Tree(repository), repository[d].listable
  PROVE  /\ Subdirectories(d) \in Seq(Dir)
         /\ Listed(Subdirectories(d)) = Below(repository, d)
<1> DEFINE met == repository[d].subdirs
           N == Len(met)
           S == Seq(Dir)
           Met(n, k) == IF repository[met[n]].skipped THEN k ELSE Append(k, met[n])
           step == [n \in 1..N |-> [k \in S |-> Met(n, k)]]
           Solves(f) == f = [n \in 0..N |-> IF n = 0 THEN << >> ELSE Met(n, f[n - 1])]
           kept == CHOOSE f : Solves(f)
           Wanted(n) == {met[i] : i \in {j \in 1..n : ~repository[met[j]].skipped}}
<1>1. met \in Seq(Dir)
  BY DEF Tree, IsDirectory
<1>2. N \in Nat /\ << >> \in S /\ DOMAIN met = 1..N /\ \A n \in 1..N : met[n] \in Dir
  BY <1>1, EmptySeq
<1>3. \A n \in 1..N, k \in S : Met(n, k) \in S
  BY <1>2, AppendProperties
<1>4. step \in [1..N -> [S -> S]]
  <2> HIDE DEF S, N, Met
  <2>1. QED
    BY <1>3
<1>5. PICK g \in [0..N -> S] : g[0] = << >> /\ \A n \in 1..N : g[n] = step[n][g[n - 1]]
  <2> DEFINE base == << >>
  <2>1. N \in Nat /\ base \in S
    BY <1>2
  <2> HIDE DEF step, S, N, base
  <2>2. \E g \in [0..N -> S] : g[0] = base /\ \A n \in 1..N : g[n] = step[n][g[n - 1]]
    BY ONLY <2>1, <1>4, RecursiveFunction
  <2>3. QED
    BY <2>2 DEF base
<1>6. \A n \in 1..N : n - 1 \in 0..N /\ g[n] = Met(n, g[n - 1])
  <2>1. N \in Nat
    BY <1>2
  <2> HIDE DEF S, N, Met
  <2>2. \A n \in 1..N : n - 1 \in 0..N
    BY <2>1
  <2>3. \A n \in 1..N : g[n - 1] \in S /\ g[n] = step[n][g[n - 1]]
    BY <1>5, <2>2
  <2>4. QED
    BY <2>2, <2>3
<1>7. Solves(g)
  <2>1. N \in Nat
    BY <1>2
  <2> HIDE DEF S, N, Met
  <2>2. QED
    BY <2>1, <1>5, <1>6
<1>8. Solves(kept)
  <2> HIDE DEF Solves
  <2>1. QED
    BY <1>7
<1>9. Subdirectories(d) = kept[N]
  BY DEF Subdirectories
<1>10. kept[0] = << >> /\ \A n \in 1..N : kept[n] = Met(n, kept[n - 1])
  <2>1. N \in Nat
    BY <1>2
  <2> HIDE DEF N, Met, kept
  <2>2. QED
    BY <2>1, <1>8
<1> HIDE DEF kept
<1> DEFINE T == {n \in 0..N : kept[n] \in S /\ Listed(kept[n]) = Wanted(n)}
<1>11. 0 \in T
  <2>1. 0 \in 0..N /\ << >> \in S /\ 1..0 = {}
    BY <1>2
  <2>2. Listed(<< >>) = {}
    BY DEF Listed
  <2>3. Wanted(0) = {}
    BY <2>1
  <2> HIDE DEF S, N, Wanted
  <2>4. QED
    BY <1>10, <2>1, <2>2, <2>3
<1>12. ASSUME NEW n \in 0..(N - 1), n \in T PROVE n + 1 \in T
  <2>1. n + 1 \in 1..N /\ (n + 1) - 1 = n /\ n + 1 \in 0..N /\ 1..(n + 1) = (1..n) \cup {n + 1}
    BY <1>2
  <2> DEFINE k == kept[n]
             e == met[n + 1]
  <2>2. k \in S /\ Listed(k) = Wanted(n) /\ e \in Dir
    BY <1>2, <1>12, <2>1
  <2>3. kept[n + 1] = IF repository[e].skipped THEN k ELSE Append(k, e)
    BY <1>10, <2>1
  <2>4. Listed(Append(k, e)) = Listed(k) \cup {e} /\ Append(k, e) \in Seq(Dir)
    <3> HIDE DEF k, e
    <3>1. k \in Seq(Dir)
      BY <2>2
    <3>2. /\ DOMAIN Append(k, e) = DOMAIN k \cup {Len(k) + 1}
          /\ Append(k, e)[Len(k) + 1] = e
          /\ \A i \in DOMAIN k : Append(k, e)[i] = k[i]
          /\ Append(k, e) \in Seq(Dir)
      BY <2>2, <3>1
    <3>3. QED
      BY <3>2 DEF Listed
  <2>5. Wanted(n + 1) = IF repository[e].skipped THEN Wanted(n) ELSE Wanted(n) \cup {e}
    BY <2>1
  <2>6. QED
    <3> HIDE DEF Wanted, k, e
    <3>1. kept[n + 1] \in S /\ Listed(kept[n + 1]) = Wanted(n + 1)
      BY <2>2, <2>3, <2>4, <2>5
    <3>2. QED
      BY <2>1, <3>1
<1>13. N \in T
  <2> HIDE DEF T, N
  <2>1. \A n \in 0..(N - 1) : n \in T => n + 1 \in T
    BY <1>12
  <2>2. \A n \in 0..N : n \in T
    BY <1>2, <1>11, <2>1, UpToSet
  <2>3. QED
    BY <1>2, <2>2
<1>14. Wanted(N) = Below(repository, d)
  BY <1>2 DEF Below, ToSet
<1>15. QED
  BY <1>9, <1>13, <1>14

\* What is found in a directory is what its lockfiles declare.
LEMMA DirectoryIsDeclared ==
  ASSUME NEW d \in Dir, Tree(repository), repository[d].listable
  PROVE  LET parsed == Parsing(repository[d].files)
         IN  /\ DOMAIN parsed \subseteq Nat
             /\ \A f \in DOMAIN parsed : DOMAIN parsed[f] \subseteq Nat
             /\ Found(parsed) = DeclaredIn(repository, d)
             /\ Found(parsed) \subseteq Dependencies
<1> DEFINE files == repository[d].files
           parsed == Parsing(files)
<1>1. \A i \in DOMAIN files : i \in Nat /\ files[i].readable \in BOOLEAN /\ IsLockfile(files[i])
  BY DEF Tree, IsDirectory
<1>2. DOMAIN parsed = DOMAIN files /\ \A i \in DOMAIN files : parsed[i] = ParseLockfile(files[i])
  BY DEF Parsing
<1>3. \A i \in DOMAIN files : /\ Listed(parsed[i]) = DeclaredBy(files[i])
                              /\ DOMAIN parsed[i] \subseteq Nat
                              /\ DeclaredBy(files[i]) \subseteq Dependencies
  BY <1>1, <1>2, LockfileIsDeclared
<1>4. DeclaredIn(repository, d) = UNION {DeclaredBy(f) : f \in ToSet(files)}
  BY DEF DeclaredIn
<1>5. Found(parsed) = UNION {DeclaredBy(files[i]) : i \in DOMAIN files}
  <2> HIDE DEF parsed, files
  <2>1. QED
    BY <1>2, <1>3 DEF Found
<1>6. QED
  <2> HIDE DEF parsed, files
  <2>1. /\ DOMAIN parsed \subseteq Nat
        /\ \A f \in DOMAIN parsed : DOMAIN parsed[f] \subseteq Nat
        /\ Found(parsed) = DeclaredIn(repository, d)
        /\ Found(parsed) \subseteq Dependencies
    BY <1>1, <1>2, <1>3, <1>4, <1>5 DEF ToSet
  <2>2. QED
    BY <2>1 DEF parsed, files
=============================================================================
