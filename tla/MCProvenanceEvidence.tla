------------------------- MODULE MCProvenanceEvidence -------------------------
(* ProvenanceEvidence over worlds that are plain but for one thing: the     *)
(* licenses of an SBOM, the lines or the entries of a lockfile, the shape   *)
(* of the tree, the denylist, the checkout or the settings on GitHub.       *)
EXTENDS ProvenanceEvidence, MCCommitAuthor

MCQuiet == Of("c1", [c1 |-> Human(TRUE)], << >>)

-----------------------------------------------------------------------------
UpTo(S, n) == UNION {[1..k -> S] : k \in 0..n}

H(algo, of) == [algo |-> algo, of |-> of]
MCHash == {H("sha512", "x"), H("sha512", "y"), H("sha256", "x"), H("sha1", "x")}
MCPolicy == [mit |-> "permissive", gpl |-> "forbidden", odd |-> "neither"]

\* A package "a" on a denylist also matches "ab".
MCStartsWith == {<<"a", "a">>, <<"a", "ab">>, <<"ab", "ab">>}

PlainCheckout ==
  [NoEvidence.checkout EXCEPT !.resolvable = TRUE,
     !.denylist = [state |-> "valid", names |-> {"a"}]]
Plain == [token |-> FALSE, checkout |-> PlainCheckout, governance |-> NoEvidence.governance]

Directory(subdirs, locks) ==
  [skipped |-> FALSE, listable |-> TRUE, subdirs |-> subdirs, files |-> locks]
Bare(locks) == [d \in Dir |-> IF d = Root THEN Directory(<< >>, locks)
                              ELSE Directory(<< >>, << >>)]

PlainWorld ==
  [bill |-> NoBill, curated |-> NoCurations, sarif |-> NoScan, repository |-> Bare(<< >>),
   evidence |-> Plain, setting |-> NoSetting]

-----------------------------------------------------------------------------
(* SBOMs.                                                                    *)
Stated == {Unspecified, {{"mit"}}, {{"gpl"}}, {{"odd"}}, {{"mit"}, {"gpl"}}, {{"mit", "gpl"}},
           {{"gpl"}, {"odd"}}}

A == <<"a", "1">>
AB == <<"ab", "1">>
Lib(purl, shipped, stated) ==
  [kind |-> "library", purl |-> purl, shipped |-> shipped, stated |-> stated, digest |-> {}]

Sbom(format, listed) == [given |-> TRUE, readable |-> TRUE, format |-> format, listed |-> listed]

\* One component with at most one statement of its license, then more of them.
OneStatement ==
  {<<Lib(purl, s, stated)>> : <<purl, s>> \in {<<A, TRUE>>, <<A, FALSE>>, <<NoPurl, FALSE>>},
                              stated \in UpTo(Stated, 1)}
Lists ==
  UNION {{<<Lib(A, TRUE, <<x, y>>)>> : x \in Stated, y \in Stated},
         {<<Lib(A, TRUE, <<x>>), [Lib(AB, FALSE, <<y>>) EXCEPT !.kind = k]>> :
            x \in Stated, y \in {{{"gpl"}}, {{"odd"}}}, k \in {"file", "unnamed", "library"}}}

MCCurations == {NoCurations, [p \in {A} |-> {{"mit"}}], [p \in {<<"a">>} |-> {{"gpl"}}]}
MCSarif == {NoScan, ScanReport("available", 1, 0, {"trivy"}), ScanReport("unavailable", 0, 0, {})}

LicenseWorlds ==
  {[PlainWorld EXCEPT !.bill = Sbom(f, l), !.curated = c, !.sarif = r] :
     f \in {"cyclonedx", "spdx3"}, l \in OneStatement, c \in MCCurations, r \in MCSarif}
  \cup {[PlainWorld EXCEPT !.bill = Sbom(f, l), !.curated = [p \in {A} |-> {{"mit"}}]] :
          f \in {"cyclonedx", "spdx2", "spdx3"}, l \in Lists}
  \cup {[PlainWorld EXCEPT !.bill.given = TRUE, !.bill.readable = r] : r \in BOOLEAN}

-----------------------------------------------------------------------------
(* Lockfiles.                                                                *)
L(kind, name, version, hash) == [kind |-> kind, name |-> name, version |-> version, hash |-> hash]
Hashed(kind, hash) == L(kind, NoName, NoName, hash)
Only(kind) == Hashed(kind, {})

X512 == H("sha512", "x")
Y512 == H("sha512", "y")
X256 == H("sha256", "x")
X1 == H("sha1", "x")

Lines(format) ==
  CASE format = "pip_compile" ->
         {L("requirement", "a", "1", {}), L("requirement", "ab", "1", {}), Only("other"),
          Hashed("hash", {X256}), Hashed("hash", {X512}), Only("bad_hash")}
    [] format = "pnpm" ->
         {Only("packages"), Only("section"), L("key", "a", "1", {}), L("key", NoName, NoName, {}),
          Hashed("resolution", {X512, X1}), Only("resolution")}
    [] format = "yarn_classic" ->
         {L("header", "a", NoName, {}), L("header", "ab", NoName, {}), L("version", NoName, "1", {}),
          Hashed("integrity", {X512}), Hashed("integrity", {X1, X256})}
    [] OTHER ->
         {L("header", "a", NoName, {}), Only("metadata"), L("version", NoName, "1", {}),
          L("version", NoName, "2", {}), Hashed("checksum", {Y512}), Hashed("checksum", {X256})}

Lock(format, content) == [format |-> format, readable |-> TRUE, content |-> content]

\* An entry to start from, so that the lines that follow meet one.
Opening(format) ==
  CASE format = "pip_compile" -> {<<L("requirement", "a", "1", {})>>}
    [] format = "yarn_berry" -> {<<L("header", "a", NoName, {}), L("version", NoName, "1", {})>>}
    [] format = "pnpm" -> {<< >>, <<Only("packages"), L("key", "a", "1", {})>>}
    [] format = "yarn_classic" ->
         {<< >>, <<L("header", "ab", NoName, {}), L("version", NoName, "1", {})>>}

LineFiles ==
  {Lock(f, opening \o lines) : <<f, opening, lines>> \in
     UNION {{f} \X Opening(f) \X UpTo(Lines(f), 3) : f \in LineFormat}}

Artifacts ==
  UpTo({[kind |-> "wheel", hash |-> {}], [kind |-> "wheel", hash |-> {X256}],
        [kind |-> "sdist", hash |-> {X512}], [kind |-> "git", hash |-> {X1}]}, 2)
E(kind, uri, artifacts) == [kind |-> kind, uri |-> uri, artifacts |-> artifacts]
OneSdist == <<[kind |-> "sdist", hash |-> {X512}]>>
EntryFiles ==
  {Lock(f, <<E("pinned", A, x)>>) : f \in EntryFormat, x \in Artifacts}
  \cup UNION {{Lock(f, <<E(k, A, << >>), E("pinned", uri, OneSdist)>>) :
                 k \in EntryKinds(f), uri \in {A, AB}} : f \in EntryFormat}

FileWorlds == {[PlainWorld EXCEPT !.repository = Bare(<<f>>)] : f \in UNION {LineFiles, EntryFiles}}

-----------------------------------------------------------------------------
(* Trees.                                                                    *)
Pinned == Lock("npm", <<E("pinned", A, <<[kind |-> "wheel", hash |-> {X512}]>>)>>)
Unpinned == Lock("pom", <<E("pinned", A, << >>)>>)
Other == Lock("uv", <<E("pinned", <<"b", "2">>, << >>), E("pinned", AB, << >>)>>)
Unreadable == [Pinned EXCEPT !.readable = FALSE]

Listings == {<< >>, <<Pinned>>, <<Unpinned>>, <<Pinned, Unpinned>>, <<Unpinned, Pinned>>,
             <<Other, Unreadable>>, <<Unreadable>>}

Tree(order, top, under, deep, kind) ==
  [d \in Dir |->
     CASE d = Root -> Directory(order, top)
       [] d = "d1" -> [Directory(<<"d3">>, under) EXCEPT !.skipped = (kind = "skipped"),
                                                       !.listable = (kind # "unlistable")]
       [] d = "d2" -> Directory(<< >>, <<Other>>)
       [] OTHER -> Directory(<< >>, deep)]

SbomOfTwo == Sbom("spdx2", <<Lib(A, TRUE, << >>), Lib(AB, TRUE, <<{{"mit"}}>>)>>)

TreeWorlds ==
  {[PlainWorld EXCEPT !.repository = Tree(order, top, under, deep, k),
                           !.evidence.checkout.denylist.names = n] :
     order \in {<<"d1", "d2">>, <<"d2", "d1">>}, top \in Listings, under \in Listings,
     deep \in {<< >>, <<Unpinned>>},
     k \in {"plain", "skipped", "unlistable"}, n \in {{"a"}, {"ab"}}}
  \cup {[PlainWorld EXCEPT !.repository = Bare(locks), !.bill = SbomOfTwo,
                           !.evidence.checkout.denylist = [state |-> s, names |-> n]] :
          locks \in Listings, s \in {"valid", "tampered", "absent"}, n \in {{}, {"a"}, {"ab"}}}

-----------------------------------------------------------------------------
(* Controls.                                                                 *)
Checkouts ==
  {NoEvidence.checkout, PlainCheckout}
  \cup {[PlainCheckout EXCEPT !.npm = n, !.pom = p, !.pipManifest = b, !.proxyConfig = c] :
          n \in {"absent", "malformed", "no object", "no url", "internal", "mixed"},
          p \in {"absent", "central", "outside"}, b \in BOOLEAN, c \in BOOLEAN}
  \cup {[PlainCheckout EXCEPT !.processRef = r, !.runbook = b] :
          r \in {"none", "not utf-8", "no url", "url", "file", "dangling"}, b \in BOOLEAN}
  \cup {[PlainCheckout EXCEPT !.automation = a, !.automerge = b, !.codeOwners = c] :
          a \in BOOLEAN, b \in BOOLEAN, c \in BOOLEAN}
  \cup {[co EXCEPT !.denylist.state = "not utf-8"] : co \in {NoEvidence.checkout, PlainCheckout}}

Governances ==
  {NoEvidence.governance}
  \cup [available : {TRUE}, pullRequest : BOOLEAN, pushPrevented : BOOLEAN, codeOwners : BOOLEAN,
        provenanceCheck : BOOLEAN]

Settings ==
  [alerts : BOOLEAN, dependabot : BOOLEAN,
   securityMd : {{}, {<<"own", 1>>}, {<<"own", 3>>}, {<<"org", 2>>}, {<<"own", 2>>, <<"org", 1>>}}]

ControlWorlds ==
  {[PlainWorld EXCEPT !.evidence.checkout = co] : co \in Checkouts}
  \cup {[PlainWorld EXCEPT !.evidence.checkout.codeOwners = c, !.evidence.governance = g] :
          c \in BOOLEAN, g \in Governances}
  \cup {[PlainWorld EXCEPT !.evidence.token = TRUE, !.setting = s, !.sarif = r] :
          s \in Settings, r \in {NoScan, ScanReport("available", 0, 1, {"trivy"})}}

AllWorlds == UNION {LicenseWorlds, FileWorlds, TreeWorlds, ControlWorlds}
MCWorlds == AllWorlds  \* TLC keeps the value of AllWorlds

-----------------------------------------------------------------------------
(* Suites.                                                                   *)
T(truth, journeys) == [truth |-> truth, journeys |-> journeys]
MCStageTests ==
  {<< >>, <<T("passed", {"j1"})>>, <<T("passed", {"j1", "j2"})>>, <<T("skipped", {"j1"})>>,
   <<T("passed", {"j1"}), T("failed", {"j1"})>>, <<T("passed", {"j2"})>>}

J(id, t) == [id |-> id, tier |-> t]
Declarations ==
  {<< >>, <<J("j1", "ci")>>, <<J("j1", "both")>>, <<J("j1", "ci"), J("j2", "cd")>>,
   <<J("j1", "ci"), J("j2", "both")>>, <<J("j1", "both"), J("j2", "both")>>, <<J("j1", "both"), J("j1", "ci")>>,
   <<J("j1", "ci"), J("j2", "unknown")>>, <<J("j1", "ci"), J(NoId, "cd")>>}

Contract(form, entries, framework, m) ==
  [form |-> form, entries |-> entries, framework |-> framework, min |-> m]
MCContracts ==
  {Contract("journeys", d, "playwright", 10000) : d \in Declarations}
  \cup {Contract("journeys", d, "generic_json", 5000) :
          d \in {<<J("j1", "both"), J("j2", "both")>>, <<J("j1", "ci"), J("j2", "cd")>>}}
  \cup {Contract("declared_journeys", d, "pytest", 10000) :
          d \in {<<J("j1", "ci"), J("j2", "ci")>>, <<J("j1", "ci"), J("j1", "ci"), J(NoId, "ci")>>}}
  \cup {Contract("absent", << >>, "other", 0), Contract("journeys", <<J("j1", "ci")>>, "other", 0)}
=============================================================================
