---------------------------- MODULE VersionSites ----------------------------
(***************************************************************************)
(* scripts/version.mjs over the working tree: `check`, which reads every   *)
(* place a version or a release date is written, and `set`, which writes   *)
(* the versions file by file and can stop half way.                        *)
(***************************************************************************)
EXTENDS Naturals, Sequences, FiniteSets

CONSTANTS
  Versions,     \* strings SEMVER accepts
  NotSemver,    \* one that it does not
  OldVersion,   \* the last release
  MaxMishaps,   \* bound: deaths of `set` and edits that leave the tree wrong
  None

ASSUME VersionAssumption ==
  /\ OldVersion \in Versions
  /\ NotSemver \notin Versions
  /\ MaxMishaps \in Nat

\* The sites in the order `set` writes them, each with its file.
VERSIONED ==
  << <<"typescript", "package.json">>, <<"python", "pyproject.toml">>,
     <<"rust", "Cargo.toml">>, <<"java", "pom.xml">>, <<"csharp", "NebulaToken.csproj">>,
     <<"dart", "pubspec.yaml">>, <<"ruby", "nebula-token.gemspec">>,
     <<"elixir", "mix.exs">>, <<"java-scm-tag", "pom.xml">>,
     <<"sonar", "sonar-project.properties">>,
     <<"typescript-lock", "package-lock.json">>,
     <<"typescript-lock-root", "package-lock.json">>,
     <<"java-readme-maven", "java/README.md">>,
     <<"java-readme-gradle", "java/README.md">>, <<"java-skill", "java/SKILL.md">>,
     <<"go-readme", "go/README.md">>, <<"citation", "CITATION.cff">> >>

Sites     == {VERSIONED[i][1] : i \in DOMAIN VERSIONED}
SitesIn(file) == {VERSIONED[i][1] : i \in {j \in DOMAIN VERSIONED : VERSIONED[j][2] = file}}

\* The dated files.  Two of them read the version from a version site of
\* their own; a changelog has it in its newest heading.
DATED == {"CHANGELOG.md", "typescript/CHANGELOG.md", "python/CHANGELOG.md",
          "rust/CHANGELOG.md", "dart/CHANGELOG.md", "ruby/CHANGELOG.md",
          "elixir/CHANGELOG.md", "CITATION.cff", "pom.xml"}

VersionSiteOf(d) == CASE d = "CITATION.cff" -> "citation"
                      [] d = "pom.xml"      -> "java"
                      [] OTHER              -> None

UNVERSIONED == {"go.mod", "composer.json"}

VARIABLES
  tree,      \* the working tree
  setting,   \* `set` in progress: the version and the next site, or None
  mishaps    \* how often something went wrong

siteVars == <<tree, setting, mishaps>>

\* What a pattern matches in its file is a list of versions; a heading or a
\* date can be missing.
CleanTree ==
  [ sites   |-> [s \in Sites |-> <<OldVersion>>],
    heading |-> [d \in DATED |-> OldVersion],
    date    |-> [d \in DATED |-> "old day"],
    stray   |-> {} ]

-----------------------------------------------------------------------------
(* check                                                                    *)

\* match(): exactly one match, or an error.
Readable(t, s) == Len(t.sites[s]) = 1

Distinct(t) == {t.sites[s][1] : s \in {r \in Sites : Readable(t, r)}}

\* The version a dated file's first match names, None when nothing matches.
DatedVersion(t, d) ==
  LET s == VersionSiteOf(d)
  IN  IF t.date[d] = None THEN None
      ELSE IF s = None THEN t.heading[d]
      ELSE IF t.sites[s] = <<>> THEN None ELSE t.sites[s][1]

DatesAgree(t, manifestVersion) ==
  /\ \A d \in DATED : /\ DatedVersion(t, d) # None
                      /\ manifestVersion # None => DatedVersion(t, d) = manifestVersion
  /\ Cardinality({t.date[d] : d \in DATED}) <= 1

\* Fault: a site that cannot be read is printed and not counted a problem.
CheckReadable(t, expected) ==
  LET distinct == Distinct(t)
      manifest == IF Cardinality(distinct) = 1 THEN CHOOSE v \in distinct : TRUE ELSE None
  IN  /\ distinct \subseteq Versions
      /\ Cardinality(distinct) <= 1
      /\ t.stray = {}
      /\ DatesAgree(t, manifest)
      /\ expected # None =>
           expected \in Versions /\ (manifest # None => manifest = expected)

Check(t, expected) ==
  LET distinct == Distinct(t)
      manifest == IF Cardinality(distinct) = 1 THEN CHOOSE v \in distinct : TRUE ELSE None
  IN  /\ \A s \in Sites : Readable(t, s) /\ t.sites[s][1] \in Versions
      /\ Cardinality(distinct) <= 1
      /\ t.stray = {}
      /\ DatesAgree(t, manifest)
      /\ expected # None =>
           expected \in Versions /\ (manifest # None => manifest = expected)

-----------------------------------------------------------------------------
(* set X.Y.Z                                                                *)

BeginSet(v) ==
  /\ setting = None
  /\ v \in Versions
  /\ setting' = [to |-> v, at |-> 1]
  /\ UNCHANGED <<tree, mishaps>>

Site(i) == VERSIONED[i][1]

WriteSite(s, v) == tree' = [tree EXCEPT !.sites[s] = <<v>>]

\* Fault: a pattern that does not match exactly once is passed over.
SetSiteLenient ==
  /\ setting # None
  /\ setting.at <= Len(VERSIONED)
  /\ IF Readable(tree, Site(setting.at))
     THEN WriteSite(Site(setting.at), setting.to) ELSE UNCHANGED tree
  /\ setting' = [setting EXCEPT !.at = @ + 1]
  /\ UNCHANGED mishaps

\* One site: read the file, insist on one match, write the file.
SetSite ==
  /\ setting # None
  /\ setting.at <= Len(VERSIONED)
  /\ Readable(tree, Site(setting.at))
  /\ WriteSite(Site(setting.at), setting.to)
  /\ setting' = [setting EXCEPT !.at = @ + 1]
  /\ UNCHANGED mishaps

\* A pattern that matches no times or twice throws: the earlier files stay written.
SetThrows ==
  /\ setting # None
  /\ setting.at <= Len(VERSIONED)
  /\ ~ Readable(tree, Site(setting.at))
  /\ setting' = None
  /\ UNCHANGED <<tree, mishaps>>

SetEnds ==
  /\ setting # None
  /\ setting.at > Len(VERSIONED)
  /\ setting' = None
  /\ UNCHANGED <<tree, mishaps>>

Mishap == mishaps < MaxMishaps /\ mishaps' = mishaps + 1

\* The process dies between two files, or in writeFileSync, which truncates
\* the file before it writes it: then everything the file said is gone.
SetDies ==
  /\ setting # None
  /\ setting.at <= Len(VERSIONED)
  /\ LET file == VERSIONED[setting.at][2]
     IN  \/ UNCHANGED tree
         \/ /\ Readable(tree, Site(setting.at))
            /\ tree.sites[Site(setting.at)] # <<setting.to>>
            /\ tree' = [tree EXCEPT
                 !.sites = [s \in Sites |-> IF s \in SitesIn(file) THEN <<>> ELSE @[s]],
                 !.date  = [d \in DATED |-> IF d = file THEN None ELSE @[d]]]
  /\ setting' = None
  /\ Mishap

-----------------------------------------------------------------------------
(* The maintainer's hand (RELEASING.md steps 2 and 3).                      *)

\* The dated sites are dated by hand, and one may be missed.
Redate(v, missed) ==
  /\ setting = None
  /\ tree' = [tree EXCEPT
       !.heading = [d \in DATED |-> IF d = missed THEN @[d] ELSE v],
       !.date    = [d \in DATED |-> IF d = missed \/ @[d] = None THEN @[d] ELSE "release day"]]
  /\ UNCHANGED <<setting, mishaps>>

Spoil(t) == setting = None /\ Mishap /\ tree' = t /\ UNCHANGED setting

\* A reformatted manifest, a second match, a stale or malformed version; a
\* heading for another version; a version where the registry reads the tag.
SpoilSite(s, matches) == Spoil([tree EXCEPT !.sites[s] = matches])
SpoilHeading(d, v)    == Spoil([tree EXCEPT !.heading[d] = v])
AddVersionKey(u)      == Spoil([tree EXCEPT !.stray = @ \cup {u}])

\* git checkout: everything as at the last release.
Restore ==
  /\ setting = None
  /\ tree' = CleanTree
  /\ UNCHANGED <<setting, mishaps>>

SitesInit ==
  /\ tree = CleanTree
  /\ setting = None
  /\ mishaps = 0

SitesNext ==
  \/ \E v \in Versions : BeginSet(v)
  \/ SetSite \/ SetThrows \/ SetEnds \/ SetDies
  \/ \E v \in Versions \ {OldVersion}, missed \in DATED \cup {None} : Redate(v, missed)
  \/ \E s \in Sites, matches \in {<<>>, <<NotSemver>>, <<OldVersion>>, <<OldVersion, OldVersion>>} :
       SpoilSite(s, matches)
  \/ \E d \in DATED : SpoilHeading(d, NotSemver)
  \/ \E u \in UNVERSIONED : AddVersionKey(u)
  \/ Restore

-----------------------------------------------------------------------------
\* No silent partial write: a `set` that does not throw has written every site
\* exactly once, whatever the tree looked like when it began.
SetIsComplete ==
  setting # None /\ setting.at > Len(VERSIONED)
    => \A s \in Sites : tree.sites[s] = <<setting.to>>

=============================================================================
