--------------------------- MODULE ReleasePipeline ---------------------------
(***************************************************************************)
(* .github/workflows/release.yml: a tag is pushed, CI and preflight judge  *)
(* the tagged tree, ten publish jobs run one after the other, and the last *)
(* job reports what happened.  Any job may fail, also after its upload was *)
(* accepted (a lost answer, a timeout, a later step); failed jobs may be   *)
(* re-run; and a release reported BLOCKED may be tagged again.             *)
(***************************************************************************)
EXTENDS VersionSites

CONSTANTS
  Release,      \* the version the tag names
  MaxTags, MaxReruns

ASSUME ReleaseAssumption ==
  /\ Release \in Versions \ {OldVersion}
  /\ MaxTags \in Nat /\ MaxReruns \in Nat
  /\ None \notin Versions \cup Nat \cup {"ALL"}

VARIABLES
  tagged,    \* the commit the tag points at: its number and its tree, or None
  tags,      \* how often the tag was pushed
  jobs,      \* the result of each job of the run
  registry,  \* per registry: the commit it serves this version from, or None
  built,     \* history: the tree that artefacts of a commit were built from
  report,    \* what the `released` job printed
  reruns

runVars     == <<jobs, report, reruns>>
releaseVars == <<siteVars, tagged, tags, registry, built, runVars>>

Chain == <<"npm", "pypi", "crates", "maven", "nuget", "rubygems", "hex", "pub",
           "packagist", "go">>

Registries == {Chain[i] : i \in DOMAIN Chain}
Place(r)   == CHOOSE i \in DOMAIN Chain : Chain[i] = r

Jobs == {"ci", "preflight", "sbom", "skills", "github-release"} \cup Registries

\* Fault: a fan-out, every publish job waiting for preflight only.
NeedsPreflight(j) ==
  CASE j = "ci"             -> {}
    [] j = "preflight"      -> {"ci"}
    [] j = "github-release" -> {"preflight", "sbom", "skills", "go"}
    [] OTHER                -> {"preflight"}

Needs(j) ==
  CASE j = "ci"                  -> {}
    [] j = "preflight"           -> {"ci"}
    [] j \in {"sbom", "skills"}  -> {"preflight"}
    [] j = "github-release"      -> {"preflight", "sbom", "skills", "go"}
    [] j \in Registries          -> {"preflight"} \cup {Chain[i] : i \in {Place(j) - 1} \ {0}}

Runnable(j) ==
  /\ tagged # None
  /\ jobs[j] = "pending"
  /\ \A n \in Needs(j) : jobs[n] = "success"

Ends(j, result) ==
  /\ jobs' = [jobs EXCEPT ![j] = result]
  /\ UNCHANGED <<siteVars, tagged, tags, report, reruns>>

\* Fault: every push with --skip-duplicate.
AcceptsDuplicates(r) == TRUE

\* What a registry answers to a version it has: NuGet is pushed to with
\* --skip-duplicate, the others refuse; the go job looks for its tag itself.
SkipsDuplicate(r) == r = "nuget"

-----------------------------------------------------------------------------
\* Signed tag on the tree as it is committed.
PushTag ==
  /\ tagged = None
  /\ setting = None
  /\ tags < MaxTags
  /\ tags' = tags + 1
  /\ tagged' = [commit |-> tags + 1, tree |-> tree]
  /\ UNCHANGED <<siteVars, registry, built, runVars>>

\* The `gates` job runs `version.mjs check`; everything else CI runs may fail.
RunCi ==
  /\ Runnable("ci")
  /\ \/ Check(tagged.tree, None) /\ Ends("ci", "success")
     \/ Ends("ci", "failure")
  /\ UNCHANGED <<registry, built>>

RunPreflight ==
  /\ Runnable("preflight")
  /\ \/ Check(tagged.tree, Release) /\ Ends("preflight", "success")
     \/ Ends("preflight", "failure")
  /\ UNCHANGED <<registry, built>>

\* The jobs that build what is attached to the release.
RunSideJob(j) ==
  /\ j \in {"sbom", "skills"}
  /\ Runnable(j)
  /\ \E result \in {"success", "failure"} : Ends(j, result)
  /\ UNCHANGED <<registry, built>>

\* The GitHub release, after the whole chain; no registry is touched.
GithubRelease ==
  /\ Runnable("github-release")
  /\ \E result \in {"success", "failure"} : Ends("github-release", result)
  /\ UNCHANGED <<registry, built>>

Serve(r) == registry' = [registry EXCEPT ![r] = tagged.commit]

\* A publish job.
Publish(r) ==
  /\ Runnable(r)
  /\ \/ Ends(r, "failure") /\ UNCHANGED <<registry, built>>
     \/ /\ registry[r] = None
        /\ Serve(r)
        /\ built' = [built EXCEPT ![tagged.commit] = tagged.tree]
        /\ \E result \in {"success", "failure"} : Ends(r, result)
     \/ /\ registry[r] # None
        /\ r # "packagist"
        /\ SkipsDuplicate(r)
        /\ Ends(r, "success")
        /\ UNCHANGED <<registry, built>>
     \/ /\ registry[r] # None
        /\ r = "packagist"
        /\ Serve(r)
        /\ UNCHANGED built
        /\ \E result \in {"success", "failure"} : Ends(r, result)

\* Packagist also reads the tag on its own ("the webhook usually fires").
PackagistHook ==
  /\ tagged # None
  /\ Serve("packagist")
  /\ UNCHANGED <<siteVars, tagged, tags, built, runVars>>

\* Faults: the report looks at the jobs before the registries only.
IncompleteGates == {j \in {"ci", "preflight", "sbom", "skills"} : jobs[j] # "success"}

\* Jobs that did not end well; `skipped` is not success.
Incomplete == {j \in Jobs : jobs[j] # "success"}

\* The last job runs always, once nothing else can.
Released ==
  /\ tagged # None /\ report = None
  /\ \A j \in Jobs : ~ Runnable(j)
  /\ report' = IF \A r \in Registries : jobs[r] # "success" THEN "BLOCKED"
               ELSE IF Incomplete # {} THEN "PARTIAL" ELSE "ALL"
  /\ UNCHANGED <<siteVars, tagged, tags, registry, built, jobs, reruns>>

\* "Re-run failed jobs", of the run of the present tag.
Rerun ==
  /\ report \in {"BLOCKED", "PARTIAL"}
  /\ tagged # None
  /\ reruns < MaxReruns
  /\ reruns' = reruns + 1
  /\ jobs' = [j \in Jobs |-> IF jobs[j] = "success" THEN "success" ELSE "pending"]
  /\ report' = None
  /\ UNCHANGED <<siteVars, tagged, tags, registry, built>>

\* The remedy the report gives: delete the tag, fix, push it again.
DeleteTag ==
  /\ report = "BLOCKED"
  /\ tagged # None
  /\ tagged' = None
  /\ jobs' = [j \in Jobs |-> "pending"]
  /\ report' = None
  /\ reruns' = 0
  /\ UNCHANGED <<siteVars, tags, registry, built>>

\* The tree is worked on between releases.
EditTree ==
  /\ tagged = None
  /\ SitesNext
  /\ UNCHANGED <<tagged, tags, registry, built, runVars>>

ReleaseInit ==
  /\ SitesInit
  /\ tagged = None
  /\ tags = 0
  /\ jobs = [j \in Jobs |-> "pending"]
  /\ registry = [r \in Registries |-> None]
  /\ built = [c \in 1..MaxTags |-> None]
  /\ report = None
  /\ reruns = 0

ReleaseNext ==
  \/ EditTree
  \/ PushTag \/ RunCi \/ RunPreflight
  \/ \E j \in Jobs : RunSideJob(j)
  \/ \E r \in Registries : Publish(r)
  \/ GithubRelease
  \/ PackagistHook \/ Released \/ Rerun \/ DeleteTag

ReleaseSpec == ReleaseInit /\ [][ReleaseNext]_releaseVars

-----------------------------------------------------------------------------
\* The registries that take an upload, and those of them that have the version.
Uploaded == {r \in Registries \ {"packagist"} : registry[r] # None}

\* What an upload carries agrees with itself and with the tag: every version
\* site and every dated site names the release and all dates are one.  Holds
\* through interrupted `set`s, missed sites, re-runs and a second tag.
\* (Packagist reads the tag before any gate has run.)
ShippedAgrees ==
  \A r \in Uploaded :
    LET t == built[registry[r]]
    IN  /\ \A s \in Sites : t.sites[s] = <<Release>>
        /\ \A d \in DATED : DatedVersion(t, d) = Release
        /\ Cardinality({t.date[d] : d \in DATED}) = 1
        /\ t.stray = {}

\* One version, one commit: no two uploads of the version come from different
\* commits, though BLOCKED runs are tagged again and answers are lost.
OneCommit == \A q, r \in Uploaded : registry[q] = registry[r]

\* The release stops at the first failure: the registries that have the version
\* are the first of the chain.
ChainPrefix ==
  \A q \in Registries, r \in Uploaded :
    Place(q) < Place(r) => registry[q] # None

\* "published to all ten registries" is only said when all ten serve the
\* version, and from the commit the tag points at.
AllTenServe == report = "ALL" => \A r \in Registries : registry[r] = tagged.commit

\* "BLOCKED before any registry was touched. Nothing was published, so nothing
\* is immutable yet."
BlockedUntouched == report = "BLOCKED" => Uploaded = {}

=============================================================================
