---------------------------- MODULE ReleaseProofs ----------------------------
(***************************************************************************)
(* The version sites and the release pipeline: SetIsComplete, ChainPrefix, *)
(* OneCommit, ShippedAgrees and AllTenServe of ReleaseSpec, proved for any *)
(* number of versions, tags, re-runs and mishaps.                          *)
(***************************************************************************)
EXTENDS ReleasePipeline, FiniteSetTheorems, TLAPS

-----------------------------------------------------------------------------
(* The tables.                                                              *)

LEMMA SiteTable ==
  /\ Len(VERSIONED) \in Nat /\ DOMAIN VERSIONED = 1..Len(VERSIONED) /\ Len(VERSIONED) >= 1
  /\ \A i \in DOMAIN VERSIONED : Site(i) \in Sites
  /\ \A s \in Sites : \E i \in DOMAIN VERSIONED : s = Site(i)
  BY DEF VERSIONED, Sites, Site

\* A place in the chain names its registry, and npm's is the first.
LEMMA ChainTable ==
  /\ \A r \in Registries : Place(r) \in DOMAIN Chain /\ Chain[Place(r)] = r
  /\ DOMAIN Chain = 1..10
  /\ "npm" \in Registries /\ "packagist" \in Registries
  /\ \A r \in Registries : r # "npm" => Place("npm") < Place(r)
<1>1. DOMAIN Chain = 1..10
  BY DEF Chain
<1>2. \A r \in Registries : Place(r) \in DOMAIN Chain /\ Chain[Place(r)] = r
  BY DEF Registries, Place
<1>3. \A i \in DOMAIN Chain : Chain[i] = "npm" => i = 1
  BY DEF Chain
<1>4. "npm" \in Registries /\ "packagist" \in Registries /\ Chain[1] = "npm"
  BY DEF Registries, Chain
<1>5. Place("npm") = 1
  BY <1>2, <1>3, <1>4
<1>6. ASSUME NEW r \in Registries, r # "npm" PROVE 1 < Place(r)
  BY <1>1, <1>2, <1>4, <1>6
<1> QED BY <1>1, <1>2, <1>4, <1>5, <1>6

\* What the job of a registry waits for: preflight, and the job before it.
LEMMA RegistryNeeds ==
  ASSUME NEW r \in Registries
  PROVE  /\ "preflight" \in Needs(r)
         /\ \A q \in Registries : Place(q) = Place(r) - 1 => q \in Needs(r)
<1>1. Needs(r) = {"preflight"} \cup {Chain[i] : i \in {Place(r) - 1} \ {0}}
  BY DEF Needs, Registries, Chain
<1>2. ASSUME NEW q \in Registries, Place(q) = Place(r) - 1 PROVE q \in Needs(r)
  BY <1>1, <1>2, ChainTable
<1> QED BY <1>1, <1>2


-----------------------------------------------------------------------------
(* `set`.                                                                   *)

Tree == [ sites   : [Sites -> Seq(Versions \cup {NotSemver})],
          heading : [DATED -> Versions \cup {NotSemver}],
          date    : [DATED -> {"old day", "release day", None}],
          stray   : SUBSET UNVERSIONED ]

\* The sites before the one `set` has come to name the version it is setting.
SetInv ==
  /\ tree \in Tree
  /\ setting # None =>
       /\ setting \in [to : Versions, at : Nat \ {0}]
       /\ \A i \in DOMAIN VERSIONED : i < setting.at => tree.sites[Site(i)] = <<setting.to>>

LEMMA CleanType == CleanTree \in Tree
<1>1. <<OldVersion>> \in Seq(Versions \cup {NotSemver})
  BY VersionAssumption
<1> QED BY <1>1, VersionAssumption DEF CleanTree, Tree

LEMMA SetStart == SitesInit => SetInv
  BY CleanType DEF SitesInit, SetInv

LEMMA SetStep == SetInv /\ SitesNext => SetInv'
<1> SUFFICES ASSUME SetInv, SitesNext PROVE SetInv'
  OBVIOUS
<1>0. /\ tree.sites \in [Sites -> Seq(Versions \cup {NotSemver})]
      /\ tree.heading \in [DATED -> Versions \cup {NotSemver}]
      /\ tree.date \in [DATED -> {"old day", "release day", None}]
      /\ tree.stray \in SUBSET UNVERSIONED
  BY DEF SetInv, Tree
<1>1. ASSUME NEW v \in Versions, BeginSet(v) PROVE SetInv'
  BY <1>1, SiteTable DEF BeginSet, SetInv
<1>2. CASE SetSite
  <2>1. PICK n \in Nat \ {0}, v \in Versions : setting = [to |-> v, at |-> n]
    BY <1>2 DEF SetSite, SetInv
  <2>2. /\ n \in DOMAIN VERSIONED /\ Site(n) \in Sites
        /\ tree' = [tree EXCEPT !.sites[Site(n)] = <<v>>]
        /\ setting' = [to |-> v, at |-> n + 1]
    BY <1>2, <2>1, SiteTable DEF SetSite, WriteSite
  <2>3. tree' \in Tree /\ tree'.sites = [tree.sites EXCEPT ![Site(n)] = <<v>>]
    <3>1. <<v>> \in Seq(Versions \cup {NotSemver})
      OBVIOUS
    <3> QED BY <1>0, <2>2, <3>1 DEF SetInv, Tree
  <2>4. \A i \in DOMAIN VERSIONED : i < n + 1 => tree'.sites[Site(i)] = <<v>>
    <3>1. \A i \in DOMAIN VERSIONED : i < n => tree.sites[Site(i)] = <<v>>
      BY <1>2, <2>1 DEF SetSite, SetInv
    <3>2. \A i \in DOMAIN VERSIONED : i < n + 1 => i < n \/ i = n
      BY SiteTable
    <3> QED BY <1>0, <2>2, <2>3, <3>1, <3>2, SiteTable
  <2> QED BY <2>2, <2>3, <2>4 DEF SetInv
<1>3. CASE SetThrows \/ SetEnds
  BY <1>3 DEF SetThrows, SetEnds, SetInv
<1>4. CASE SetDies
  <2>1. PICK file : \/ UNCHANGED tree
                    \/ tree' = [tree EXCEPT
                         !.sites = [s \in Sites |-> IF s \in SitesIn(file) THEN <<>> ELSE @[s]],
                         !.date  = [d \in DATED |-> IF d = file THEN None ELSE @[d]]]
    BY <1>4 DEF SetDies
  <2>2. <<>> \in Seq(Versions \cup {NotSemver})
    OBVIOUS
  <2>3. tree' \in Tree
    <3>1. CASE UNCHANGED tree
      BY <3>1 DEF SetInv
    <3>2. CASE tree' = [tree EXCEPT
                 !.sites = [s \in Sites |-> IF s \in SitesIn(file) THEN <<>> ELSE @[s]],
                 !.date  = [d \in DATED |-> IF d = file THEN None ELSE @[d]]]
      <4>1. /\ [s \in Sites |-> IF s \in SitesIn(file) THEN <<>> ELSE tree.sites[s]]
                 \in [Sites -> Seq(Versions \cup {NotSemver})]
            /\ [d \in DATED |-> IF d = file THEN None ELSE tree.date[d]]
                 \in [DATED -> {"old day", "release day", None}]
        BY <1>0, <2>2
      <4> QED BY <1>0, <3>2, <4>1 DEF SetInv, Tree
    <3> QED BY <2>1, <3>1, <3>2
  <2> QED BY <1>4, <2>3 DEF SetDies, SetInv
<1>5. ASSUME NEW v \in Versions, NEW missed, Redate(v, missed) PROVE SetInv'
  <2>1. tree' \in Tree
    BY <1>0, <1>5 DEF Redate, SetInv, Tree
  <2> QED BY <1>5, <2>1 DEF Redate, SetInv
<1>6. ASSUME NEW t \in Tree, Spoil(t) PROVE SetInv'
  BY <1>6 DEF Spoil, SetInv
<1>7. ASSUME NEW s \in Sites, NEW m \in Seq(Versions \cup {NotSemver}), SpoilSite(s, m) PROVE SetInv'
  <2>1. [tree EXCEPT !.sites[s] = m] \in Tree
    BY <1>0 DEF SetInv, Tree
  <2> QED BY <1>6, <1>7, <2>1 DEF SpoilSite
<1>8. ASSUME NEW d \in DATED, SpoilHeading(d, NotSemver) PROVE SetInv'
  <2>1. [tree EXCEPT !.heading[d] = NotSemver] \in Tree
    BY <1>0 DEF SetInv, Tree
  <2> QED BY <1>6, <1>8, <2>1 DEF SpoilHeading
<1>9. ASSUME NEW u \in UNVERSIONED, AddVersionKey(u) PROVE SetInv'
  <2>1. [tree EXCEPT !.stray = @ \cup {u}] \in Tree
    BY <1>0 DEF SetInv, Tree
  <2> QED BY <1>6, <1>9, <2>1 DEF AddVersionKey
<1>10. CASE Restore
  BY <1>10, CleanType DEF Restore, SetInv
<1>11. {<<>>, <<NotSemver>>, <<OldVersion>>, <<OldVersion, OldVersion>>}
         \subseteq Seq(Versions \cup {NotSemver})
  BY VersionAssumption
<1> QED BY <1>1, <1>2, <1>3, <1>4, <1>5, <1>7, <1>8, <1>9, <1>10, <1>11 DEF SitesNext


-----------------------------------------------------------------------------
(* The pipeline.                                                            *)

\* The trees preflight lets through.
Approved == {t \in Tree : Check(t, Release)}

RunType ==
  /\ tags \in 0..MaxTags
  /\ tagged # None => tagged \in [commit : 1..MaxTags, tree : Tree]
  /\ jobs \in [Jobs -> {"pending", "success", "failure"}]
  /\ registry \in [Registries -> (1..MaxTags) \cup {None}]
  /\ built \in [1..MaxTags -> Tree \cup {None}]

\* Jobs have ended well in the order of the chain, and what a job claims is so.
JobsOK ==
  /\ tagged = None => \A j \in Jobs : jobs[j] = "pending"
  /\ jobs["preflight"] = "success" => tagged.tree \in Approved
  /\ \A q, r \in Registries : jobs[r] = "success" /\ Place(q) < Place(r) => jobs[q] = "success"
  /\ \A r \in Registries : jobs[r] = "success" => registry[r] # None
  /\ \A r \in {"npm", "packagist"} : jobs[r] = "success" => registry[r] = tagged.commit

ReportOK == report = "ALL" => \A j \in Jobs : jobs[j] = "success"

ShippedOK == \A r \in Uploaded : built[registry[r]] \in Approved

ReleaseInv ==
  SetInv /\ RunType /\ JobsOK /\ ReportOK /\ ChainPrefix /\ OneCommit /\ ShippedOK

LEMMA ReleaseStart == ReleaseInit => ReleaseInv
<1> SUFFICES ASSUME ReleaseInit PROVE ReleaseInv
  OBVIOUS
<1>1. SetInv
  BY SetStart DEF ReleaseInit
<1>2. RunType
  BY ReleaseAssumption DEF ReleaseInit, RunType
<1>3. Uploaded = {}
  BY DEF ReleaseInit, Uploaded
<1>4. JobsOK
  BY ChainTable DEF ReleaseInit, JobsOK, Jobs
<1>5. ReportOK
  BY ReleaseAssumption DEF ReleaseInit, ReportOK
<1> QED BY <1>1, <1>2, <1>3, <1>4, <1>5 DEF ReleaseInv, ChainPrefix, OneCommit, ShippedOK

\* A job that is no registry's ends.
LEMMA GateEnds ==
  ASSUME ReleaseInv, NEW j \in Jobs \ Registries, NEW result \in {"success", "failure"},
         jobs[j] = "pending", tagged # None, Ends(j, result), UNCHANGED <<registry, built>>,
         j = "preflight" /\ result = "success" => tagged.tree \in Approved
  PROVE  ReleaseInv'
<1>0. SetInv /\ RunType /\ JobsOK /\ ReportOK /\ ChainPrefix /\ OneCommit /\ ShippedOK
  BY DEF ReleaseInv
<1>1. jobs' = [jobs EXCEPT ![j] = result]
      /\ UNCHANGED <<siteVars, tagged, tags, report, reruns, registry, built>>
  BY DEF Ends
<1>2. SetInv' /\ ChainPrefix' /\ OneCommit' /\ ShippedOK'
  BY <1>0, <1>1 DEF SetInv, ChainPrefix, OneCommit, ShippedOK, Uploaded, siteVars
<1>3. RunType'
  BY <1>0, <1>1 DEF RunType
<1>4. JobsOK'
  <2>1. \A r \in Registries : jobs'[r] = jobs[r] /\ r \in Jobs
    BY <1>0, <1>1 DEF RunType, Jobs
  <2>2. jobs'["preflight"] = "success" => tagged.tree \in Approved
    BY <1>0, <1>1 DEF RunType, JobsOK, Jobs
  <2> QED BY <1>0, <1>1, <2>1, <2>2, ChainTable DEF JobsOK
<1>5. ReportOK'
  BY <1>0, <1>1 DEF ReportOK
<1> QED BY <1>2, <1>3, <1>4, <1>5 DEF ReleaseInv


\* The job of a registry ends.  `commit` is what the registry serves then.
LEMMA PublishEnds ==
  ASSUME ReleaseInv, NEW r \in Registries, NEW result \in {"success", "failure"},
         Runnable(r), Ends(r, result),
         NEW commit \in (1..MaxTags) \cup {None},
         registry' = [registry EXCEPT ![r] = commit],
         registry[r] # None => commit # None,
         result = "success" => commit # None,
         \/ commit = registry[r] /\ UNCHANGED built
         \/ r = "packagist" /\ commit = tagged.commit /\ built' = built
         \/ /\ registry[r] = None /\ commit = tagged.commit
            /\ built' = [built EXCEPT ![tagged.commit] = tagged.tree],
         result = "success" /\ r \in {"npm", "packagist"} => commit = tagged.commit
  PROVE  ReleaseInv'
<1>0. SetInv /\ RunType /\ JobsOK /\ ReportOK /\ ChainPrefix /\ OneCommit /\ ShippedOK
  BY DEF ReleaseInv
<1>1. /\ jobs' = [jobs EXCEPT ![r] = result]
      /\ UNCHANGED <<siteVars, tagged, tags, report, reruns>>
      /\ tagged # None /\ jobs[r] = "pending" /\ r \in Jobs
      /\ \A n \in Needs(r) : jobs[n] = "success"
  BY DEF Ends, Runnable, Jobs
<1>2. tagged.commit \in 1..MaxTags /\ tagged.commit # None /\ tagged.tree \in Approved
  <2>1. jobs["preflight"] = "success"
    BY <1>1, RegistryNeeds
  <2> QED BY <1>0, <1>1, <2>1, ReleaseAssumption DEF RunType, JobsOK
<1>3. \A q \in Registries : /\ q # r => registry'[q] = registry[q] /\ jobs'[q] = jobs[q]
                            /\ q \in Jobs
  BY <1>0, <1>1 DEF RunType, Jobs
<1>4. registry'[r] = commit /\ jobs'[r] = result
  BY <1>0, <1>1 DEF RunType
<1>5. \A q \in Registries : Place(q) < Place(r) => jobs[q] = "success" /\ q # r
  <2>1. SUFFICES ASSUME NEW q \in Registries, Place(q) < Place(r) PROVE jobs[q] = "success"
    BY ChainTable
  <2>2. Place(q) \in 1..10 /\ Place(r) \in 1..10
    BY ChainTable
  <2>3. PICK p \in Registries : Place(p) = Place(r) - 1
    <3>1. Place(r) - 1 \in DOMAIN Chain
      BY <2>1, <2>2, ChainTable
    <3>2. \A i \in DOMAIN Chain : \E p \in Registries : Place(p) = i
      <4>1. \A i, k \in DOMAIN Chain : Chain[i] = Chain[k] => i = k
        BY DEF Chain
      <4>2. \A i \in DOMAIN Chain : Chain[i] \in Registries
        BY DEF Registries
      <4> QED BY <4>1, <4>2, ChainTable
    <3> QED BY <3>1, <3>2
  <2>4. jobs[p] = "success"
    BY <1>1, <2>3, RegistryNeeds
  <2>5. CASE q = p
    BY <2>4, <2>5
  <2>6. CASE q # p
    <3>1. Place(q) # Place(p)
      BY <2>6, ChainTable
    <3>2. Place(q) < Place(p)
      BY <2>1, <2>2, <2>3, <3>1
    <3> QED BY <1>0, <2>4, <3>2 DEF JobsOK
  <2> QED BY <2>5, <2>6
<1>6. RunType'
  BY <1>0, <1>1, <1>2 DEF RunType, Approved
<1>7. JobsOK'
  <2>1. jobs'["preflight"] = "success" => tagged'.tree \in Approved
    BY <1>1, <1>2
  <2>2. \A p, q \in Registries : jobs'[q] = "success" /\ Place(p) < Place(q) => jobs'[p] = "success"
    <3>1. SUFFICES ASSUME NEW p \in Registries, NEW q \in Registries,
                          jobs'[q] = "success", Place(p) < Place(q)
                   PROVE  jobs'[p] = "success"
      OBVIOUS
    <3>2. CASE q = r
      BY <1>3, <1>5, <3>1, <3>2
    <3>3. CASE q # r
      <4>1. jobs[p] = "success"
        BY <1>0, <1>3, <3>1, <3>3 DEF JobsOK
      <4> QED BY <1>1, <1>3, <4>1
    <3> QED BY <3>2, <3>3
  <2>3. \A q \in Registries : jobs'[q] = "success" => registry'[q] # None
    BY <1>0, <1>3, <1>4 DEF JobsOK
  <2>4. \A q \in {"npm", "packagist"} : jobs'[q] = "success" => registry'[q] = tagged.commit
    BY <1>0, <1>3, <1>4, ChainTable DEF JobsOK
  <2> QED BY <1>1, <2>1, <2>2, <2>3, <2>4 DEF JobsOK
<1>8. ReportOK'
  BY <1>0, <1>1 DEF ReportOK
<1>9. ChainPrefix'
  <2>1. SUFFICES ASSUME NEW p \in Registries, NEW q \in Registries \ {"packagist"},
                        registry'[q] # None, Place(p) < Place(q)
                 PROVE  registry'[p] # None
    BY DEF ChainPrefix, Uploaded
  <2>2. CASE q = r
    <3>1. jobs[p] = "success" /\ p # r
      BY <1>5, <2>1, <2>2
    <3> QED BY <1>0, <1>3, <3>1 DEF JobsOK
  <2>3. CASE q # r
    <3>1. registry[p] # None
      BY <1>0, <1>3, <2>1, <2>3 DEF ChainPrefix, Uploaded
    <3> QED BY <1>3, <1>4, <3>1
  <2> QED BY <2>2, <2>3
<1>10. ASSUME registry[r] = None, commit = tagged.commit, r # "packagist"
       PROVE  \A q \in Uploaded : registry[q] = tagged.commit
  <2>1. CASE r = "npm"
    <3>1. ASSUME NEW q \in Uploaded PROVE FALSE
      <4>1. q \in Registries /\ q # r /\ registry[q] # None
        BY <1>10, <3>1 DEF Uploaded
      <4>2. Place(r) < Place(q)
        BY <2>1, <4>1, ChainTable
      <4> QED BY <1>0, <1>10, <3>1, <4>2 DEF ChainPrefix
    <3> QED BY <3>1
  <2>2. CASE r # "npm"
    <3>1. jobs["npm"] = "success"
      BY <1>5, <2>2, ChainTable
    <3>2. registry["npm"] = tagged.commit /\ "npm" \in Uploaded
      BY <1>0, <1>2, <3>1, ChainTable DEF JobsOK, Uploaded
    <3> QED BY <1>0, <3>2 DEF OneCommit
  <2> QED BY <2>1, <2>2
<1>11. \/ \A q \in Registries \ {"packagist"} : registry'[q] = registry[q]
       \/ /\ registry[r] = None /\ commit = tagged.commit /\ r # "packagist"
          /\ built' = [built EXCEPT ![tagged.commit] = tagged.tree]
       \/ /\ r = "packagist" /\ built' = [built EXCEPT ![tagged.commit] = tagged.tree]
  BY <1>3, <1>4
<1>12. OneCommit'
  BY <1>0, <1>3, <1>4, <1>10, <1>11 DEF OneCommit, Uploaded
<1>13. ShippedOK'
  <2>1. SUFFICES ASSUME NEW q \in Registries \ {"packagist"}, registry'[q] # None
                 PROVE  built'[registry'[q]] \in Approved
    BY DEF ShippedOK, Uploaded
  <2>2. registry'[q] \in 1..MaxTags
    BY <1>6, <2>1 DEF RunType
  <2>3. CASE registry'[q] = tagged.commit /\ built' = [built EXCEPT ![tagged.commit] = tagged.tree]
    BY <1>0, <1>2, <2>3 DEF RunType
  <2>4. CASE ~ (registry'[q] = tagged.commit /\ built' = [built EXCEPT ![tagged.commit] = tagged.tree])
    <3>1. registry'[q] = registry[q]
      BY <1>3, <1>4, <2>1, <2>4
    <3>2. built[registry[q]] \in Approved
      BY <1>0, <2>1, <3>1 DEF ShippedOK, Uploaded
    <3>3. built'[registry[q]] = built[registry[q]]
      BY <1>0, <1>2, <2>2, <2>4, <3>1 DEF RunType
    <3> QED BY <3>1, <3>2, <3>3
  <2> QED BY <2>3, <2>4
<1>14. SetInv'
  BY <1>0, <1>1 DEF SetInv, siteVars
<1> QED BY <1>6, <1>7, <1>8, <1>9, <1>12, <1>13, <1>14 DEF ReleaseInv


LEMMA PublishStep ==
  ASSUME ReleaseInv, NEW r \in Registries, Publish(r)
  PROVE  ReleaseInv'
<1>0. RunType /\ Runnable(r) /\ tagged # None
  BY DEF ReleaseInv, Publish, Runnable
<1>1. /\ registry[r] \in (1..MaxTags) \cup {None}
      /\ registry = [registry EXCEPT ![r] = registry[r]]
      /\ tagged.commit \in 1..MaxTags /\ tagged.commit # None
  BY <1>0, ReleaseAssumption DEF RunType
<1>2. CASE Ends(r, "failure") /\ UNCHANGED <<registry, built>>
  BY <1>0, <1>1, <1>2, PublishEnds
<1>3. CASE /\ registry[r] = None /\ Serve(r)
           /\ built' = [built EXCEPT ![tagged.commit] = tagged.tree]
           /\ \E result \in {"success", "failure"} : Ends(r, result)
  BY <1>0, <1>1, <1>3, PublishEnds DEF Serve
<1>4. CASE /\ registry[r] # None /\ r # "packagist" /\ SkipsDuplicate(r)
           /\ Ends(r, "success") /\ UNCHANGED <<registry, built>>
  <2>1. r # "npm"
    BY <1>4 DEF SkipsDuplicate
  <2> QED BY <1>0, <1>1, <1>4, <2>1, PublishEnds
<1>5. CASE /\ registry[r] # None /\ r = "packagist" /\ Serve(r) /\ UNCHANGED built
           /\ \E result \in {"success", "failure"} : Ends(r, result)
  BY <1>0, <1>1, <1>5, PublishEnds DEF Serve
<1> QED BY <1>2, <1>3, <1>4, <1>5 DEF Publish

LEMMA ReleaseStep == ReleaseInv /\ [ReleaseNext]_releaseVars => ReleaseInv'
<1> SUFFICES ASSUME ReleaseInv, [ReleaseNext]_releaseVars PROVE ReleaseInv'
  OBVIOUS
<1>0. SetInv /\ RunType /\ JobsOK /\ ReportOK /\ ChainPrefix /\ OneCommit /\ ShippedOK
  BY DEF ReleaseInv
<1>1. ASSUME UNCHANGED <<tagged, jobs, registry, built, report>>, SetInv', tags' \in 0..MaxTags
      PROVE  ReleaseInv'
  BY <1>0, <1>1 DEF ReleaseInv, RunType, JobsOK, ReportOK, ChainPrefix, OneCommit, ShippedOK, Uploaded
<1>2. CASE UNCHANGED releaseVars
  BY <1>0, <1>1, <1>2 DEF releaseVars, siteVars, runVars, SetInv, RunType
<1>3. CASE EditTree
  BY <1>0, <1>1, <1>3, SetStep DEF EditTree, runVars, RunType
<1>4. CASE PushTag
  <2>1. /\ \A j \in Jobs : jobs[j] = "pending"
        /\ tags' = tags + 1 /\ tags < MaxTags /\ tagged' = [commit |-> tags + 1, tree |-> tree]
        /\ UNCHANGED <<siteVars, registry, built, runVars>>
    BY <1>0, <1>4 DEF PushTag, JobsOK
  <2>2. RunType'
    BY <1>0, <2>1, ReleaseAssumption DEF RunType, SetInv, runVars
  <2>3. JobsOK' /\ ReportOK'
    BY <1>0, <2>1, ChainTable DEF JobsOK, ReportOK, Jobs, runVars
  <2>4. SetInv' /\ ChainPrefix' /\ OneCommit' /\ ShippedOK'
    BY <1>0, <2>1 DEF SetInv, ChainPrefix, OneCommit, ShippedOK, Uploaded, siteVars
  <2> QED BY <2>2, <2>3, <2>4 DEF ReleaseInv
<1>5. "ci" \notin Registries /\ "preflight" \notin Registries
      /\ {"sbom", "skills", "github-release"} \cap Registries = {}
  BY DEF Registries, Chain
<1>6. CASE RunCi
  BY <1>5, <1>6, GateEnds DEF RunCi, Runnable, Jobs
<1>7. CASE RunPreflight
  <2>1. tagged # None /\ tagged.tree \in Tree
    BY <1>0, <1>7 DEF RunPreflight, Runnable, RunType
  <2> QED BY <1>5, <1>7, <2>1, GateEnds DEF RunPreflight, Runnable, Jobs, Approved
<1>8. ASSUME NEW j \in Jobs, RunSideJob(j) PROVE ReleaseInv'
  BY <1>5, <1>8, GateEnds DEF RunSideJob, Runnable, Jobs
<1>13. CASE GithubRelease
  BY <1>5, <1>13, GateEnds DEF GithubRelease, Runnable, Jobs
<1>9. CASE PackagistHook
  <2>1. /\ tagged # None /\ registry' = [registry EXCEPT !["packagist"] = tagged.commit]
        /\ UNCHANGED <<siteVars, tagged, tags, built, runVars>>
        /\ tagged.commit \in 1..MaxTags /\ tagged.commit # None
    BY <1>0, <1>9, ReleaseAssumption DEF PackagistHook, Serve, RunType
  <2>2. /\ \A q \in Registries \ {"packagist"} : registry'[q] = registry[q]
        /\ registry'["packagist"] = tagged.commit
    BY <1>0, <2>1, ChainTable DEF RunType
  <2>3. RunType' /\ SetInv' /\ ReportOK'
    BY <1>0, <2>1 DEF RunType, SetInv, ReportOK, siteVars, runVars
  <2>4. JobsOK'
    BY <1>0, <2>1, <2>2, ChainTable DEF JobsOK, runVars
  <2>5. ChainPrefix' /\ OneCommit' /\ ShippedOK'
    BY <1>0, <2>1, <2>2 DEF ChainPrefix, OneCommit, ShippedOK, Uploaded
  <2> QED BY <2>3, <2>4, <2>5 DEF ReleaseInv
<1>10. CASE Released
  <2>1. report' = "ALL" => \A j \in Jobs : jobs[j] = "success"
    BY <1>10 DEF Released, Incomplete
  <2>2. UNCHANGED <<siteVars, tagged, tags, registry, built, jobs>>
    BY <1>10 DEF Released
  <2> QED BY <1>0, <2>1, <2>2
          DEF ReleaseInv, SetInv, RunType, JobsOK, ReportOK, ChainPrefix, OneCommit, ShippedOK, Uploaded, siteVars
<1>11. CASE Rerun
  <2>1. /\ jobs' = [j \in Jobs |-> IF jobs[j] = "success" THEN "success" ELSE "pending"]
        /\ report' = None /\ tagged # None
        /\ UNCHANGED <<siteVars, tagged, tags, registry, built>>
    BY <1>11 DEF Rerun
  <2>2. \A j \in Jobs : jobs'[j] = "success" <=> jobs[j] = "success"
    BY <2>1
  <2>3. JobsOK'
    BY <1>0, <2>1, <2>2, ChainTable DEF JobsOK, Jobs
  <2>4. RunType' /\ SetInv' /\ ReportOK'
    BY <1>0, <2>1, ReleaseAssumption DEF RunType, SetInv, ReportOK, siteVars
  <2>5. ChainPrefix' /\ OneCommit' /\ ShippedOK'
    BY <1>0, <2>1 DEF ChainPrefix, OneCommit, ShippedOK, Uploaded
  <2> QED BY <2>3, <2>4, <2>5 DEF ReleaseInv
<1>12. CASE DeleteTag
  <2>1. /\ jobs' = [j \in Jobs |-> "pending"] /\ report' = None /\ tagged' = None
        /\ UNCHANGED <<siteVars, tags, registry, built>>
    BY <1>12 DEF DeleteTag
  <2>2. JobsOK'
    BY <2>1, ChainTable DEF JobsOK, Jobs
  <2>3. RunType' /\ SetInv' /\ ReportOK'
    BY <1>0, <2>1, ReleaseAssumption DEF RunType, SetInv, ReportOK, siteVars
  <2>4. ChainPrefix' /\ OneCommit' /\ ShippedOK'
    BY <1>0, <2>1 DEF ChainPrefix, OneCommit, ShippedOK, Uploaded
  <2> QED BY <2>2, <2>3, <2>4 DEF ReleaseInv
<1> QED BY <1>2, <1>3, <1>4, <1>6, <1>7, <1>8, <1>9, <1>10, <1>11, <1>12, <1>13, PublishStep DEF ReleaseNext

-----------------------------------------------------------------------------
(* What `version.mjs check vX.Y.Z` has established.                         *)


\* The values of a function over a finite set are finitely many.
LEMMA FiniteImage ==
  ASSUME NEW S, IsFiniteSet(S), NEW T, NEW g \in [S -> T]
  PROVE  IsFiniteSet({g[x] : x \in S})
<1>1. g \in Surjection(S, {g[x] : x \in S})
  BY DEF Surjection
<1> QED BY <1>1, FS_Surjection

LEMMA AtMostOne ==
  ASSUME NEW S, IsFiniteSet(S), Cardinality(S) <= 1, NEW x \in S
  PROVE  S = {x} /\ Cardinality(S) = 1
<1>1. Cardinality(S) \in Nat /\ Cardinality(S) # 0
  BY FS_CardinalityType, FS_EmptySet
<1>2. Cardinality(S) = 1
  BY <1>1
<1> QED BY <1>2, FS_Singleton

LEMMA TablesFinite == IsFiniteSet(Sites) /\ IsFiniteSet(DATED)
<1>1. IsFiniteSet(Sites)
  <2> DEFINE g == [i \in 1..Len(VERSIONED) |-> Site(i)]
  <2>1. IsFiniteSet(1..Len(VERSIONED))
    BY SiteTable, FS_Interval
  <2>2. g \in [1..Len(VERSIONED) -> Sites]
    BY SiteTable
  <2>3. IsFiniteSet({g[i] : i \in 1..Len(VERSIONED)})
    <3> HIDE DEF g
    <3> QED BY <2>1, <2>2, FiniteImage
  <2>4. Sites = {g[i] : i \in 1..Len(VERSIONED)}
    BY SiteTable
  <2> QED BY <2>3, <2>4
<1>2. \A a, b, c : IsFiniteSet({a, b, c})
  <2>1. SUFFICES ASSUME NEW a, NEW b, NEW c PROVE IsFiniteSet({a, b, c})
    OBVIOUS
  <2>2. IsFiniteSet({a} \cup {b})
    BY FS_Singleton, FS_AddElement
  <2>3. IsFiniteSet(({a} \cup {b}) \cup {c})
    BY <2>2, FS_AddElement
  <2>4. {a, b, c} = ({a} \cup {b}) \cup {c}
    OBVIOUS
  <2> QED BY <2>3, <2>4
<1>3. IsFiniteSet(DATED)
  <2> DEFINE A == {"CHANGELOG.md", "typescript/CHANGELOG.md", "python/CHANGELOG.md"}
             B == {"rust/CHANGELOG.md", "dart/CHANGELOG.md", "ruby/CHANGELOG.md"}
             C == {"elixir/CHANGELOG.md", "CITATION.cff", "pom.xml"}
  <2>1. IsFiniteSet(A) /\ IsFiniteSet(B) /\ IsFiniteSet(C)
    BY <1>2, Zenon
  <2>2. DATED = (A \cup B) \cup C
    BY DEF DATED
  <2>3. IsFiniteSet((A \cup B) \cup C)
    <3> HIDE DEF A, B, C
    <3>1. IsFiniteSet(A \cup B)
      BY <2>1, FS_Union
    <3> QED BY <2>1, <3>1, FS_Union
  <2> QED BY <2>2, <2>3
<1> QED BY <1>1, <1>3

\* One match everywhere, one version, one date.
LEMMA ApprovedAgrees ==
  ASSUME NEW t \in Approved
  PROVE  /\ \A s \in Sites : t.sites[s] = <<Release>>
         /\ \A d \in DATED : DatedVersion(t, d) = Release
         /\ Cardinality({t.date[d] : d \in DATED}) = 1
         /\ t.stray = {}
<1>0. t \in Tree /\ Check(t, Release) /\ Release # None
  BY ReleaseAssumption DEF Approved
<1>1. PICK distinct, manifest :
        /\ distinct = Distinct(t)
        /\ manifest = IF Cardinality(distinct) = 1 THEN CHOOSE v \in distinct : TRUE ELSE None
        /\ \A s \in Sites : Readable(t, s) /\ t.sites[s][1] \in Versions
        /\ Cardinality(distinct) <= 1
        /\ t.stray = {}
        /\ DatesAgree(t, manifest)
        /\ manifest # None => manifest = Release
  BY <1>0 DEF Check
<1> DEFINE g == [s \in Sites |-> t.sites[s][1]]
<1>2. g \in [Sites -> Versions] /\ distinct = {g[s] : s \in Sites}
  BY <1>1 DEF Distinct
<1>3. IsFiniteSet(distinct)
  <2> HIDE DEF g
  <2> QED BY <1>2, TablesFinite, FiniteImage
<1>4. \A s \in Sites : g[s] = manifest /\ manifest \in Versions
  <2>1. SUFFICES ASSUME NEW s \in Sites PROVE g[s] = manifest /\ manifest \in Versions
    OBVIOUS
  <2>2. distinct = {g[s]} /\ Cardinality(distinct) = 1 /\ g[s] \in Versions
    <3> HIDE DEF g
    <3>1. g[s] \in distinct /\ g[s] \in Versions
      BY <1>2
    <3> QED BY <1>1, <1>3, <3>1, AtMostOne
  <2>3. manifest \in distinct
    BY <1>1, <2>2
  <2> QED BY <2>2, <2>3
<1>5. manifest = Release
  <2>1. PICK s \in Sites : TRUE
    BY SiteTable
  <2> QED BY <1>1, <1>4, <2>1, ReleaseAssumption
<1>6. \A s \in Sites : t.sites[s] = <<Release>>
  <2>1. SUFFICES ASSUME NEW s \in Sites PROVE t.sites[s] = <<Release>>
    OBVIOUS
  <2>2. t.sites[s] \in Seq(Versions \cup {NotSemver}) /\ Len(t.sites[s]) = 1
    BY <1>0, <1>1 DEF Tree, Readable
  <2>3. t.sites[s][1] = Release
    BY <1>4, <1>5
  <2> QED BY <2>2, <2>3
<1>7. \A d \in DATED : DatedVersion(t, d) = Release
  BY <1>0, <1>1, <1>5 DEF DatesAgree
<1>8. Cardinality({t.date[d] : d \in DATED}) = 1
  <2>1. t.date \in [DATED -> {"old day", "release day", None}]
    BY <1>0 DEF Tree
  <2>2. IsFiniteSet({t.date[d] : d \in DATED})
    BY <2>1, TablesFinite, FiniteImage
  <2>3. t.date["pom.xml"] \in {t.date[d] : d \in DATED}
    BY DEF DATED
  <2>4. Cardinality({t.date[d] : d \in DATED}) <= 1
    BY <1>1 DEF DatesAgree
  <2> QED BY <2>2, <2>3, <2>4, AtMostOne
<1> QED BY <1>1, <1>6, <1>7, <1>8

-----------------------------------------------------------------------------
(* The theorems.                                                            *)

\* The inductive invariant of version.mjs `set` and release.yml holds in every
\* state: `set` has written the sites it has passed, jobs succeed in the order
\* of the chain, and every upload was built from a tree preflight let through.
THEOREM ReleaseCorrect == ReleaseSpec => []ReleaseInv
  BY ReleaseStart, ReleaseStep, PTL DEF ReleaseSpec

\* `version.mjs set` never leaves a site behind silently: when it has come to
\* the end of its table every site names the version, however the tree was
\* spoiled before and whatever an earlier `set` left half done.
THEOREM SetTheorem == ReleaseSpec => []SetIsComplete
<1>1. ReleaseInv => SetIsComplete
  BY SiteTable DEF ReleaseInv, SetInv, SetIsComplete
<1> QED BY <1>1, ReleaseCorrect, PTL

\* release.yml's needs: make the registries that have the version a prefix of
\* the chain, whatever failed, was uploaded without an answer or was re-run.
THEOREM ChainTheorem == ReleaseSpec => []ChainPrefix
<1>1. ReleaseInv => ChainPrefix
  BY DEF ReleaseInv
<1> QED BY <1>1, ReleaseCorrect, PTL

\* No version is uploaded from two commits, although a BLOCKED release may be
\* tagged again after an upload whose answer was lost.
THEOREM OneCommitTheorem == ReleaseSpec => []OneCommit
<1>1. ReleaseInv => OneCommit
  BY DEF ReleaseInv
<1> QED BY <1>1, ReleaseCorrect, PTL

\* Every upload carries a tree whose version sites, dated sites and tag agree:
\* what preflight's `version.mjs check` read is what was built.
THEOREM ShippedTheorem == ReleaseSpec => []ShippedAgrees
<1>1. ReleaseInv => ShippedAgrees
  BY ApprovedAgrees DEF ReleaseInv, ShippedOK, ShippedAgrees
<1> QED BY <1>1, ReleaseCorrect, PTL

\* The `released` job reports all ten registries only when all ten serve the
\* version from the tagged commit.
THEOREM AllTenTheorem == ReleaseSpec => []AllTenServe
<1>1. ASSUME ReleaseInv, report = "ALL", NEW r \in Registries PROVE registry[r] = tagged.commit
  <2>1. \A q \in Registries : jobs[q] = "success"
    BY <1>1 DEF ReleaseInv, ReportOK, Jobs
  <2>2. /\ registry["npm"] = tagged.commit /\ registry["packagist"] = tagged.commit
        /\ \A q \in Registries : registry[q] # None
    BY <1>1, <2>1, ChainTable DEF ReleaseInv, JobsOK
  <2>3. r = "packagist" \/ {r, "npm"} \subseteq Uploaded
    BY <2>2, ChainTable DEF Uploaded
  <2> QED BY <1>1, <2>2, <2>3 DEF ReleaseInv, OneCommit
<1>2. ReleaseInv => AllTenServe
  BY <1>1 DEF AllTenServe
<1> QED BY <1>2, ReleaseCorrect, PTL

=============================================================================
