----------------------------- MODULE VectorGate -----------------------------
(***************************************************************************)
(* The gate over the shared vectors: scripts/validate-vectors.mjs judges   *)
(* what a maintainer edits, scripts/build-traceability.mjs writes the      *)
(* published mapping from requirement to test, and the conformance runner  *)
(* of packages/typescript/test executes the scenarios the gate let         *)
(* through.  The steps of one scenario arrive one at a time, and the       *)
(* validator and the runner read each in turn.                             *)
(***************************************************************************)
EXTENDS Naturals, FiniteSets

CONSTANTS
  Names,       \* names a step may bind a token to
  Kids,        \* key ids
  KnownKids,   \* those with a pepper in the top-level peppers map
  MaxSteps,    \* bound: steps of a scenario
  MaxEdits,    \* bound: edits of the documents
  None

ASSUME VectorAssumption == KnownKids \subseteq Kids /\ MaxSteps \in Nat /\ MaxEdits \in Nat

VARIABLES
  docs,        \* SPECIFICATION.md, the two vector files and their schemas
  trace,       \* spec/traceability.json on disk, None when missing
  edits,       \* edits made
  validator,   \* section 7 of the validator, after the steps so far
  runner,      \* runScenario, after the steps so far
  stepCount    \* steps so far

vectorVars == <<docs, trace, edits, validator, runner, stepCount>>

-----------------------------------------------------------------------------
(* The documents.                                                           *)

\* Requirements the vectors may cite; [N-6] alone enumerates sub-rules.
Reqs            == {"N-6", "N-11", "N-99"}
subRuleCount(r) == IF r = "N-6" THEN 2 ELSE 0

\* A citation is a requirement and a sub-rule, 0 for the requirement itself.
Refs == Reqs \X (0..3)

tvSections == {"verifier_hashing", "device_hashing", "parsing"}

\* The arrays of the two files by position; an accepted parsing case cites nothing.
Docs0 ==
  [ defined   |-> {"N-6", "N-11"},
    cases     |-> << [section |-> "verifier_hashing", id |-> "vh-01", rule |-> <<"N-11", 0>>],
                     [section |-> "device_hashing", id |-> "dh-01", rule |-> <<"N-11", 0>>],
                     [section |-> "parsing", id |-> "p-01", rule |-> <<"N-6", 1>>],
                     [section |-> "parsing", id |-> "p-02", rule |-> None] >>,
    scenarios |-> << [id |-> "s-01", requirements |-> {"N-6"}, conditional |-> FALSE],
                     [id |-> "s-02", requirements |-> {"N-11"}, conditional |-> FALSE] >>,
    counts    |-> [verifier_hashing |-> 1, device_hashing |-> 1, parsing |-> 2,
                   scenarios |-> 2, unconditional |-> 2],
    versions  |-> [spec |-> 1, tv |-> 1, bv |-> 1],
    constants |-> [spec |-> [c \in {"PREFIX", "MAX_KID_LENGTH"} |-> 0],
                   tv   |-> [c \in {"PREFIX", "MAX_KID_LENGTH"} |-> 0]],
    defects   |-> {},                           \* kinds of malformed content in the data
    rejected  |-> {"misspelled op", "truncated hash", "unknown key"} ] \* by the schemas

\* Planted by the schema self-test.
MUTATIONS == Docs0.rejected

Base(ref) == ref[1]

\* The document build() derives: one row per defined or cited requirement,
\* with the ids that cite it.
RowOf(d, r, sections) ==
  [ vectors   |-> {c.id : c \in {d.cases[i] : i \in
                    {j \in DOMAIN d.cases : /\ d.cases[j].section \in sections
                                            /\ d.cases[j].rule # None
                                            /\ Base(d.cases[j].rule) = r}}},
    scenarios |-> {s.id : s \in {d.scenarios[i] : i \in
                    {j \in DOMAIN d.scenarios : r \in d.scenarios[j].requirements}}} ]

BuildFrom(d, sections) ==
  LET cited == {r \in Reqs : RowOf(d, r, sections) # [vectors |-> {}, scenarios |-> {}]}
      rows  == [r \in d.defined \cup cited |-> RowOf(d, r, sections)]
  IN  [ spec_version |-> d.versions.tv,
        counts       |-> [requirements |-> Cardinality(DOMAIN rows), executed |-> Cardinality(cited)],
        requirements |-> rows ]

\* Fault: only the parsing cases are read.
BuildParsing(d) == BuildFrom(d, {"parsing"})

Build(d) == BuildFrom(d, tvSections)

-----------------------------------------------------------------------------
(* Sections 1 to 6 and 8 of the validator.                                  *)

SchemaValid(d) == d.defects \cap d.rejected = {}

\* Fault: the schemas are believed.
SelfTestSkipped(d) == TRUE

\* Each planted defect, added to a copy of the file, must make it invalid.
SelfTest(d) == \A m \in MUTATIONS : (d.defects \cup {m}) \cap d.rejected # {}

CountsAgree(d) ==
  /\ \A s \in tvSections :
       d.counts[s] = Cardinality({i \in DOMAIN d.cases : d.cases[i].section = s})
  /\ d.counts.scenarios = Cardinality(DOMAIN d.scenarios)
  /\ d.counts.unconditional =
       Cardinality({i \in DOMAIN d.scenarios : ~ d.scenarios[i].conditional})

\* One map of the ids seen, over both files.
UniqueIds(d) ==
  /\ \A i, j \in DOMAIN d.cases : d.cases[i].id = d.cases[j].id => i = j
  /\ \A i, j \in DOMAIN d.scenarios : d.scenarios[i].id = d.scenarios[j].id => i = j
  /\ \A i \in DOMAIN d.cases, j \in DOMAIN d.scenarios : d.cases[i].id # d.scenarios[j].id

Citations(d) ==
  {d.cases[i].rule : i \in {j \in DOMAIN d.cases : d.cases[j].rule # None}}
    \cup {<<r, 0>> : r \in UNION {d.scenarios[i].requirements : i \in DOMAIN d.scenarios}}

CitationsExist(d) ==
  /\ d.defined # {}
  /\ \A ref \in Citations(d) : Base(ref) \in d.defined /\ ref[2] <= subRuleCount(Base(ref))

VersionsAgree(d) == d.versions.tv = d.versions.spec /\ d.versions.bv = d.versions.spec

\* A row for every mirrored constant, with the vectors' value, and no other row.
ConstantsAgree(d) == d.constants.spec = d.constants.tv

TraceFresh(d) == trace = Build(d)

Accepts(d) ==
  /\ SchemaValid(d) /\ SelfTest(d) /\ CountsAgree(d) /\ UniqueIds(d) /\ CitationsExist(d)
  /\ VersionsAgree(d) /\ ConstantsAgree(d) /\ TraceFresh(d)

-----------------------------------------------------------------------------
(* A maintainer's edits, each of one place.                                 *)

Edit(d) ==
  /\ edits < MaxEdits
  /\ d # docs
  /\ edits' = edits + 1
  /\ docs' = d
  /\ UNCHANGED <<trace, validator, runner, stepCount>>

CiteRule(i, ref)       == Edit([docs EXCEPT !.cases[i].rule = ref])
CopyCase(i, j)         == docs.cases[i].section = docs.cases[j].section
                          /\ Edit([docs EXCEPT !.cases[j].id = docs.cases[i].id])
ReuseId(i, j)          == Edit([docs EXCEPT !.scenarios[j].id = docs.cases[i].id])
CiteScenario(i, reqs)  == Edit([docs EXCEPT !.scenarios[i].requirements = reqs])
MakeConditional(i)     == Edit([docs EXCEPT !.scenarios[i].conditional = TRUE])
Recount(what, n)       == Edit([docs EXCEPT !.counts[what] = n])
Redefine(reqs)         == Edit([docs EXCEPT !.defined = reqs])
BumpVersion(where)     == Edit([docs EXCEPT !.versions[where] = 2])
ChangeConstant(where, c) == Edit([docs EXCEPT !.constants[where][c] = 1])
SpoilData(m)           == Edit([docs EXCEPT !.defects = @ \cup {m}])
LoosenSchema(m)        == Edit([docs EXCEPT !.rejected = @ \ {m}])

\* node scripts/build-traceability.mjs
WriteTrace ==
  /\ trace # Build(docs)
  /\ trace' = Build(docs)
  /\ UNCHANGED <<docs, edits, validator, runner, stepCount>>

DocsNext ==
  \/ \E i \in DOMAIN docs.cases, ref \in Refs \cup {None} : CiteRule(i, ref)
  \/ \E i, j \in DOMAIN docs.cases : CopyCase(i, j)
  \/ \E i \in DOMAIN docs.cases, j \in DOMAIN docs.scenarios : ReuseId(i, j)
  \/ \E i \in DOMAIN docs.scenarios, reqs \in SUBSET Reqs \ {{}} : CiteScenario(i, reqs)
  \/ \E i \in DOMAIN docs.scenarios : MakeConditional(i)
  \/ \E what \in DOMAIN docs.counts, n \in 0..2 : Recount(what, n)
  \/ \E reqs \in SUBSET Reqs : Redefine(reqs)
  \/ \E where \in {"spec", "tv", "bv"} : BumpVersion(where)
  \/ \E where \in {"spec", "tv"}, c \in DOMAIN docs.constants.tv : ChangeConstant(where, c)
  \/ \E m \in MUTATIONS : SpoilData(m) \/ LoosenSchema(m)
  \/ WriteTrace

-----------------------------------------------------------------------------
(* One scenario: the validator's section 7 and the runner.                  *)

OptNames == Names \cup {None}

Step == [op : {"issue", "refresh", "revokeToken", "revokeFamilyOf", "reconfigure", "other"},
         ref  : OptNames,     \* token.ref or `of`; None for a literal token
         bind : OptNames,
         ok   : {TRUE, FALSE, None},
         same : OptNames,     \* expect.sameFamilyAs or expect.sameExpiresAtAs
         peppers   : SUBSET Kids,
         activeKid : Kids \cup {None}]

\* The fields the behaviour schema lets each op carry.  "other" stands for
\* the ops that name no binding: revokeUser, advance, failNextCas and the two
\* that inspect the store.
SchemaAdmits(s) ==
  /\ (s.ref # None)  => s.op \in {"refresh", "revokeToken", "revokeFamilyOf"}
  /\ (s.bind # None) => s.op \in {"issue", "refresh"}
  /\ (s.ok # None \/ s.same # None) => s.op \in {"issue", "refresh", "revokeToken"}
  /\ s.op = "issue" => s.bind # None
  /\ s.op = "revokeFamilyOf" => s.ref # None
  /\ s.op \in {"refresh", "revokeToken"} => s.ok # None \/ s.same # None
  /\ s.op = "reconfigure" <=> s.peppers # {}
  /\ s.op = "reconfigure" <=> s.activeKid # None

\* Fault: a step's own binding is in scope for its references.
ReferencesBoundLate(v, s) == {s.ref, s.same} \ {None} \subseteq v.bound \cup {s.bind}

ReferencesBound(v, s) == {s.ref, s.same} \ {None} \subseteq v.bound

\* v.clean: no problem so far.
Validate(v, s) ==
  [ bound |-> IF s.bind # None /\ s.ok # FALSE THEN v.bound \cup {s.bind} ELSE v.bound,
    clean |-> /\ v.clean
              /\ ReferencesBound(v, s)
              /\ s.bind # None => s.bind \notin v.bound /\ s.ok # FALSE
              /\ s.peppers \cup ({s.activeKid} \ {None}) \subseteq KnownKids
              /\ s.op = "reconfigure" => s.activeKid \in s.peppers ]

\* What the runner does with a step once its lookups have succeeded: the
\* engine answers as expected, or the scenario fails there.  An issue that
\* expects a failure always fails.
Succeeds(s) == s.ok # FALSE

\* A lookup that finds nothing, or an engine that cannot be built.
Lost(r, s) ==
  \/ s.ref # None /\ s.ref \notin r.bindings
  \/ s.op \in {"issue", "refresh"} /\ Succeeds(s) /\ s.same # None /\ s.same \notin r.bindings
  \/ s.op = "reconfigure" /\ ~ (s.peppers \subseteq KnownKids /\ s.activeKid \in s.peppers)

Execute(r, s, asExpected) ==
  IF r.verdict # "running" THEN r
  ELSE IF Lost(r, s) THEN [r EXCEPT !.verdict = "lost"]
  ELSE IF ~ asExpected \/ (s.op = "issue" /\ s.ok = FALSE) THEN [r EXCEPT !.verdict = "failed"]
  ELSE IF s.bind # None /\ Succeeds(s) THEN [r EXCEPT !.bindings = @ \cup {s.bind}]
  ELSE r

AppendStep(s, asExpected) ==
  /\ stepCount < MaxSteps
  /\ SchemaAdmits(s)
  /\ validator' = Validate(validator, s)
  /\ runner' = Execute(runner, s, asExpected)
  /\ stepCount' = stepCount + 1
  /\ UNCHANGED <<docs, trace, edits>>

VectorInit ==
  /\ docs = Docs0
  /\ trace = None
  /\ edits = 0
  /\ validator = [bound |-> {}, clean |-> TRUE]
  /\ runner = [bindings |-> {}, verdict |-> "running"]
  /\ stepCount = 0

\* The documents and the scenario do not touch each other: one is explored
\* with the other as it starts.
VectorNext ==
  \/ stepCount = 0 /\ DocsNext
  \/ docs = Docs0 /\ trace = None /\ \E s \in Step, asExpected \in BOOLEAN : AppendStep(s, asExpected)

-----------------------------------------------------------------------------
(* Properties                                                               *)

\* A scenario the validator finds nothing wrong with is one the runner can
\* follow: no step looks up a name that no earlier step bound, or rebuilds the
\* engine around a kid without a pepper, and as long as the engine answers as
\* expected the two hold the same bindings (validate-vectors.mjs section 7).
ScenarioFollowable ==
  validator.clean =>
    /\ runner.verdict # "lost"
    /\ runner.verdict = "running" => runner.bindings = validator.bound

\* SPECIFICATION.md publishes traceability.json as the mapping from requirement
\* to test: when the validator accepts the tree, the file on disk has a row for
\* exactly the requirements the specification defines, at its version, and each
\* row counts every case and scenario that cites the requirement once.
TraceHonest ==
  Accepts(docs) =>
    /\ DOMAIN trace.requirements = docs.defined
    /\ trace.spec_version = docs.versions.spec
    /\ trace.counts.requirements = Cardinality(docs.defined)
    /\ \A r \in docs.defined :
         /\ Cardinality(trace.requirements[r].vectors) =
              Cardinality({i \in DOMAIN docs.cases :
                             docs.cases[i].rule # None /\ docs.cases[i].rule[1] = r})
         /\ Cardinality(trace.requirements[r].scenarios) =
              Cardinality({i \in DOMAIN docs.scenarios : r \in docs.scenarios[i].requirements})

\* A schema that was loosened cannot hide a malformed vector: whatever edits
\* the schemas and the data went through, an accepted tree holds none of the
\* defects the self-test plants (validate-vectors.mjs section 1b).
NoDefectAccepted == Accepts(docs) => docs.defects \cap MUTATIONS = {}
=============================================================================
