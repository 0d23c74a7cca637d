# NEBULA refresh tokens: TLA+ models, checks and proofs

NEBULA issues opaque refresh tokens in *families* (one per login), rotates a
token every time it is used, and treats the second use of a token as evidence of
theft. The library exists in ten languages over one storage contract of six
methods. Its hard part is not one request but several at once: every
`refresh` makes two to four store calls, and between any two of them other
requests, administrators, the garbage collector, the clock and crashes act on the
same rows.

## 1. The system

| part | state | operations | talks to |
|---|---|---|---|
| engine (`packages/*/`, reference: `packages/typescript/src/index.ts`) | configuration only; per request the record it read, its sampled clock, a selector | `issue`, `refresh`, `revokeToken`, `revokeFamily`, `revokeAllForUser` | store, clock, CSPRNG |
| store contract (`RefreshTokenStore`) | rows by selector: status `active` / `rotated` / `revoked`, family, generation, deadlines, hashes, successor | `findBySelector`, `insert`, `markRotated` and `revokeIfActive` (compare-and-set), `revokeFamily`, `revokeUser`; `deleteExpired` outside the contract | called by every engine instance |
| in-memory stores | a map | the same. TypeScript: atomic, one thread. Java, C#: atomic per row, bulk operations walk the map | |
| SQL example stores (`packages/*/examples`) | a table | the same, as statements; the caller wraps one refresh in one transaction | database |
| wire format | none | `parseToken`, minting the string | engine |
| configuration | peppers by kid, active kid, lifetimes, grace | validation in the constructor | engine |
| shared vectors (`spec/`, `scripts/validate-vectors.mjs`, `scripts/build-traceability.mjs`, the runners) | two vector files, their schemas, `traceability.json` | validate, rebuild, run a scenario step by step | every port's test suite |
| version sites (`scripts/version.mjs`) | 17 version sites, 9 dated files, 2 manifests that must have no version | `check`, `set` | maintainer, CI, release pipeline |
| release pipeline (`.github/workflows/release.yml`) | results of 15 jobs, ten registries, the tag | publish in a chain, report, re-run, re-tag | registries, `version.mjs check` |
| conformance harness (`scripts/docker-test.mjs`, `docker/compose.yml`) | `compose.yml`, `ci.yml`; one session | `--check`, run the suites | Docker, CI, runtime matrix |
| runtime matrix (`scripts/check-runtime-matrix.mjs`) | manifests, matrix, SUPPORT.md table | check, `--write` | CI, harness floors |
| other checks (`scripts/check-*.mjs`) | none | one pass over text each | CI |

What is hard here:

* **Decide, then write.** `refresh` decides on a record it read and writes after
  further awaits. Only `markRotated`'s status guard stands between a stale
  decision and a forked family.
* **Grace retries** exchange a token a second time, which the rest of the protocol
  exists to forbid; the right to do so is handed over by consuming the unused
  successor.
* **No transaction is required** ([N-22] says SHOULD), so a call can die between
  any two writes and its loser has to compensate.
* **Pepper rotation** runs engines with different configurations over one table,
  with the device hash migrating from row to row.
* **Bulk revocation** competes with rotations that are under way.
* **The repository's gates** stand between files that are edited one at a time and a
  release that cannot be taken back: a tool that dies half way, a checker that
  shares its blind spot with what it checks, a reader that sees a file differently
  from the program that executes it, a job that fails after its upload was accepted.

What makes it correct: a family never has two tokens a caller can exchange; a
revocation is final; the evidence of rotation is kept to the family deadline; the
grace window and the session lifetime cannot be stretched; nobody loses a session
to a selector or to somebody else's revocation; a replay is followed by the death
of the family. `PROJECT.json` lists the places where each can go wrong.

## 2. Modules

| module | what it is |
|---|---|
| `NebulaEngine` | the engine and the contract with atomic methods: state, actions, properties |
| `FamilyLedger` | the abstract specification: one exchangeable token per family, one token for one token |
| `EngineLedger` | the refinement mapping from the engine to the ledger |
| `SweepingStore` | the same engine over the Java and C# stores, whose bulk operations are walks |
| `SqlStore` | the same engine over the PostgreSQL example store, in transactions |
| `VersionSites` | `version.mjs check` and `set` over the working tree |
| `ReleasePipeline` | `release.yml` over `VersionSites` |
| `VectorGate` | the vector validator, the traceability builder and the scenario runner |
| `ComposeHarness` | `docker-test.mjs`: its reader of `compose.yml` and its run loop |
| `RuntimeMatrix` | `check-runtime-matrix.mjs` and the harness's floor check |
| `MCNebulaEngine`, `MCSweepingStore`, `MCSqlStore`, `MCReleasePipeline` | their small instances: pepper configurations, symmetry |
| `MCGates` | the three gates side by side; a behaviour is one gate's, chosen by `gate` |
| `NebulaEngineProofs` | type correctness; what login established is kept; devices are judged right |
| `LineageProofs` | no fork, one line, revocation is final |
| `EvidenceProofs` | what a step never does: rows move forward, the window is not extended, a guess is worth nothing, a revocation stays in its family; no successor is dead on arrival, none is orphaned |
| `LedgerProofs` | the engine implements the ledger |
| `SweepProofs` | the walking stores: no fork, one line, rows move forward, the window is not extended, a snapshot stays revoked |
| `SqlProofs` | the transactional store: no fork, one line, no orphan, successors intact, committed revocations hold, rows move forward; it implements the ledger |
| `ReleaseProofs` | `set`, the chain, one commit, what ships, what is reported |
| `GateProofs` | the vector gate, the harness session, the runtime matrix |

### NebulaEngine and the code

A call in flight is a process `c`. `pc[c]` names the store call it is about to
make (`check` is the code after the first lookup has been answered); `arg`, `rec`,
`at`, `nxt` and `verdict` are its local variables.

| code | actions |
|---|---|
| `issue` | `BeginIssue` (clock, family id), `IssueInsert` |
| `refresh` and `revokeToken`, steps 1-2 | `RefuseMalformed`, `BeginPresent` |
| steps 3-4 | `Find`, `RefuseUnproved` |
| `revokeToken` after the proof | `CheckRevokeToken`, `RevokeFamilyOf` |
| steps 5-10, where the clock is read | `CheckRotated`, `CheckRevoked`, `CheckActive` |
| `#handleReuse` inside the window | `FindSuccessor`, `Consume` |
| `#rotate` | `InsertSuccessor`, `MarkPredecessor`, `Compensate` |
| `revokeFamily` before a refusal is returned | `RevokeFamilyOf` |
| a store exception, a killed process | `Abort`, possible before every store call and after the last answered one |
| `engine.revokeFamily`, `revokeAllForUser` | `AdminRevokeFamily`, `AdminRevokeUser` |
| `deleteExpired`, the clock | `DeleteExpired`, `Tick` |

Find and check are two steps because the store answers some time after it read: a
record can be stale when the engine looks at it.

Data is abstracted to what the protocol tells apart. An HMAC is the pair of pepper
and value, so equality means that both agree. The verifier minted with a selector
is named by the selector; a *guess* is any other verifier. Callers present tokens
they were handed, or a selector with a guess, with any kid (nothing ties the
token's kid to the record's). `rows` is a function on all selectors, `NoRow` where
the map has none, and a fresh selector is one never drawn. Not represented:
`createdAt` (never read back), the counts revocations return, the redaction of
results, and device identifiers that are not valid Unicode (`#deviceMatches` treats
them as a mismatch, `issue` refuses them before doing anything).

Four history variables serve the properties only: `minted`, `granted` (selectors
whose token was answered; a caller may have received it or not), `charter` (what
`issue` established for each family) and `dead` (families whose revocation was
carried out on rows it found). `aborts` counts calls that died.

### SweepingStore and the code

`revokeWhere` becomes `StartSweep` (the keys the walk is bound to visit),
`SweepRow` (one atomic `computeIfPresent` / `TryUpdate`; a key inserted after the
start may be visited or not, which covers the weakly consistent iterator of the
Java map and the key snapshot of the C# dictionary) and `EndSweep`. `deleteExpired`
is one `CollectRow` per visit. The engine's other steps are `NebulaEngine`'s own:
the Java engine makes the same checks and store calls in the same order. Calls that
die and refusals before the first store call touch no store and stay with
`NebulaEngine`'s runs.

### FamilyLedger and the refinement

The ledger knows no store, clock or call. Per family it has the set of exchangeable
tokens in callers' hands (`head`), a *credit* (the family may be granted a token
without giving one up: at login, or for the token a grace retry has withdrawn) and
whether it was closed. `EngineLedger` maps `head` to the active handed-out rows,
`credit` to logins not yet made and retries past their `revokeIfActive`, `closed` to
`dead`. `LedgerKept` says every step of the engine is a step of the ledger or leaves
it alone: in particular a retry mints exactly one token for the one it took back,
and losing the race or dying forfeits it.

### SqlStore and the code

`rows` is the committed table; `writes[c]` are the row versions of `c`'s open
transaction, which are its row locks as well; `stmt[c]` is an `UPDATE` or `DELETE` over
many rows in progress. The discipline is the one the header of `postgres-store.ts` and
docs/STORE.md section 5 ask for: `BEGIN`, one engine call, `COMMIT`; `ROLLBACK` when the engine throws.
`issue`, administrators' revocations and the collector are single statements. At
READ COMMITTED a statement sees what was committed when it started and its own
transaction's writes; it waits for a row another transaction wrote and looks at its
`WHERE` clause again afterwards (`Matched`, `StatementRow`). A bulk statement's
`StartStatement` fixes the rows it will come to. `DeadlockVictim` is the database
ending one of two transactions that wait for each other. The rest of the engine's
steps are `NebulaEngine`'s own; reading a record under an open transaction is
reading the committed table, because before `consume` a transaction has written
nothing.

`SqlLedgerKept` maps the ledger onto this machine as well, onto the committed table alone:
`head` is again the active handed-out rows, but the credit is the login not yet made and
nothing else, and no family is closed. A grace retry, which `EngineLedger` needs two ledger steps
for, is here one `Exchange` at its `COMMIT`. There is no such mapping for `SweepingStore`: a
walk can revoke a successor after its insert and leave the predecessor to be marked, and
the caller is then handed a token that is dead already, which no step of the ledger does.

### VersionSites, ReleasePipeline and the code

A version site is the list of versions its pattern matches in its file: one is
readable, none or two is an error. `SetSite` writes one site after the other, in the
order of `VERSIONED`; `SetThrows` stops on the first unreadable one; `SetDies` ends between two
files or inside `writeFileSync`, which truncates before it writes. Around it the maintainer
dates the changelogs by hand and may miss one (`Redate`), spoils a site, a heading or
an unversioned manifest (`MaxMishaps`), or starts over (`Restore`).
`PushTag` freezes the tree. The jobs of `release.yml` run when what they need has succeeded;
CI and preflight run `Check` on the tagged tree. `Publish` covers an upload refused, accepted
and answered, and accepted with the job failing afterwards; `PackagistHook` is the webhook
that reads a tag without asking any job. `Released` prints the report; `Rerun` is "re-run failed
jobs"; `DeleteTag` is the remedy the report prints.

### VectorGate, ComposeHarness, RuntimeMatrix and the code

`VectorGate` has two halves. The documents are edited one place at a time, and
`Accepts` is sections 1 to 6 and 8 of the validator (counts per section of the test
vectors as well as of the scenarios, one map of ids over both files), `Build` the document
`build-traceability.mjs` derives, `WriteTrace` running it. A scenario arrives step by step;
`Validate` is section 7 of the validator and `Execute` the TypeScript runner, so that the
two ideas of which names are bound stand side by side. Malformed content is
abstracted to kinds of defects and the schemas to the kinds they refuse; the
constants of the specification to equal or different.

`ComposeHarness` edits `compose.yml` a line at a time. A line is its kind, which fixes its
indentation, and what it says. `ParseLine` is the repository's own line reader,
`YamlLine` the reading YAML gives the same lines, which is what Docker executes; the
properties compare them on files that `--check` accepts. Of `ci.yml` every line of a job counts
that is not a comment, the lines that name a step among them. `RunByJob` asks what the code
asks, whether one of them *contains* the script line: texts are opaque and `Includes` says
which contains which. A file without services ends every command with status 2, before
its arguments are looked at. `Main`, `RunSuite` and `Summarise` are a
session: which argument wins, what the Docker probes find, each suite's exit status,
the verdict.

`RuntimeMatrix` has one runtime of each kind the code distinguishes: a floor with
channels (`go`), pairs (`elixir`), an exact set (`dotnet`). Versions are tuples of numbers, a
channel is `<<NaN>>`, and `Cmp` is JavaScript's: a missing component is 0, and a difference
with NaN is no difference.

### Fault operators

Operators commented `Fault:` (`MarkRotatedUnguarded`, `CompensateNothing`,
`RollbackCommits`, ...) are not used by the specifications. Each is a plausible bug in
the definition that follows it; substituted for it, each breaks the property named
in `PROJECT.json`. They document what every property is sensitive to.

## 3. Properties

| property | says |
|---|---|
| `TypeOK` | every variable has its type; in particular a bound row stores a hash, never the device id |
| `NoFork` | a family never has two tokens in callers' hands that could be exchanged |
| `LinearLineage` | the unrevoked handed-out tokens of a family have distinct generations, and the active one is the newest |
| `RevocationHolds` | after a family was revoked none of its handed-out tokens is exchangeable, then or later |
| `NoOrphanAtRest` | with no call in flight and none dead, every active row was handed out |
| `NoDeadOnArrival` | a successor's deadline lies after the time its request was judged at |
| `GraceNotExtended` | a token exchanged again keeps its first rotation time, and its earlier successor is out of use and was never used |
| `EvidenceKept` | statuses only move forward and a row goes only at the family deadline |
| `GuessChangesNothing` | a selector without its verifier changes nothing |
| `CharterKept` | every row has the user, deadline and device of its family's login, hashed under the row's own pepper |
| `DeviceJudgedRight` | only the login's device reaches rotation, and only another one is refused with DEVICE_MISMATCH |
| `BlastRadius` | a call revokes rows of the family it proved a token of, an administrator those of one user |
| `CallsReturn` | every call returns |
| `ReplayBurnsFamily` | a replay of a token whose successor was used ends with the family dead |
| `LedgerKept` | every step of the engine is a step of `FamilyLedger` |
| `SqlLedgerKept` | every step of the transactional engine is one too, and between two of them no family is owed a token |
| `SnapshotRevoked` | rows present when a walking revocation started stay revoked once it returned |
| `NoOrphanCommitted` | with one transaction per refresh, every active row in the table was handed out, always |
| `SuccessorIntact` | a retry that dies or is a deadlock victim costs nothing: the successor is still usable or was used |
| `CommittedRevoked` | rows committed when a revoking statement started stay revoked once it committed |
| `SetIsComplete` | a `set` that does not throw has written every site exactly once |
| `ShippedAgrees` | an uploaded artefact has one version, the tag's, at every site, and one date |
| `OneCommit` | no two uploads of the version come from different commits |
| `ChainPrefix` | the registries that have the version are the first of the chain |
| `AllTenServe` | "published to all ten" is said only when all ten serve the tagged commit |
| `ScenarioFollowable` | a scenario the validator finds clean never makes the runner look up an unbound name or build an impossible engine, and both hold the same bindings |
| `TraceHonest` | in an accepted tree the published traceability has every defined requirement and counts every citation once |
| `NoDefectAccepted` | no order of loosening a schema and spoiling data gets a planted kind of defect accepted |
| `DockerRunsChecked` | what Docker runs from an accepted `compose.yml` is every package and nothing else, from a pinned image, staged first, and then only lines that are explained or contained in a line of the CI job of the same name |
| `VerdictEarned` | exit status 0 is given exactly when every suite asked for ran to status 0, however often it is named; with no arguments "every implementation agrees" exactly when every package's did |
| `SupportEarned` | when both gates accept, the claimed floor is tested, nothing older is, and image and table are at that floor |

## 4. Runs

| run | instance | shows |
|---|---|---|
| `race` | 2 calls, 4 selectors, 1 family, grace 1, time 0..2 | the safety properties of concurrent rotation, retry, compensation and revocation; the ledger is kept |
| `crash` | 2 calls, 2 families, 2 users, 3 selectors, a call may die | revocation reaches what it names and nothing else; the ledger is kept through a death |
| `peppers` | 1 call, 2 devices, a guess, 2 kids, 2 engines, one of which has dropped the old pepper, idle 1 | what login established survives a mixed deployment; guesses are harmless; idle rows stay as evidence |
| `live` | 2 calls, 3 selectors, fair, clock stopped | calls return; replays burn the family |
| `sweep` | walking store, 2 calls, 3 selectors, one walk at a time, time 0..1 | no fork and one line; no row moves back; snapshots stay revoked, also beside collection |
| `sql` | transactions, 2 calls, 3 selectors, one death, time 0..2 | no fork, no orphan at any time, a dead retry costs nothing, no commit writes an older row back; the ledger is kept |
| `release` | 17 sites, 10 registries, 1 mishap, 2 tags, 1 re-run | what ships agrees with its tag and comes from one commit |
| `gates` | 3 names and steps, 2 edits of documents and of `compose.yml`, 3 of the matrix | what the gates accept is what is then relied on |
| `sweep_revocation`, `sql_revocation`, `release_report` | as `sweep`, `sql`, `release` | disagreements, section 6 |
| `harness_ci` | as `gates` | a disagreement, section 6 |

**Bounds.** Two calls are enough to race every pair of steps, and the properties
relate two tokens or two calls; a deadlock needs two transactions. Four selectors
give a login, a rotation and two rival successors, or a login, a rotation, a retry
and its successor; three suffice where retries of retries do not matter. Time runs
past the family deadline in `sql` and reaches it in `race`, `crash`, `peppers` and `sweep`, so the comparisons are met on both
sides of their boundaries. The clock stands still where only the order of steps
matters. The number of calls in flight is bounded, the number of calls made is
bounded only by the selectors left (`Fresh`). Calls, selectors and devices are
interchangeable, so the safety runs of the engine use symmetry; `live` does not.
`MaxWalks` bounds the bulk revocations under way together: two walks revoke the same
rows, and the collector beside one is not bounded.
In `release` all sites, files, jobs and registries are there. One mishap is enough: a
property fails when one wrong place gets through, and a second wrong place only
gives `Check` more to see. Two tags and one re-run are what mixing two commits takes.
In `gates`, three steps are a binding, a use and a step between; two edits of a
document are a loosened schema and the data that profits, two lines of `compose.yml` are a line
that changes the reader's mind and the line it then misses; the texts of its lines are the commands of two
packages, the beginning of one of them, a word of a step's name and a command of another job. Three edits
of the matrix move the manifest, the list and the image each once; lists have at most two
entries (`MaxListed`), one that is the floor and one that should not be below it. The two halves of
`VectorGate`, and editing and running in `ComposeHarness`, do not read each other's state and
are explored one beside the other, not multiplied.

**Deadlock.** TLC's check is on for the engine and the release and says little, since the
collector and the maintainer can always act; `CallsReturn` is the property that rules
out calls waiting for ever, and in `sql` the only cycles of waiting transactions are those `DeadlockVictim` ends. It is off in
`gates`, where a session ends and edits run out.

**Fairness.** `FairSpec` assumes weak fairness of `Progress(c)` for every call: a
store call that was made is eventually answered and the event loop resumes the
call. Nothing obliges a caller to begin a call, an administrator to act, the
collector to run or the clock to advance. `live` excludes calls that die, and
`CallsReturn` allows for a model that ran out of selectors (`Exhausted`).

## 5. Proofs

The theorems hold for every value of the constants: any sets of calls, selectors,
families, users, devices, kids and engines, all lifetimes and grace windows, any
number of failures, tags, re-runs, edits and steps. What they assume of the
constants is named, and TLC evaluates it in every run of a module that extends
the one stating it:

* `ConfigAssumption` (what the constructor enforces), `BoundAssumption` (model bounds
  are naturals), `DistinctAssumption` (null is no value, a guess is no minted
  verifier) for the engine and both other stores;
* `StatementAssumption`: no bulk statement is the value that says there is none;
* `VersionAssumption`, `ReleaseAssumption`: the versions of the release, and again that
  the absent value is no version, commit or report;
* `VectorAssumption`, `HarnessAssumption` (a finite set of packages, none of them the job
  `gates`; every package has a command, which contains itself, and a named step; unset is neither status 0, a verdict, a name nor a key
  of the file), `MatrixAssumption` (lists of versions are finite, versions are
  tuples of naturals, NaN is not a natural).

### The engine

* `TypeCorrect`: `Spec => []TypeOK`. Inductive only with `LocalsOK`: which locals are
  meaningful at which step, e.g. that a call about to consume a successor holds a
  rotated record with a rotation time.
* `CharterTheorem`, `DeviceTheorem`. Every rotation writes login data from a *copy*.
  `CharterInv` says that rows and the copies held by calls in flight agree with the
  login, that the family a call is about to found has exactly the charter it carries,
  and that a call past the device check was judged on that copy. Re-hashing under the
  active pepper then preserves `FromLogin` because an accepted device is the login's.
* `NoForkTheorem`, `LinearTheorem`, `RevocationTheorem`. `IInv` is an accounting of the
  right to rotate. `RowsOK` and `CallsOK` tie the copies and successors that calls
  hold to rows (same family, one generation apart, successors held by one call only
  and not handed out). `FamiliesOK` says a family id that was not yet inserted has no
  trace anywhere. `LineOK` is the point: a family has a head, or exactly one grace
  retry that consumed it and no head, or neither. `NoFork` alone is not inductive: a
  retry that has consumed the head could meet another head at `MarkPredecessor`.
  `DeadOK` says a revoked family has no lineage at all, so that no compare-and-set
  expecting `active` or `rotated` can succeed in it; it stands apart from `IInv` because
  it needs a revocation in one step, which only the TypeScript store has.
  Most actions insert and grant nothing; `QuietStep` handles all of them at once, and
  `IssueLine`, `ConsumeLine`, `InsertLine`, `MarkLine` and `RevokeLine` the rest.
* `EvidenceTheorem` rests on `RowSteps`: whatever the step, a row is left alone, appears
  under a fresh selector, is marked by one call's compare-and-set, is revoked, or is
  collected past its deadline. The same lemma gives `BlastTheorem` and `GuessTheorem`
  their case distinction.
* `NoDeadTheorem` and `GraceTheorem` need `JudgedInv`: a call past the checks was judged
  before the family deadline, the successor it inserted outlives that moment, and a
  call that holds a *rotated* copy knows the rotation time for good, because the row can
  only have gone on from there.
* `OrphanTheorem` needs `Accounted`: while no call has died, an active row is in a
  caller's hands or is the successor of a call that will hand it out or take it back.
* `LedgerTheorem` is the refinement: `LedgerKept` is the abstract specification under
  the mapping of `EngineLedger`, and each action of the engine is shown to be `Open`,
  `Exchange`, `Withdraw`, `Forfeit`, `Lapse`, `Close` or none. Beyond `IInv` it needs `Ready`: while a
  winner's compare-and-set can still succeed the successor it will hand out is
  active, because revocations and collection take a family as a whole.

### The other stores

* `SweepNoFork`, `SweepLinear`, `SnapshotTheorem`. `IInv` survives walks, since a walk only revokes, row
  by row (`QuietStep` again). `SweepInv` adds that a row a walk has passed, or one that a finished walk had
  found, is revoked or gone. `DeadOK` is false here; that is the disagreement
  `sweep_revocation` of section 6.
* `SweepEvidence`, `SweepGrace`. `StepOrWalk` splits the steps in those of `NebulaEngine`, for
  which the lemmas `RowEvidence` and `RowGrace` of `EvidenceProofs` were proved of a step and not of
  `Spec`, and those of walks, which only take rows away (`Wanes`) while every call waits or ends. `JudgedInv` is
  inductive over both. The run `sweep` has too few tokens and too little time for a retry of a retry,
  so `GraceNotExtended` is checked in `race` and only proved here.
* `SqlNoFork`, `SqlLinear`, `SqlNoOrphan`, `SqlSuccessor`, `SqlRevocation`. Reads come from the committed
  table and writes are seen by nobody, so `IInv` does not carry over and `SqlInv` is a
  separate invariant. Its centre is the row lock. `LocksOK`: no two open transactions hold
  one row. `RotationOK`: what a rotation has read of the rows it has written is still what
  is committed, since nobody else can write them; so at `Commit` the predecessor is
  still the version its `WHERE` clause matched. `TableOK` is then a property of committed
  states only: every unrevoked row was handed out, and a family has one line. For
  `SqlRevocation` a statement's rows are those still to come to, those it has written and
  still locks, and those already revoked; `SettledOK` adds that no open transaction has a
  pending write that would bring a settled row back.
* `SqlEvidence`. By `TableSteps` the table changes only when `issue` inserts and when a transaction
  commits. A committed version goes forward from the one it replaces, because of the lock; for
  a deleted row `TimedInv` keeps what the statement found when it wrote it, that the row had
  expired by the clock read at its start, until the `COMMIT` that may come much later.
* `SqlLedgerTheorem`. Every step but three leaves the committed table and the credit alone.
  `issue` opens; a rotation's `COMMIT` is `Exchange`, whether it is a first exchange or a retry, since the
  head it gives up is the row it has locked and the one it grants is locked by nobody else;
  every other `COMMIT` is `Lapse` of the families that lost their token, or nothing.

### The release

`ReleaseInv` conjoins five parts. `SetInv`: the sites before the one `set` has come to name its
version. `RunType` is the types. `JobsOK`: jobs succeed in the order of the chain, after a
preflight that approved the tagged tree, and the success of npm and of Packagist means
that they serve the tagged commit. `ReportOK`, and `ShippedOK`: every upload was built from an
*approved* tree, one on which `version.mjs check` passed for the tag. `OneCommit` is
inductive only together with the chain: npm comes first and refuses a second upload of a
version, so a second commit never gets past npm, and everything behind npm is from
the commit npm has.

### The gates

`GateInv` has one part per gate.

* `ScenarioInv`: validator and runner hold the same bindings while the scenario is clean
  and running. `ReferencesFound` is the lemma that what the validator lets through the runner finds.
* `DocsInv`: edits keep the number of cases and scenarios and the section of each case.
  `TraceTheorem` then counts: unique ids make the ids of a row as many as the indices that
  cite (`ImageCount`), and every requirement with a row is defined (`CitedDefined`).
* `SessionInv`: the names are those given, or every package once when none was; the results are those of
  the first names, in order, and the words and the status at the end follow from them. `VerdictTheorem` says
  nothing about the sentence "every implementation agrees" when names were given: it is then not always
  earned (section 7).
* `ComposeInv`: the file has known lines, and a `--check` that passed was of the file as it stands.
  `HarnessTheorem` is about two folds over that file which meet nowhere in the code, the
  repository's line reader and YAML. `InStep` relates their states: the services read so far
  with their images and scripts (`Book`), and where in the file each reader believes to be (`Place`).
  `InStepNext` shows, one lemma per kind of line, that a line on which YAML stays valid and which
  is not deeper than eight spaces in a script keeps them in step. `ReadAlike` carries that over the whole file
  without an induction principle: of the prefixes on which the two disagree one is shortest
  (`LeastNatural`), and it is not empty. `CiCommands` bounds what `ciJobs` can have read of `ci.yml` (in the job of a package its command and the name of its step), and
  `CheckedFile` puts the checks of `ParityOk` and `ServiceOk` on top.
* `MatrixInv`: types and finiteness. `CmpMeans` shows that `cmp` is the lexicographic order with
  missing components 0, `BelowOrder` that it is a strict order, and `LowestOf` that
  `sort(cmp)[0]` is a least element of any finite list. The last one needs no induction:
  the version with the fewest older ones has none.

### Only model-checked

* `CallsReturn` and `ReplayBurnsFamily`: liveness under fairness is outside the prover's reach.
  Every other property of a passing run is stated by a theorem of the specification that run checks.
* The four disagreements of section 6 are counterexamples and need no proof.

## 6. Disagreements between code and documents

* **A walking revocation misses a successor** (`sweep_revocation`). The Java and C#
  in-memory stores revoke row by row. A refresh that inserts its successor behind
  the walk and marks the predecessor before the walk reaches it returns a token that
  outlives the revocation. SPECIFICATION.md [N-19] says "every record", [N-21] that the
  store is safe to use concurrently. `SnapshotRevoked` is what the walk does
  guarantee.
* **A revoking statement misses an open refresh's successor** (`sql_revocation`). In the
  PostgreSQL store at READ COMMITTED the `UPDATE` does not see a row inserted by a transaction that
  has not committed. docs/STORE.md says safety never rests on the isolation level; that holds for
  forks (`sql`) and not for revocation. `CommittedRevoked` is what the statement
  guarantees; locking the family, which docs/STORE.md offers as an option, closes it.
* **BLOCKED does not mean untouched** (`release_report`). The report counts jobs that succeeded. A job
  that failed after its upload was accepted counts as nothing published, and the
  advice to tag again leads to a version that npm serves from the old commit and
  refuses from the new one.
* **A fragment passes for CI's command** (`harness_ci`). `--check` looks for a script line inside
  any line of the CI job that is not a comment. `go test` is accepted where CI runs
  `go test -race -count=1 ./...`, and so is a word of a step's name. The header of `docker-test.mjs` says that
  every command still matches the one CI runs, and rule 6 of `compose.yml` that any unexplained divergence fails.
  `HarnessRunsCi` fails in a second way: the line reader collects what is indented exactly eight
  spaces and stops at anything else, while YAML keeps a deeper line in the script, and Docker runs it and
  what follows. The ten scripts have no such line today. `DockerRunsChecked` is what `--check` does guarantee.

## 7. What the properties assume, and known gaps

Places where a property is stated with an assumption, or none is stated, because the
code does less than a reader might expect.

* Packagist reads a tag through its webhook before CI and preflight have judged it:
  `ShippedAgrees` and `OneCommit` are about the nine registries that take an upload.
* `DockerRunsChecked` assumes valid YAML, which `docker compose config` judges, and scripts at one indentation
  (`Flat`). Interpreter arguments before the block and an `entrypoint` are read
  neither by the checker nor in the model.
* The summary of a run compares the number of results with the number of services: one language named
  that often earns "Every implementation agrees with the vectors in spec/.". `VerdictEarned` therefore speaks of
  that sentence only for a run with no arguments, and of the exit status for every run.
* A grace retry that reads the successor just after a concurrent retry has consumed it finds no active
  successor, and the family is revoked with REUSE_DETECTED. That is what [N-30] condition 5 prescribes, and
  docs/STORE.md promises CONFLICT only to a retry that found the successor active; no property is stated
  against it. Likewise a call that dies between its insert and its compare-and-set leaves an active row in
  nobody's hands: `NoOrphanAtRest` excludes calls that died, `NoOrphanCommitted` shows that a transaction prevents it.
* `SupportEarned` takes OTP entries to be numbers: `check-runtime-matrix.mjs` filters channels from
  every list but that one.

Read in the code and not modelled: `subRuleCount` takes the first numbered list
anywhere after a requirement, and kids in a scenario's `defaults.peppers` are not
checked against the `peppers` map. A `$comment` of the behaviour schema says that a
successful refresh must bind its token; nothing enforces it, and nothing depends on it.

## 8. Not modelled, and the plan

Not modelled:

* **The engines of the other ports**, but for the steps of the Java engine that `SweepingStore`
  relies on. They make the same decisions in the same order; what differs (integer
  width, a TTL of 0 in Go, cancellation, nil defaults) is a comparison of
  constructors and types, not a behaviour over time.
* **SQL stores of the other ports**: the same statements in other dialects. SQLite's
  database lock has fewer interleavings than `SqlStore`.
* **Checks of agent instructions, skills, the marketplace, licences, links, pinned actions and
  examples**: one pass over text with a pattern per rule and no state that outlives a
  line. A model would copy the patterns.
* **Token parsing and configuration checks** beyond their outcome: `RefuseMalformed`,
  `UNKNOWN_KID` and `ConfigAssumption`.
* Cryptographic strength (HMACs are ideal, the CSPRNG never repeats), timing, logging
  and redaction, the cryptographic content of the vectors.

Next:

1. **Liveness arguments as safety**: the ranking a call descends (`Progress` always leads to a later
   `pc`) as an action property, so that what is left to fairness in `CallsReturn` is only that steps
   are taken.
2. **What a walk promises as a ledger**: `FamilyLedger` without the promise that a granted token is
   alive, which is what `SweepingStore` breaks.
