--------------------------- MODULE ComposeHarness ---------------------------
(***************************************************************************)
(* scripts/docker-test.mjs: `--check`, which reads docker/compose.yml and  *)
(* .github/workflows/ci.yml line by line and holds them to each other, and *)
(* the run of the conformance suites.  compose.yml is edited a line at a   *)
(* time; beside the checker's reader stands the reading YAML gives the     *)
(* same lines, which is what Docker runs.                                  *)
(***************************************************************************)
EXTENDS Naturals, Sequences, SequencesExt, FiniteSets

CONSTANTS
  Packages,         \* the directories of packages/
  OtherName,        \* a service name that is none of them
  Texts,            \* what a line of a script may say
  Command,          \* Command[p]: the command of the CI job of package p
  StepName,         \* StepName[p]: the line that names its step
  SharedCommand,    \* a command only a CI job of no package runs
  Includes,         \* <<part, line>> for the texts part that line.includes(part)
  MaxLineEdits,     \* bound: lines added to or taken from compose.yml
  Unset

ASSUME HarnessAssumption ==
  /\ IsFiniteSet(Packages) /\ OtherName \notin Packages
  /\ Command \in [Packages -> Texts] /\ DOMAIN StepName = Packages /\ SharedCommand \in Texts
  /\ \A p \in Packages : <<Command[p], Command[p]>> \in Includes
  /\ MaxLineEdits \in Nat
  /\ Unset # 0 /\ "gates" \notin Packages /\ Unset \notin Packages \cup {OtherName}
  /\ Unset \notin {"image", "floor", "dir", "parity", "volumes", "tmpfs", "command", "environment",
                  "digest and tag", "not-in-ci", "under four characters"}

VARIABLES
  compose,     \* the lines of docker/compose.yml
  lineEdits,   \* edits made
  session      \* one invocation of docker-test without --check

harnessVars == <<compose, lineEdits, session>>

-----------------------------------------------------------------------------
(* The lines.  A line is its kind, which fixes its indentation, and what it *)
(* says: "services" and "top" at column 0; "service" and "note" (a comment) *)
(* at 2; "image", "floor", "dir", "parity" and "key" at 4; "item" at 6;     *)
(* "body" at 8 and "deep" beyond.                                           *)

Line(kind, v)        == [kind |-> kind, v |-> v, script |-> Unset]
ScriptLine(kind, c)  == [kind |-> kind, v |-> Unset, script |-> c]

Stage(name)         == [text |-> <<"stage", name>>, reason |-> "not-in-ci"]
Plain(cmd)          == [text |-> cmd, reason |-> Unset]
Explained(cmd)      == [text |-> cmd, reason |-> "not-in-ci"]
BarelyExplained(cmd) == [text |-> cmd, reason |-> "under four characters"]

ServiceLines(p) ==
  << Line("service", p), Line("image", "digest and tag"), Line("floor", "declared"),
     Line("dir", p), Line("key", "volumes"), Line("item", "*repo"), Line("key", "tmpfs"),
     Line("item", "*work"), Line("key", "command"), Line("item", "|"),
     ScriptLine("body", Stage(p)), ScriptLine("body", Plain(Command[p])) >>

Compose0 == <<Line("services", Unset)>> \o FlattenSeq([i \in 1..Cardinality(Packages) |->
                                            ServiceLines(SetToSeq(Packages)[i])])

\* ci.yml: what each line of a job holds, the step names and comments included.
CiLines ==
  << Line("top", Unset), Line("jobs", Unset), Line("job", "gates"), Line("run", SharedCommand) >>
    \o FlattenSeq([i \in 1..Cardinality(Packages) |->
         LET p == SetToSeq(Packages)[i]
         IN  << Line("job", p), Line("name", StepName[p]), Line("comment", SharedCommand),
                Line("run", Command[p]) >>])

-----------------------------------------------------------------------------
(* parseCompose and ciJobs: one pass, a line at a time.                     *)

\* FoldLeft as a recursive function, which TLC evaluates in linear time.
Pass(Read(_, _), start, lines) ==
  LET after[i \in 0..Len(lines)] == IF i = 0 THEN start ELSE Read(after[i - 1], lines[i])
  IN  after[Len(lines)]

NewService(name) ==
  [name |-> name, image |-> Unset, floor |-> Unset, workingDir |-> Unset, parity |-> Unset,
   volumes |-> {}, tmpfs |-> {}, command |-> <<>>]

Parse0 == [in |-> FALSE, section |-> Unset, collecting |-> FALSE, cur |-> FALSE, services |-> <<>>]

\* `cur` is the last service pushed, while it is current.
WithCur(r, field, v) == [r EXCEPT !.services[Len(r.services)][field] = v]
Cur(r)               == r.services[Len(r.services)]

ReadKey(r, line) ==
  CASE line.kind = "image"  -> [WithCur(r, "image", line.v) EXCEPT !.section = Unset]
    [] line.kind = "floor"  -> [WithCur(r, "floor", line.v) EXCEPT !.section = Unset]
    [] line.kind = "parity" -> [WithCur(r, "parity", line.v) EXCEPT !.section = Unset]
    [] line.kind = "dir"    -> [WithCur(r, "workingDir", line.v) EXCEPT !.section = Unset]
    [] line.kind = "key"    -> [r EXCEPT !.section = IF line.v \in {"volumes", "tmpfs", "command"}
                                                     THEN line.v ELSE Unset]
    [] line.kind = "item" /\ r.section = "volumes" ->
         WithCur(r, "volumes", Cur(r).volumes \cup {line.v})
    [] line.kind = "item" /\ r.section = "tmpfs" ->
         WithCur(r, "tmpfs", Cur(r).tmpfs \cup {line.v})
    [] line.kind = "item" /\ r.section = "command" /\ line.v = "|" ->
         [r EXCEPT !.collecting = TRUE]
    [] OTHER -> r

ParseLine(r, line) ==
  IF line.kind = "services" THEN [r EXCEPT !.in = TRUE]
  ELSE IF line.kind = "top"
  THEN [r EXCEPT !.in = FALSE, !.cur = FALSE, !.section = Unset, !.collecting = FALSE]
  ELSE IF line.kind = "blank" \/ ~ r.in THEN r
  ELSE IF r.collecting /\ line.kind = "body"
  THEN WithCur(r, "command", Append(Cur(r).command, line.script))
  ELSE LET q == [r EXCEPT !.collecting = FALSE]
       IN  IF line.kind = "service"
           THEN [q EXCEPT !.services = Append(@, NewService(line.v)),
                          !.cur = TRUE, !.section = Unset]
           ELSE IF q.cur THEN ReadKey(q, line) ELSE q

SERVICES(lines) == Pass(ParseLine, Parse0, lines).services

\* Every line of a job that is not a comment, whatever it is for.
CiLine(r, line) ==
  IF line.kind = "jobs" THEN [r EXCEPT !.in = TRUE]
  ELSE IF line.kind = "top" THEN [r EXCEPT !.in = FALSE, !.cur = Unset]
  ELSE IF ~ r.in THEN r
  ELSE IF line.kind = "job" THEN [r EXCEPT !.cur = line.v, !.jobs = @ \cup {line.v}]
  ELSE IF line.kind # "comment" /\ r.cur # Unset THEN [r EXCEPT !.lines = @ \cup {<<r.cur, line.v>>}]
  ELSE r

CiJobs == Pass(CiLine, [in |-> FALSE, cur |-> Unset, jobs |-> {}, lines |-> {}], CiLines)

-----------------------------------------------------------------------------
(* check                                                                    *)

\* Fault: a line of any job will do.
RunByJobAny(name, want) == \E l \in CiJobs.lines : <<want, l[2]>> \in Includes

\* job.some((l) => l.includes(want))
RunByJob(name, want) == \E l \in CiJobs.lines : l[1] = name /\ <<want, l[2]>> \in Includes

Asserted(s) ==
  {i \in 2..Len(s.command) : s.command[i].reason = Unset /\ RunByJob(s.name, s.command[i].text)}

ParityOk(s) ==
  /\ s.name \in CiJobs.jobs
  /\ \A i \in 2..Len(s.command) :
       /\ s.command[i].reason # "under four characters"
       /\ s.command[i].reason = Unset => RunByJob(s.name, s.command[i].text)
  /\ (Asserted(s) = {}) <=> (s.parity = "explained")

Staged(s) == s.command # <<>> /\ s.command[1].text = <<"stage", s.name>>

ServiceOk(s) ==
  /\ s.image = "digest and tag"
  /\ s.floor = "declared"
  /\ s.workingDir = s.name
  /\ "*repo" \in s.volumes
  /\ "*work" \in s.tmpfs
  /\ Staged(s)
  /\ ParityOk(s)

CheckCompose(lines) ==
  LET services == SERVICES(lines)
  IN  /\ {services[i].name : i \in DOMAIN services} = Packages
      /\ \A i \in DOMAIN services : ServiceOk(services[i])

-----------------------------------------------------------------------------
(* The same lines as YAML.                                                  *)

Indent(line) == CASE line.kind \in {"services", "top"} -> 0
                  [] line.kind \in {"service", "note"} -> 2
                  [] line.kind = "item"                -> 6
                  [] line.kind = "body"                -> 8
                  [] line.kind = "deep"                -> 10
                  [] OTHER                             -> 4

KeyOf(line) == IF line.kind = "key" THEN line.v ELSE line.kind

\* A block scalar runs up to the first line indented less than it is.
\* `valid` fails where the line cannot stand, or says again what its mapping
\* already says; `keys` are the keys of the service so far.
Yaml0 == [in |-> FALSE, name |-> Unset, key |-> Unset, scalar |-> FALSE, keys |-> {}, valid |-> TRUE,
          names |-> {}, images |-> {}, scripts |-> [n \in Packages \cup {OtherName} |-> <<>>]]

YamlLine(y, line) ==
  IF line.kind = "blank" \/ (y.scalar /\ Indent(line) >= 8 /\ y.key # "command") THEN y
  ELSE IF y.scalar /\ Indent(line) >= 8 THEN [y EXCEPT !.scripts[y.name] = Append(@, line.script)]
  ELSE CASE line.kind = "note" -> [y EXCEPT !.scalar = FALSE]
         [] line.kind = "services" ->
              [y EXCEPT !.in = TRUE, !.name = Unset, !.key = Unset, !.scalar = FALSE,
                        !.valid = @ /\ y.names = {}]
         [] line.kind = "top" -> [y EXCEPT !.in = FALSE, !.key = Unset, !.scalar = FALSE]
         [] line.kind = "service" ->
              [y EXCEPT !.name = line.v, !.key = Unset, !.scalar = FALSE, !.keys = {},
                        !.valid = @ /\ y.in /\ line.v \notin y.names, !.names = @ \cup {line.v}]
         [] Indent(line) = 4 ->
              [y EXCEPT !.key = KeyOf(line), !.scalar = FALSE, !.keys = @ \cup {KeyOf(line)},
                        !.images = @ \cup (IF line.kind = "image" THEN {<<y.name, line.v>>} ELSE {}),
                        !.valid = @ /\ y.in /\ y.name # Unset /\ KeyOf(line) \notin y.keys]
         [] line.kind = "item" ->
              [y EXCEPT !.scalar = (line.v = "|"),
                        !.valid = @ /\ y.in /\ y.key \in {"volumes", "tmpfs", "command", "environment"}]
         [] OTHER -> [y EXCEPT !.valid = FALSE]

Yaml(lines) == Pass(YamlLine, Yaml0, lines)

\* Every line of a script at the script's own indentation.
Flat(lines) == \A i \in DOMAIN lines : lines[i].kind # "deep"

-----------------------------------------------------------------------------
(* Editing compose.yml.                                                     *)

NewLines ==
  {Line("service", n) : n \in Packages \cup {OtherName}}
    \cup {Line("image", "tag"), Line("floor", "stale"), Line("parity", "explained"),
          Line("key", "environment"), Line("key", "command"), Line("item", "*work"),
          Line("item", "|"), Line("blank", Unset), Line("note", Unset), Line("top", Unset),
          ScriptLine("deep", Plain(SharedCommand))}
    \cup {ScriptLine("body", Plain(c)) : c \in Texts}
    \cup {ScriptLine("body", Explained(SharedCommand)),
          ScriptLine("body", BarelyExplained(SharedCommand))}
    \cup {ScriptLine("body", Stage(p)) : p \in Packages}

AddLine(i, line) ==
  /\ lineEdits < MaxLineEdits
  /\ lineEdits' = lineEdits + 1
  /\ compose' = InsertAt(compose, i, line)
  /\ UNCHANGED session

DropLine(i) ==
  /\ lineEdits < MaxLineEdits
  /\ lineEdits' = lineEdits + 1
  /\ compose' = RemoveAt(compose, i)
  /\ UNCHANGED session

-----------------------------------------------------------------------------
(* main, requireDocker and run, over the services as they stand.            *)

KnownFlags == {"--check", "--list", "--help"}

\* What requireDocker finds, probe by probe; all but the last end the program.
DockerStates == {"no CLI", "no compose plugin", "no daemon", "ready"}

Idle == [phase |-> "idle", given |-> <<>>, names |-> <<>>, results |-> <<>>, exit |-> Unset, said |-> Unset]

Exit(code, words) ==
  session' = [session EXCEPT !.phase = "done", !.exit = code, !.said = words]

\* The file is read first; then the order in which main looks at its arguments.
Main(flags, names, docker) ==
  /\ session.phase = "idle"
  /\ IF SERVICES(compose) = <<>> THEN Exit(2, "no services")
     ELSE IF \E f \in flags : f \notin KnownFlags THEN Exit(2, "usage")
     ELSE IF "--help" \in flags  THEN Exit(0, "usage")
     ELSE IF "--list" \in flags  THEN Exit(0, "list")
     ELSE IF "--check" \in flags THEN Exit(IF CheckCompose(compose) THEN 0 ELSE 1, "check")
     ELSE IF \E i \in DOMAIN names : names[i] \notin Packages THEN Exit(2, "no such language")
     ELSE IF docker # "ready" THEN Exit(2, docker)
     ELSE session' = [session EXCEPT !.phase = "running", !.given = names,
                        !.names = IF names = <<>> THEN SetToSeq(Packages) ELSE names]
  /\ UNCHANGED <<compose, lineEdits>>

\* Fault: a suite that could not be started did not fail.
SuitePassedUnlessExit(outcome) == outcome # "exit 1"

SuitePassed(outcome) == outcome = "exit 0"

RunSuite(outcome) ==
  /\ session.phase = "running"
  /\ Len(session.results) < Len(session.names)
  /\ session' = [session EXCEPT !.results =
       Append(@, [name |-> session.names[Len(session.results) + 1],
                  ok |-> SuitePassed(outcome), outcome |-> outcome])]
  /\ UNCHANGED <<compose, lineEdits>>

Summarise ==
  /\ session.phase = "running"
  /\ Len(session.results) = Len(session.names)
  /\ IF \E i \in DOMAIN session.results : ~ session.results[i].ok
     THEN Exit(1, "failed")
     ELSE Exit(0, IF Len(session.results) = Cardinality(Packages)
                  THEN "every implementation agrees" ELSE "run all ten")
  /\ UNCHANGED <<compose, lineEdits>>

HarnessInit ==
  /\ compose = Compose0
  /\ lineEdits = 0
  /\ session = Idle

\* The file is edited and then a command is given; what does not read the
\* edited file is explored on the file as it stands.
HarnessNext ==
  \/ /\ session = Idle
     /\ \/ \E i \in 2..(Len(compose) + 1), line \in NewLines : AddLine(i, line)
        \/ \E i \in DOMAIN compose : DropLine(i)
        \/ Main({"--check"}, <<>>, "ready")
  \/ /\ lineEdits = 0
     /\ \/ \E flags \in SUBSET (KnownFlags \cup {"--unknown"}),
              names \in SeqOf(Packages \cup {OtherName}, Cardinality(Packages)),
              docker \in DockerStates :
             Main(flags, names, docker)
        \/ \E outcome \in {"exit 0", "exit 1", "not started"} : RunSuite(outcome)
        \/ Summarise

-----------------------------------------------------------------------------
(* Properties                                                               *)

CheckPassed == session.said = "check" /\ session.exit = 0

\* What Docker runs from the file: every package and nothing else, from an image
\* pinned by digest, the staged package first and then only lines that are
\* explained or Ok for the package.
DockerRuns(lines, Ok(_, _)) ==
  LET y == Yaml(lines)
  IN  /\ y.names = Packages
      /\ \A p \in Packages :
           /\ <<p, "digest and tag">> \in y.images
           /\ y.scripts[p] # <<>> /\ y.scripts[p][1].text = <<"stage", p>>
           /\ \A i \in 2..Len(y.scripts[p]) :
                y.scripts[p][i].reason = "not-in-ci" \/ Ok(p, y.scripts[p][i].text)

\* A text that stands in the CI job of the package, in its command or not.
InJob(p, text) == \E l \in {Command[p], StepName[p]} : <<text, l>> \in Includes

IsCommand(p, text) == text = Command[p]

\* What Docker runs from a compose.yml that --check accepted is for every package
\* and for nothing else, from an image pinned by digest, the staged package first
\* and then only lines that are explained or stand in the CI job of the same name
\* (docker-test.mjs check, docker/compose.yml rules 2 and 6): two readers that
\* never meet, the checker's and YAML, agree on what was checked.  Of valid YAML,
\* which `docker compose config` judges, and of script lines at one indentation.
DockerRunsChecked ==
  CheckPassed /\ Flat(compose) /\ Yaml(compose).valid => DockerRuns(compose, InJob)

\* "every command still matches the one .github/workflows/ci.yml runs"
\* (docker-test.mjs 27-29): every script line that Docker runs, at whatever
\* indentation, is explained or is the command of the CI job.
HarnessRunsCi ==
  CheckPassed /\ Yaml(compose).valid => DockerRuns(compose, IsCommand)

\* The i-th suite of the run ended with exit status 0.
RanOk(i) ==
  /\ i \in DOMAIN session.results
  /\ session.results[i].name = session.names[i]
  /\ session.results[i].outcome = "exit 0"

\* The status of a run of the suites is 0 exactly when each suite asked for, in
\* whatever order and however often, ran to exit status 0, one that failed or
\* could not be started among them; and a run with no arguments says that every
\* implementation agrees exactly when the suite of every package did
\* (docker-test.mjs 6 and run).
VerdictEarned ==
  session.phase = "done" /\ session.names # <<>> =>
    /\ session.exit = 0 <=> \A i \in DOMAIN session.names : RanOk(i)
    /\ session.given = <<>> =>
         (session.said = "every implementation agrees"
            <=> \A p \in Packages : \E i \in DOMAIN session.names : session.names[i] = p /\ RanOk(i))
=============================================================================
