----------------------------- MODULE GateProofs ------------------------------
(***************************************************************************)
(* The gates of the repository: ScenarioFollowable, NoDefectAccepted,      *)
(* TraceHonest, DockerRunsChecked, VerdictEarned and SupportEarned of      *)
(* GateSpec, proved for any names, key ids, packages, commands and         *)
(* versions and any number of steps and edits.                             *)
(***************************************************************************)
EXTENDS MCGates, FiniteSetTheorems, WellFoundedInduction, TLAPS

gateVars == <<gate, vectorVars, harnessVars, matrixVars>>

\* Every set of naturals with a member has a least one.
LEMMA LeastNatural ==
  ASSUME NEW D \in SUBSET Nat, D # {}
  PROVE  \E m \in D : \A y \in D : m <= y
<1>1. PICK m \in D : \A y \in D : ~ (<<y, m>> \in OpToRel(<, Nat))
  BY NatLessThanWellFounded, WFMin
<1>2. \A y \in D : ~ (y < m)
  BY <1>1 DEF OpToRel
<1> QED BY <1>2

-----------------------------------------------------------------------------
(* The validator and the runner, step by step.                              *)

ScenarioInv ==
  /\ validator.bound \in SUBSET Names
  /\ runner \in [bindings : SUBSET Names, verdict : {"running", "lost", "failed"}]
  /\ ScenarioFollowable

\* A step the validator passes is one the runner can look up.
LEMMA ReferencesFound ==
  ASSUME NEW v, NEW r, NEW s \in Step, ReferencesBound(v, s), r.bindings = v.bound,
         s.peppers \cup ({s.activeKid} \ {None}) \subseteq KnownKids,
         s.op = "reconfigure" => s.activeKid \in s.peppers
  PROVE  ~ Lost(r, s)
  BY DEF ReferencesBound, Lost

LEMMA ScenarioStep ==
  ASSUME ScenarioInv, NEW s \in Step, NEW asExpected, AppendStep(s, asExpected)
  PROVE  ScenarioInv'
<1>1. validator' = Validate(validator, s) /\ runner' = Execute(runner, s, asExpected)
  BY DEF AppendStep
<1>2. s.bind # None => s.bind \in Names
  BY DEF Step, OptNames
<1>3. validator'.bound \in SUBSET Names
  BY <1>1, <1>2 DEF ScenarioInv, Validate
<1>4. runner' \in [bindings : SUBSET Names, verdict : {"running", "lost", "failed"}]
  BY <1>1, <1>2 DEF ScenarioInv, Execute
<1>5. ASSUME validator'.clean
      PROVE  /\ validator.clean /\ ReferencesBound(validator, s)
             /\ s.peppers \cup ({s.activeKid} \ {None}) \subseteq KnownKids
             /\ s.op = "reconfigure" => s.activeKid \in s.peppers
  BY <1>1, <1>5 DEF Validate
<1>6. ASSUME validator'.clean
      PROVE  /\ runner'.verdict # "lost"
             /\ runner'.verdict = "running" => runner'.bindings = validator'.bound
  <2>1. /\ runner.verdict # "lost"
        /\ runner.verdict = "running" => runner.bindings = validator.bound
    BY <1>5, <1>6 DEF ScenarioInv, ScenarioFollowable
  <2>2. CASE runner.verdict # "running"
    BY <1>1, <2>1, <2>2 DEF Execute
  <2>3. CASE runner.verdict = "running"
    <3>1. ~ Lost(runner, s)
      BY <1>5, <1>6, <2>1, <2>3, ReferencesFound
    <3> QED BY <1>1, <2>1, <2>3, <3>1 DEF Execute, Validate, ScenarioInv, Succeeds
  <2> QED BY <2>2, <2>3
<1> QED BY <1>3, <1>4, <1>6 DEF ScenarioInv, ScenarioFollowable


-----------------------------------------------------------------------------
(* One run of the suites.                                                   *)

Outcomes == {"exit 0", "exit 1", "not started"}

Result == [name : Packages, ok : BOOLEAN, outcome : Outcomes]

AllPassed(results) == \A i \in DOMAIN results : results[i].outcome = "exit 0"

\* The results so far are those of the first names.
ResultsOK(names, results) ==
  /\ names \in Seq(Packages) /\ results \in Seq(Result)
  /\ Len(results) <= Len(names)
  /\ \A i \in DOMAIN results :
       /\ results[i].name = names[i]
       /\ results[i].ok = (results[i].outcome = "exit 0")

\* How a run ends: with a result for every name, and a verdict over them.
VerdictOK(names, results, exit, said) ==
  /\ Len(results) = Len(names)
  /\ exit = 0 <=> AllPassed(results)
  /\ said = "every implementation agrees" <=> AllPassed(results) /\ Len(results) = Cardinality(Packages)

WordsOK(phase, given, names, results, exit, said) ==
  /\ phase = "idle" => results = <<>> /\ names = <<>>
  /\ phase # "done" => exit = Unset
  /\ names # <<>> /\ given = <<>> => names = SetToSeq(Packages)
  /\ phase = "done" /\ names # <<>> => VerdictOK(names, results, exit, said)

SessionInv ==
  \E phase, given, names, results, exit, said :
    /\ session = [phase |-> phase, given |-> given, names |-> names, results |-> results,
                  exit |-> exit, said |-> said]
    /\ ResultsOK(names, results)
    /\ WordsOK(phase, given, names, results, exit, said)

LEMMA Unsaid == Unset # 0
  BY HarnessAssumption, Zenon

LEMMA SeqFacts ==
  ASSUME NEW S, NEW s \in Seq(S)
  PROVE  Len(s) \in Nat /\ DOMAIN s = 1..Len(s) /\ s \in [1..Len(s) -> S]
  OBVIOUS

LEMMA AppendFacts ==
  ASSUME NEW S, NEW s \in Seq(S), NEW e \in S
  PROVE  /\ Append(s, e) \in Seq(S) /\ Len(Append(s, e)) = Len(s) + 1
         /\ \A i \in DOMAIN Append(s, e) :
              \/ i \in DOMAIN s /\ Append(s, e)[i] = s[i]
              \/ i = Len(s) + 1 /\ Append(s, e)[i] = e
  OBVIOUS

LEMMA NoResults == \A names \in Seq(Packages) : ResultsOK(names, <<>>)
<1>1. DOMAIN <<>> = {} /\ Len(<<>>) = 0 /\ <<>> \in Seq(Result)
  OBVIOUS
<1>2. \A names \in Seq(Packages) : 0 <= Len(names)
  OBVIOUS
<1> QED BY <1>1, <1>2, Zenon DEF ResultsOK

\* SetToSeq(Packages) lists every package once.
LEMMA PackagesOrder ==
  /\ Cardinality(Packages) \in Nat
  /\ SetToSeq(Packages) \in [1..Cardinality(Packages) -> Packages]
  /\ IsInjective(SetToSeq(Packages))
<1>1. Cardinality(Packages) \in Nat /\ ExistsBijection(1..Cardinality(Packages), Packages)
  BY HarnessAssumption, FS_CardinalityType
<1>2. \E f \in [1..Cardinality(Packages) -> Packages] : IsInjective(f)
  BY <1>1 DEF ExistsBijection, Bijection, Injection
<1>3. SetToSeq(Packages) \in [1..Cardinality(Packages) -> Packages] /\ IsInjective(SetToSeq(Packages))
  BY <1>2 DEF SetToSeq
<1> QED BY <1>1, <1>3

LEMMA PackagesSeq == SetToSeq(Packages) \in Seq(Packages)
  BY PackagesOrder

LEMMA PackagesListed == \A p \in Packages : \E i \in 1..Cardinality(Packages) : SetToSeq(Packages)[i] = p
<1>1. PICK n, f : n = Cardinality(Packages) /\ f = SetToSeq(Packages)
  OBVIOUS
<1>2. n \in Nat /\ f \in Injection(1..n, Packages)
  BY <1>1, PackagesOrder, Zenon DEF Injection
<1>3. IsFiniteSet(1..n) /\ Cardinality(1..n) = n
  BY <1>2, FS_Interval
<1>4. f \in Surjection(1..n, Packages)
  BY <1>1, <1>2, <1>3, HarnessAssumption, FS_Injection
<1>5. \A p \in Packages : \E i \in 1..n : f[i] = p
  BY <1>4 DEF Surjection
<1> QED BY <1>1, <1>5, Zenon

LEMMA SessionStart == HarnessInit => SessionInv
<1> SUFFICES ASSUME session = Idle PROVE SessionInv
  BY DEF HarnessInit
<1>1. <<>> \in Seq(Packages) /\ "idle" # "done"
  OBVIOUS
<1>2. ResultsOK(<<>>, <<>>)
  BY <1>1, NoResults, Zenon
<1>3. WordsOK("idle", <<>>, <<>>, <<>>, Unset, Unset)
  BY <1>1, Zenon DEF WordsOK
<1> QED BY <1>2, <1>3, Zenon DEF Idle, SessionInv

\* The record after a run has ended.
LEMMA ExitRecord ==
  ASSUME NEW phase, NEW given, NEW names, NEW results, NEW exit, NEW said, NEW code, NEW words,
         session = [phase |-> phase, given |-> given, names |-> names, results |-> results,
                    exit |-> exit, said |-> said],
         Exit(code, words)
  PROVE  session' = [phase |-> "done", given |-> given, names |-> names, results |-> results,
                     exit |-> code, said |-> words]
  BY DEF Exit

LEMMA ExitIdle ==
  ASSUME SessionInv, session.phase = "idle", NEW code, NEW words, Exit(code, words)
  PROVE  SessionInv'
<1>1. PICK phase, given, names, results, exit, said :
        /\ session = [phase |-> phase, given |-> given, names |-> names, results |-> results,
                      exit |-> exit, said |-> said]
        /\ ResultsOK(names, results)
        /\ WordsOK(phase, given, names, results, exit, said)
  BY DEF SessionInv
<1>2. phase = "idle"
  BY <1>1
<1>3. names = <<>>
  BY <1>1, <1>2, Zenon DEF WordsOK
<1>4. session' = [phase |-> "done", given |-> given, names |-> names, results |-> results,
                  exit |-> code, said |-> words]
  BY <1>1 DEF Exit
<1>5. "done" # "idle"
  OBVIOUS
<1>6. WordsOK("done", given, names, results, code, words)
  BY <1>3, <1>5, Zenon DEF WordsOK
<1> QED BY <1>1, <1>4, <1>6, Zenon DEF SessionInv

LEMMA MainStep ==
  ASSUME SessionInv, NEW flags, NEW docker,
         NEW names \in SeqOf(Packages \cup {OtherName}, Cardinality(Packages)),
         Main(flags, names, docker)
  PROVE  SessionInv'
<1>1. session.phase = "idle"
  BY DEF Main
<1>2. \/ \E code, words : Exit(code, words)
      \/ /\ ~ \E i \in DOMAIN names : names[i] \notin Packages
         /\ session' = [session EXCEPT !.phase = "running", !.given = names,
                          !.names = IF names = <<>> THEN SetToSeq(Packages) ELSE names]
  BY Zenon DEF Main
<1>3. CASE \E code, words : Exit(code, words)
  BY <1>1, <1>3, ExitIdle
<1>4. CASE /\ ~ \E i \in DOMAIN names : names[i] \notin Packages
           /\ session' = [session EXCEPT !.phase = "running", !.given = names,
                            !.names = IF names = <<>> THEN SetToSeq(Packages) ELSE names]
  <2>1. PICK m \in Nat : names \in [1..m -> Packages \cup {OtherName}]
    <3>1. Cardinality(Packages) \in Nat
      BY HarnessAssumption, FS_CardinalityType
    <3> QED BY <3>1 DEF SeqOf
  <2>2. names \in Seq(Packages)
    BY <1>4, <2>1
  <2>3. PICK l \in Seq(Packages) :
          /\ session' = [session EXCEPT !.phase = "running", !.given = names, !.names = l]
          /\ names = <<>> => l = SetToSeq(Packages)
    BY <1>4, <2>2, PackagesSeq
  <2>4. PICK phase, given, old, results, exit, said :
          /\ session = [phase |-> phase, given |-> given, names |-> old, results |-> results,
                        exit |-> exit, said |-> said]
          /\ ResultsOK(old, results)
          /\ WordsOK(phase, given, old, results, exit, said)
    BY DEF SessionInv
  <2>5. phase = "idle"
    BY <1>1, <2>4
  <2>6. "idle" # "done" /\ "running" # "idle" /\ "running" # "done"
    OBVIOUS
  <2>7. results = <<>> /\ exit = Unset
    BY <2>4, <2>5, <2>6, Zenon DEF WordsOK
  <2>8. session' = [phase |-> "running", given |-> names, names |-> l, results |-> results,
                    exit |-> exit, said |-> said]
    BY <2>3, <2>4
  <2>9. ResultsOK(l, results) /\ WordsOK("running", names, l, results, exit, said)
    BY <2>3, <2>7, <2>6, NoResults, Zenon DEF WordsOK
  <2> QED BY <2>8, <2>9, Zenon DEF SessionInv
<1> QED BY <1>2, <1>3, <1>4, Zenon

\* One more result, for the next name.
LEMMA OneMore ==
  ASSUME NEW names, NEW results, ResultsOK(names, results), Len(results) < Len(names),
         NEW outcome \in Outcomes, NEW e,
         e = [name |-> names[Len(results) + 1], ok |-> SuitePassed(outcome), outcome |-> outcome]
  PROVE  ResultsOK(names, Append(results, e))
<1>1. names \in Seq(Packages) /\ results \in Seq(Result)
  BY DEF ResultsOK
<1>2. PICK n \in Nat : n = Len(results) /\ n + 1 \in 1..Len(names) /\ Len(names) \in Nat
  BY <1>1
<1>3. names[n + 1] \in Packages
  BY <1>1, <1>2
<1>4. e \in Result /\ e.name = names[n + 1] /\ e.ok = (e.outcome = "exit 0")
  BY <1>2, <1>3 DEF Result, SuitePassed
<1>5. Append(results, e) \in Seq(Result) /\ Len(Append(results, e)) = n + 1
  BY <1>1, <1>2, <1>4, AppendFacts, Zenon
<1>6. \A i \in DOMAIN Append(results, e) :
        \/ i \in DOMAIN results /\ Append(results, e)[i] = results[i]
        \/ i = n + 1 /\ Append(results, e)[i] = e
  BY <1>1, <1>2, <1>4, AppendFacts, Zenon
<1>7. Len(Append(results, e)) <= Len(names)
  BY <1>2, <1>5
<1>8. \A i \in DOMAIN Append(results, e) :
        /\ Append(results, e)[i].name = names[i]
        /\ Append(results, e)[i].ok = (Append(results, e)[i].outcome = "exit 0")
  BY <1>4, <1>6, Zenon DEF ResultsOK
<1> QED BY <1>1, <1>5, <1>7, <1>8, Zenon DEF ResultsOK

LEMMA SuiteStep ==
  ASSUME SessionInv, NEW outcome \in Outcomes, RunSuite(outcome)
  PROVE  SessionInv'
<1>1. PICK phase, given, names, results, exit, said :
        /\ session = [phase |-> phase, given |-> given, names |-> names, results |-> results,
                      exit |-> exit, said |-> said]
        /\ ResultsOK(names, results)
        /\ WordsOK(phase, given, names, results, exit, said)
  BY DEF SessionInv
<1>2. phase = "running" /\ Len(results) < Len(names)
  BY <1>1 DEF RunSuite
<1>3. PICK e : e = [name |-> names[Len(results) + 1], ok |-> SuitePassed(outcome), outcome |-> outcome]
  OBVIOUS
<1>4. session' = [phase |-> phase, given |-> given, names |-> names, results |-> Append(results, e),
                  exit |-> exit, said |-> said]
  BY <1>1, <1>3 DEF RunSuite
<1>5. ResultsOK(names, Append(results, e))
  BY <1>1, <1>2, <1>3, OneMore, Zenon
<1>6. "running" # "idle" /\ "running" # "done"
  OBVIOUS
<1>7. WordsOK(phase, given, names, Append(results, e), exit, said)
  BY <1>1, <1>2, <1>6, Zenon DEF WordsOK
<1> QED BY <1>4, <1>5, <1>7, Zenon DEF SessionInv

LEMMA SummaryStep ==
  ASSUME SessionInv, Summarise
  PROVE  SessionInv'
<1>1. PICK phase, given, names, results, exit, said :
        /\ session = [phase |-> phase, given |-> given, names |-> names, results |-> results,
                      exit |-> exit, said |-> said]
        /\ ResultsOK(names, results)
        /\ WordsOK(phase, given, names, results, exit, said)
  BY DEF SessionInv
<1>2. session.results = results /\ session.names = names
  BY <1>1
<1>3. Len(results) = Len(names)
  BY <1>2, Zenon DEF Summarise
<1>4. "done" # "idle" /\ 1 # 0 /\ "failed" # "every implementation agrees"
      /\ "run all ten" # "every implementation agrees"
  OBVIOUS
<1>5. AllPassed(results) <=> ~ \E i \in DOMAIN results : ~ results[i].ok
  BY <1>1, Zenon DEF AllPassed, ResultsOK
<1>6. ASSUME NEW code, NEW words, Exit(code, words), VerdictOK(names, results, code, words)
      PROVE  SessionInv'
  <2>1. session' = [phase |-> "done", given |-> given, names |-> names, results |-> results,
                    exit |-> code, said |-> words]
    BY <1>1, <1>6, ExitRecord, Zenon
  <2>2. WordsOK("done", given, names, results, code, words)
    BY <1>1, <1>4, <1>6, Zenon DEF WordsOK
  <2> QED BY <1>1, <2>1, <2>2, Zenon DEF SessionInv
<1>7. CASE ~ AllPassed(results)
  <2>1. Exit(1, "failed")
    BY <1>2, <1>5, <1>7, Zenon DEF Summarise
  <2>2. VerdictOK(names, results, 1, "failed")
    BY <1>3, <1>4, <1>7, Zenon DEF VerdictOK
  <2> QED BY <1>6, <2>1, <2>2, Zenon
<1>8. CASE AllPassed(results)
  <2>1. PICK words : /\ Exit(0, words)
                     /\ words = IF Len(results) = Cardinality(Packages)
                                THEN "every implementation agrees" ELSE "run all ten"
    <3>1. Exit(0, IF Len(results) = Cardinality(Packages)
                  THEN "every implementation agrees" ELSE "run all ten")
      BY <1>2, <1>5, <1>8, Zenon DEF Summarise
    <3> QED BY <3>1, Zenon
  <2>2. words = "every implementation agrees" <=> Len(results) = Cardinality(Packages)
    BY <1>4, <2>1, Zenon
  <2>3. VerdictOK(names, results, 0, words)
    BY <1>3, <1>8, <2>2, Zenon DEF VerdictOK
  <2> QED BY <1>6, <2>1, <2>3, Zenon
<1> QED BY <1>7, <1>8

LEMMA HarnessStep == SessionInv /\ HarnessNext => SessionInv'
<1> SUFFICES ASSUME SessionInv, HarnessNext PROVE SessionInv'
  OBVIOUS
<1>1. ASSUME UNCHANGED session PROVE SessionInv'
  BY <1>1 DEF SessionInv
<1>2. <<>> \in SeqOf(Packages \cup {OtherName}, Cardinality(Packages))
  <2>1. Cardinality(Packages) \in Nat
    BY HarnessAssumption, FS_CardinalityType
  <2>2. <<>> \in [1..0 -> Packages \cup {OtherName}]
    OBVIOUS
  <2> QED BY <2>1, <2>2 DEF SeqOf
<1>4. CASE \E i \in 2..(Len(compose) + 1), line \in NewLines : AddLine(i, line)
  BY <1>1, <1>4 DEF AddLine
<1>5. CASE \E i \in DOMAIN compose : DropLine(i)
  BY <1>1, <1>5 DEF DropLine
<1>6. CASE Main({"--check"}, <<>>, "ready")
  BY <1>2, <1>6, MainStep, Zenon
<1>7. CASE \E flags \in SUBSET (KnownFlags \cup {"--unknown"}),
              names \in SeqOf(Packages \cup {OtherName}, Cardinality(Packages)),
              docker \in DockerStates : Main(flags, names, docker)
  BY <1>7, MainStep, Zenon
<1>8. CASE \E outcome \in {"exit 0", "exit 1", "not started"} : RunSuite(outcome)
  BY <1>8, SuiteStep, Zenon DEF Outcomes
<1>9. CASE Summarise
  BY <1>9, SummaryStep
<1> QED BY <1>4, <1>5, <1>6, <1>7, <1>8, <1>9, Zenon DEF HarnessNext

\* With no arguments the names are the packages, each once: as many results as
\* packages are all of them, and all of them are as many results.
LEMMA Verdict == SessionInv => VerdictEarned
<1> SUFFICES ASSUME NEW phase, NEW given, NEW names, NEW results, NEW exit, NEW said,
                    session = [phase |-> phase, given |-> given, names |-> names,
                               results |-> results, exit |-> exit, said |-> said],
                    ResultsOK(names, results), WordsOK(phase, given, names, results, exit, said),
                    phase = "done", names # <<>>
             PROVE  /\ session.exit = 0 <=> \A i \in DOMAIN session.names : RanOk(i)
                    /\ session.given = <<>> =>
                         (session.said = "every implementation agrees" <=>
                            \A p \in Packages : \E i \in DOMAIN session.names :
                               session.names[i] = p /\ RanOk(i))
  <2> SUFFICES ASSUME SessionInv, session.phase = "done", session.names # <<>>
               PROVE  /\ session.exit = 0 <=> \A i \in DOMAIN session.names : RanOk(i)
                      /\ session.given = <<>> =>
                           (session.said = "every implementation agrees" <=>
                              \A p \in Packages : \E i \in DOMAIN session.names :
                                 session.names[i] = p /\ RanOk(i))
    BY Zenon DEF VerdictEarned
  <2>1. PICK phase, given, names, results, exit, said :
          /\ session = [phase |-> phase, given |-> given, names |-> names, results |-> results,
                        exit |-> exit, said |-> said]
          /\ ResultsOK(names, results)
          /\ WordsOK(phase, given, names, results, exit, said)
    BY Zenon DEF SessionInv
  <2>2. phase = "done" /\ names # <<>>
    BY <2>1
  <2> QED BY <2>1, <2>2, Zenon
<1>1. /\ session.said = said /\ session.names = names /\ session.given = given
      /\ session.results = results /\ session.exit = exit
  OBVIOUS
<1>2. VerdictOK(names, results, exit, said) /\ (given = <<>> => names = SetToSeq(Packages))
  BY Zenon DEF WordsOK
<1>3. PICK n \in Nat : /\ n = Len(names) /\ n = Len(results) /\ DOMAIN names = 1..n
                       /\ DOMAIN results = 1..n
  <2>1. names \in Seq(Packages) /\ results \in Seq(Result) /\ Len(results) = Len(names)
    BY <1>2, Zenon DEF ResultsOK, VerdictOK
  <2> QED BY <2>1, SeqFacts, Zenon
<1>4. \A i \in 1..n : RanOk(i) <=> results[i].outcome = "exit 0"
  BY <1>1, <1>3, Zenon DEF RanOk, ResultsOK
<1>5. AllPassed(results) <=> \A i \in 1..n : RanOk(i)
  BY <1>3, <1>4, Zenon DEF AllPassed
<1>6. exit = 0 <=> \A i \in 1..n : RanOk(i)
  BY <1>2, <1>5, Zenon DEF VerdictOK
<1>7. ASSUME given = <<>>
      PROVE  said = "every implementation agrees" <=>
               \A p \in Packages : \E i \in 1..n : names[i] = p /\ RanOk(i)
  <2>1. names = SetToSeq(Packages)
    BY <1>2, <1>7
  <2>2. DOMAIN names = 1..Cardinality(Packages) /\ Cardinality(Packages) \in Nat
    BY <2>1, PackagesOrder
  <2>3. n = Cardinality(Packages)
    <3>1. names \in Seq(Packages)
      BY Zenon DEF ResultsOK
    <3> QED BY <1>3, <2>2, <3>1
  <2>4. said = "every implementation agrees" <=> \A i \in 1..n : RanOk(i)
    BY <1>2, <1>3, <1>5, <2>3, Zenon DEF VerdictOK
  <2>5. \A p \in Packages : \E i \in 1..n : names[i] = p
    BY <2>1, <2>3, PackagesListed, Zenon
  <2>6. \A i, j \in 1..n : names[i] = names[j] => i = j
    BY <1>3, <2>1, PackagesOrder, Zenon DEF IsInjective
  <2>7. \A j \in 1..n : names[j] \in Packages
    BY <2>1, <2>3, PackagesOrder
  <2> QED BY <2>4, <2>5, <2>6, <2>7, Zenon
<1> QED BY <1>1, <1>3, <1>6, <1>7, Zenon


-----------------------------------------------------------------------------
(* Reading a file line by line: Pass, step by step.                         *)

Ci0 == [in |-> FALSE, cur |-> Unset, jobs |-> {}, lines |-> {}]

LEMMA ParsePass ==
  ASSUME NEW lines, NEW len \in Nat, len = Len(lines)
  PROVE  \E after : /\ after[0] = Parse0
                    /\ \A i \in 1..len : after[i] = ParseLine(after[i - 1], lines[i])
                    /\ Pass(ParseLine, Parse0, lines) = after[len]
<1> DEFINE Is(f, n) == f = [i \in 0..n |-> IF i = 0 THEN Parse0 ELSE ParseLine(f[i - 1], lines[i])]
           D == {n \in Nat : ~ \E f : Is(f, n)}
<1>1. D = {}
  <2> SUFFICES ASSUME D # {} PROVE FALSE
    OBVIOUS
  <2>1. PICK m \in D : \A y \in D : m <= y
    BY LeastNatural
  <2>2. ASSUME m = 0 PROVE FALSE
    <3>1. Is([i \in 0..0 |-> Parse0], 0)
      OBVIOUS
    <3>2. Is([i \in 0..0 |-> Parse0], m)
      BY <3>1, <2>2, Zenon
    <3> QED BY <3>2, <2>1, Zenon
  <2>3. m \in Nat /\ m - 1 \in Nat /\ m - 1 \notin D
    <3>1. m \in Nat /\ m # 0
      BY <2>2
    <3> HIDE DEF D
    <3> QED BY <3>1, <2>1
  <2>4. PICK f : Is(f, m - 1)
    BY <2>3
  <2> DEFINE g == [i \in 0..m |-> IF i = m THEN ParseLine(f[m - 1], lines[m]) ELSE f[i]]
  <2>5. Is(g, m)
    <3>1. ASSUME NEW i \in 0..m
          PROVE  g[i] = IF i = 0 THEN Parse0 ELSE ParseLine(g[i - 1], lines[i])
      <4>1. CASE i = m
        BY <4>1, <2>2, <2>3
      <4>2. CASE i # m
        <5>1. i \in 0..(m - 1) /\ g[i] = f[i]
          BY <4>2, <2>3
        <5>2. i # 0 => i - 1 \in 0..m /\ i - 1 # m /\ g[i - 1] = f[i - 1]
          BY <5>1, <2>3
        <5> QED BY <5>1, <5>2, <2>4, Zenon
      <4> QED BY <4>1, <4>2
    <3> QED BY <3>1, Zenon
  <2> QED BY <2>1, <2>5
<1>2. \E h : Is(h, len)
  BY <1>1
<1> DEFINE after == CHOOSE h : Is(h, len)
<1>3. Is(after, len)
  BY <1>2, Zenon
<1>4. Pass(ParseLine, Parse0, lines) = after[len]
  BY DEF Pass
<1> HIDE DEF after
<1>5. after[0] = Parse0 /\ \A i \in 1..len : after[i] = ParseLine(after[i - 1], lines[i])
  BY <1>3
<1> QED BY <1>4, <1>5

LEMMA YamlPass ==
  ASSUME NEW lines, NEW len \in Nat, len = Len(lines)
  PROVE  \E after : /\ after[0] = Yaml0
                    /\ \A i \in 1..len : after[i] = YamlLine(after[i - 1], lines[i])
                    /\ Pass(YamlLine, Yaml0, lines) = after[len]
<1> DEFINE Is(f, n) == f = [i \in 0..n |-> IF i = 0 THEN Yaml0 ELSE YamlLine(f[i - 1], lines[i])]
           D == {n \in Nat : ~ \E f : Is(f, n)}
<1>1. D = {}
  <2> SUFFICES ASSUME D # {} PROVE FALSE
    OBVIOUS
  <2>1. PICK m \in D : \A y \in D : m <= y
    BY LeastNatural
  <2>2. ASSUME m = 0 PROVE FALSE
    <3>1. Is([i \in 0..0 |-> Yaml0], 0)
      OBVIOUS
    <3>2. Is([i \in 0..0 |-> Yaml0], m)
      BY <3>1, <2>2, Zenon
    <3> QED BY <3>2, <2>1, Zenon
  <2>3. m \in Nat /\ m - 1 \in Nat /\ m - 1 \notin D
    <3>1. m \in Nat /\ m # 0
      BY <2>2
    <3> HIDE DEF D
    <3> QED BY <3>1, <2>1
  <2>4. PICK f : Is(f, m - 1)
    BY <2>3
  <2> DEFINE g == [i \in 0..m |-> IF i = m THEN YamlLine(f[m - 1], lines[m]) ELSE f[i]]
  <2>5. Is(g, m)
    <3>1. ASSUME NEW i \in 0..m
          PROVE  g[i] = IF i = 0 THEN Yaml0 ELSE YamlLine(g[i - 1], lines[i])
      <4>1. CASE i = m
        BY <4>1, <2>2, <2>3
      <4>2. CASE i # m
        <5>1. i \in 0..(m - 1) /\ g[i] = f[i]
          BY <4>2, <2>3
        <5>2. i # 0 => i - 1 \in 0..m /\ i - 1 # m /\ g[i - 1] = f[i - 1]
          BY <5>1, <2>3
        <5> QED BY <5>1, <5>2, <2>4, Zenon
      <4> QED BY <4>1, <4>2
    <3> QED BY <3>1, Zenon
  <2> QED BY <2>1, <2>5
<1>2. \E h : Is(h, len)
  BY <1>1
<1> DEFINE after == CHOOSE h : Is(h, len)
<1>3. Is(after, len)
  BY <1>2, Zenon
<1>4. Pass(YamlLine, Yaml0, lines) = after[len]
  BY DEF Pass
<1> HIDE DEF after
<1>5. after[0] = Yaml0 /\ \A i \in 1..len : after[i] = YamlLine(after[i - 1], lines[i])
  BY <1>3
<1> QED BY <1>4, <1>5

LEMMA CiPass ==
  ASSUME NEW lines, NEW len \in Nat, len = Len(lines)
  PROVE  \E after : /\ after[0] = Ci0
                    /\ \A i \in 1..len : after[i] = CiLine(after[i - 1], lines[i])
                    /\ Pass(CiLine, Ci0, lines) = after[len]
<1> DEFINE Is(f, n) == f = [i \in 0..n |-> IF i = 0 THEN Ci0 ELSE CiLine(f[i - 1], lines[i])]
           D == {n \in Nat : ~ \E f : Is(f, n)}
<1>1. D = {}
  <2> SUFFICES ASSUME D # {} PROVE FALSE
    OBVIOUS
  <2>1. PICK m \in D : \A y \in D : m <= y
    BY LeastNatural
  <2>2. ASSUME m = 0 PROVE FALSE
    <3>1. Is([i \in 0..0 |-> Ci0], 0)
      OBVIOUS
    <3>2. Is([i \in 0..0 |-> Ci0], m)
      BY <3>1, <2>2, Zenon
    <3> QED BY <3>2, <2>1, Zenon
  <2>3. m \in Nat /\ m - 1 \in Nat /\ m - 1 \notin D
    <3>1. m \in Nat /\ m # 0
      BY <2>2
    <3> HIDE DEF D
    <3> QED BY <3>1, <2>1
  <2>4. PICK f : Is(f, m - 1)
    BY <2>3
  <2> DEFINE g == [i \in 0..m |-> IF i = m THEN CiLine(f[m - 1], lines[m]) ELSE f[i]]
  <2>5. Is(g, m)
    <3>1. ASSUME NEW i \in 0..m
          PROVE  g[i] = IF i = 0 THEN Ci0 ELSE CiLine(g[i - 1], lines[i])
      <4>1. CASE i = m
        BY <4>1, <2>2, <2>3
      <4>2. CASE i # m
        <5>1. i \in 0..(m - 1) /\ g[i] = f[i]
          BY <4>2, <2>3
        <5>2. i # 0 => i - 1 \in 0..m /\ i - 1 # m /\ g[i - 1] = f[i - 1]
          BY <5>1, <2>3
        <5> QED BY <5>1, <5>2, <2>4, Zenon
      <4> QED BY <4>1, <4>2
    <3> QED BY <3>1, Zenon
  <2> QED BY <2>1, <2>5
<1>2. \E h : Is(h, len)
  BY <1>1
<1> DEFINE after == CHOOSE h : Is(h, len)
<1>3. Is(after, len)
  BY <1>2, Zenon
<1>4. Pass(CiLine, Ci0, lines) = after[len]
  BY DEF Pass
<1> HIDE DEF after
<1>5. after[0] = Ci0 /\ \A i \in 1..len : after[i] = CiLine(after[i - 1], lines[i])
  BY <1>3
<1> QED BY <1>4, <1>5

-----------------------------------------------------------------------------
(* FlattenSeq, and what stays true of a concatenation.                      *)

LEMMA FlattenSteps ==
  ASSUME NEW seqs, NEW len \in Nat, len = Len(seqs), len # 0
  PROVE  \E flat : /\ flat[1] = seqs[1]
                   /\ \A i \in 2..len : flat[i] = flat[i - 1] \o seqs[i]
                   /\ FlattenSeq(seqs) = flat[len]
<1> DEFINE Is(f, n) == f = [i \in 1..n |-> IF i = 1 THEN seqs[i] ELSE f[i - 1] \o seqs[i]]
           D == {n \in Nat : ~ \E f : Is(f, n)}
<1>1. D = {}
  <2> SUFFICES ASSUME D # {} PROVE FALSE
    OBVIOUS
  <2>1. PICK m \in D : \A y \in D : m <= y
    BY LeastNatural
  <2>2. ASSUME m = 0 PROVE FALSE
    <3>1. Is([i \in 1..0 |-> seqs[i]], 0)
      OBVIOUS
    <3>2. Is([i \in 1..0 |-> seqs[i]], m)
      BY <3>1, <2>2, Zenon
    <3> QED BY <3>2, <2>1, Zenon
  <2>3. m \in Nat /\ m # 0 /\ m - 1 \in Nat /\ m - 1 \notin D
    <3>1. m \in Nat /\ m # 0
      BY <2>2
    <3> HIDE DEF D
    <3> QED BY <3>1, <2>1
  <2>4. PICK f : Is(f, m - 1)
    BY <2>3
  <2> DEFINE g == [i \in 1..m |-> IF i # m THEN f[i] ELSE IF m = 1 THEN seqs[1]
                                  ELSE f[m - 1] \o seqs[m]]
  <2>5. Is(g, m)
    <3>1. ASSUME NEW i \in 1..m
          PROVE  g[i] = IF i = 1 THEN seqs[i] ELSE g[i - 1] \o seqs[i]
      <4>1. CASE i = m
        <5>1. m # 1 => m - 1 \in 1..m /\ m - 1 # m /\ g[m - 1] = f[m - 1]
          BY <2>3
        <5> QED BY <4>1, <5>1, Zenon
      <4>2. CASE i # m
        <5>1. i \in 1..(m - 1) /\ g[i] = f[i]
          BY <4>2, <2>3
        <5>2. i # 1 => i - 1 \in 1..m /\ i - 1 # m /\ g[i - 1] = f[i - 1]
          BY <5>1, <2>3
        <5> QED BY <5>1, <5>2, <2>4, Zenon
      <4> QED BY <4>1, <4>2
    <3> QED BY <3>1, Zenon
  <2> QED BY <2>1, <2>5
<1>2. \E h : Is(h, len)
  <2>1. len \notin D
    <3> HIDE DEF D
    <3> QED BY <1>1
  <2> HIDE DEF Is
  <2> QED BY <2>1, Zenon
<1> DEFINE flat == CHOOSE h : Is(h, len)
<1>3. Is(flat, len)
  BY <1>2, Zenon
<1>4. FlattenSeq(seqs) = flat[len]
  BY DEF FlattenSeq
<1> HIDE DEF flat
<1>5. 1 \in 1..len /\ \A i \in 2..len : i \in 1..len /\ i # 1
  OBVIOUS
<1>6. \A i \in 1..len : flat[i] = IF i = 1 THEN seqs[i] ELSE flat[i - 1] \o seqs[i]
  BY <1>3, Zenon
<1>7. flat[1] = seqs[1] /\ \A i \in 2..len : flat[i] = flat[i - 1] \o seqs[i]
  BY <1>5, <1>6, Zenon
<1> QED BY <1>4, <1>7

\* A set of sequences closed under concatenation holds the flattening too.
LEMMA FlattenClosed ==
  ASSUME NEW T, <<>> \in T, \A s, t \in T : s \o t \in T,
         NEW n \in Nat, NEW seqs \in [1..n -> T]
  PROVE  FlattenSeq(seqs) \in T
<1>1. Len(seqs) = n
  OBVIOUS
<1>2. CASE n = 0
  <2>1. FlattenSeq(seqs) = seqs /\ seqs = <<>>
    BY <1>1, <1>2 DEF FlattenSeq
  <2> QED BY <2>1
<1>3. CASE n # 0
  <2>1. PICK flat : /\ flat[1] = seqs[1]
                    /\ \A i \in 2..n : flat[i] = flat[i - 1] \o seqs[i]
                    /\ FlattenSeq(seqs) = flat[n]
    BY <1>1, <1>3, FlattenSteps
  <2> DEFINE D == {i \in Nat : i \in 1..n /\ flat[i] \notin T}
  <2>2. ASSUME D # {} PROVE FALSE
    <3>1. PICK m \in D : \A y \in D : m <= y
      BY <2>2, LeastNatural
    <3>2. m \in 1..n /\ flat[m] \notin T
      OBVIOUS
    <3>3. m # 1
      BY <2>1, <3>2
    <3>4. m - 1 \in 1..n /\ m \in 2..n /\ ~ (m <= m - 1)
      BY <3>2, <3>3
    <3>5. flat[m - 1] \in T
      BY <3>1, <3>4
    <3> QED BY <2>1, <3>2, <3>4, <3>5
  <2> QED BY <1>3, <2>1, <2>2
<1> QED BY <1>2, <1>3

-----------------------------------------------------------------------------
(* ciJobs: the lines of a package's job are its step's name and command.     *)

CiSet == {Line("top", Unset), Line("jobs", Unset), Line("job", "gates"), Line("run", SharedCommand),
          Line("comment", SharedCommand)}
           \cup {Line("job", p) : p \in Packages} \cup {Line("name", StepName[p]) : p \in Packages}
           \cup {Line("run", Command[p]) : p \in Packages}

\* A command stands right under the head of the job of no package; the lines
\* of a package's job stand one, two and three lines under its head.
UnderHead(s, x) ==
  /\ s[x].kind = "name" =>
       /\ x > 1 /\ s[x - 1].kind = "job" /\ s[x - 1].v \in Packages
       /\ s[x].v = StepName[s[x - 1].v]
  /\ s[x].kind = "comment" => x > 2 /\ s[x - 1].kind = "name"
  /\ s[x].kind = "run" =>
       \/ x > 1 /\ s[x - 1].kind = "job" /\ s[x - 1].v = "gates"
       \/ /\ x > 3 /\ s[x - 1].kind = "comment" /\ s[x - 3].v \in Packages
          /\ s[x].v = Command[s[x - 3].v]

JobLines == {s \in Seq(CiSet) : \A x \in 1..Len(s) : UnderHead(s, x)}

LEMMA JobLinesJoin == <<>> \in JobLines /\ \A s, t \in JobLines : s \o t \in JobLines
<1>1. <<>> \in JobLines
  BY DEF JobLines
<1>2. ASSUME NEW s \in JobLines, NEW t \in JobLines PROVE s \o t \in JobLines
  <2>1. s \in Seq(CiSet) /\ t \in Seq(CiSet) /\ Len(s) \in Nat /\ Len(t) \in Nat
    BY DEF JobLines
  <2> DEFINE u == s \o t
  <2>2. u \in Seq(CiSet) /\ Len(u) = Len(s) + Len(t)
    BY <2>1
  <2>3. \A x \in 1..Len(s) : u[x] = s[x]
    BY <2>1
  <2>4. \A x \in 1..Len(t) : u[Len(s) + x] = t[x]
    BY <2>1
  <2> HIDE DEF u
  <2>5. ASSUME NEW x \in 1..Len(u) PROVE UnderHead(u, x)
    <3>1. CASE x <= Len(s)
      <4>1. x \in 1..Len(s) /\ u[x] = s[x]
        BY <3>1, <2>1, <2>2, <2>3
      <4>2. (x > 1 => u[x - 1] = s[x - 1]) /\ (x > 2 => x > 1) /\ (x > 3 => x > 1)
        BY <4>1, <2>1, <2>3
      <4>3. x > 3 => u[x - 3] = s[x - 3]
        BY <4>1, <2>1, <2>3
      <4>4. UnderHead(s, x)
        BY <4>1 DEF JobLines
      <4>5. u[x].kind = "name" => /\ x > 1 /\ u[x - 1].kind = "job" /\ u[x - 1].v \in Packages
                                  /\ u[x].v = StepName[u[x - 1].v]
        BY <4>1, <4>2, <4>4, Zenon DEF UnderHead
      <4>6. u[x].kind = "comment" => x > 2 /\ u[x - 1].kind = "name"
        BY <4>1, <4>2, <4>4, Zenon DEF UnderHead
      <4>7. u[x].kind = "run" =>
              \/ x > 1 /\ u[x - 1].kind = "job" /\ u[x - 1].v = "gates"
              \/ /\ x > 3 /\ u[x - 1].kind = "comment" /\ u[x - 3].v \in Packages
                 /\ u[x].v = Command[u[x - 3].v]
        BY <4>1, <4>2, <4>3, <4>4, Zenon DEF UnderHead
      <4> QED BY <4>5, <4>6, <4>7, Zenon DEF UnderHead
    <3>2. CASE ~ (x <= Len(s))
      <4> DEFINE y == x - Len(s)
      <4>1. y \in 1..Len(t) /\ u[x] = t[y]
        <5>1. y \in 1..Len(t) /\ x = Len(s) + y
          BY <3>2, <2>1, <2>2
        <5> HIDE DEF y
        <5> QED BY <5>1, <2>4
      <4>2. y > 1 => x > 1 /\ u[x - 1] = t[y - 1]
        <5>1. x \in Int /\ y \in 1..Len(t) /\ Len(s) \in Nat /\ Len(t) \in Nat
          BY <4>1, <2>1, <2>2
        <5>2. y > 1 => y - 1 \in 1..Len(t) /\ x - 1 = Len(s) + (y - 1) /\ x > 1
          BY <5>1
        <5> QED BY <5>2, <2>4
      <4>3. (y > 2 => x > 2 /\ y > 1) /\ (y > 3 => x > 3 /\ y > 1 /\ u[x - 3] = t[y - 3])
        <5>1. y > 3 => y - 3 \in 1..Len(t) /\ x - 3 = Len(s) + (y - 3) /\ x > 3
          BY <4>1, <2>1, <2>2
        <5>2. (y > 2 => x > 2 /\ y > 1) /\ (y > 3 => y > 1)
          BY <4>1, <2>1, <2>2
        <5> QED BY <5>1, <5>2, <2>4
      <4> HIDE DEF y
      <4>4. UnderHead(t, y)
        BY <4>1 DEF JobLines
      <4> QED BY <4>1, <4>2, <4>3, <4>4, Zenon DEF UnderHead
    <3> QED BY <3>1, <3>2
  <2> QED BY <2>2, <2>5 DEF JobLines, u
<1> QED BY <1>1, <1>2

LEMMA CiShape == CiLines \in JobLines
<1>1. Cardinality(Packages) \in Nat /\ SetToSeq(Packages) \in [1..Cardinality(Packages) -> Packages]
  BY PackagesOrder
<1> DEFINE head == << Line("top", Unset), Line("jobs", Unset), Line("job", "gates"),
                      Line("run", SharedCommand) >>
           job(p) == << Line("job", p), Line("name", StepName[p]), Line("comment", SharedCommand),
                        Line("run", Command[p]) >>
           jobs == [i \in 1..Cardinality(Packages) |-> job(SetToSeq(Packages)[i])]
<1>2. head \in JobLines
  <2>1. head \in Seq(CiSet) /\ Len(head) = 4
    BY DEF CiSet
  <2>2. head[3].kind = "job" /\ head[3].v = "gates"
    BY DEF Line
  <2>3. /\ head[1].kind \notin {"run", "comment", "name"} /\ head[2].kind \notin {"run", "comment", "name"}
        /\ head[3].kind \notin {"run", "comment", "name"} /\ head[4].kind \notin {"comment", "name"}
    BY DEF Line
  <2> HIDE DEF head
  <2>4. UnderHead(head, 1) /\ UnderHead(head, 2) /\ UnderHead(head, 3) /\ UnderHead(head, 4)
    BY <2>2, <2>3 DEF UnderHead
  <2>5. \A x \in 1..4 : x = 1 \/ x = 2 \/ x = 3 \/ x = 4
    OBVIOUS
  <2> QED BY <2>1, <2>4, <2>5, Zenon DEF JobLines
<1>3. ASSUME NEW p \in Packages PROVE job(p) \in JobLines
  <2>1. job(p) \in Seq(CiSet) /\ Len(job(p)) = 4
    BY DEF CiSet
  <2>2. job(p)[1].kind = "job" /\ job(p)[1].v = p
    BY DEF Line
  <2>3. /\ job(p)[2].kind = "name" /\ job(p)[2].v = StepName[p] /\ job(p)[3].kind = "comment"
        /\ job(p)[4].kind = "run" /\ job(p)[4].v = Command[p]
    BY DEF Line
  <2> HIDE DEF job
  <2>4. UnderHead(job(p), 1) /\ UnderHead(job(p), 2) /\ UnderHead(job(p), 3) /\ UnderHead(job(p), 4)
    BY <2>2, <2>3 DEF UnderHead
  <2>5. \A x \in 1..4 : x = 1 \/ x = 2 \/ x = 3 \/ x = 4
    OBVIOUS
  <2> QED BY <2>1, <2>4, <2>5, Zenon DEF JobLines
<1>4. jobs \in [1..Cardinality(Packages) -> JobLines]
  <2> HIDE DEF job
  <2> QED BY <1>1, <1>3
<1>5. FlattenSeq(jobs) \in JobLines
  <2> HIDE DEF jobs
  <2> QED BY <1>1, <1>4, JobLinesJoin, FlattenClosed, Zenon
<1>6. CiLines = head \o FlattenSeq(jobs)
  BY Zenon DEF CiLines
<1> HIDE DEF head, jobs
<1> QED BY <1>2, <1>5, <1>6, JobLinesJoin, Zenon

CiVals == {line.v : line \in CiSet} \cup {Unset}

CiReading == [in : BOOLEAN, cur : CiVals, jobs : SUBSET CiVals, lines : SUBSET (CiVals \X CiVals)]

\* What ciJobs knows after x lines of a file shaped like ci.yml.
JobsRead(r, lines, x) ==
  /\ r \in CiReading
  /\ x > 0 /\ lines[x].kind = "job" /\ r.in => r.cur = lines[x].v
  /\ x > 1 /\ lines[x].kind = "name" /\ r.in => r.cur = lines[x - 1].v
  /\ x > 2 /\ lines[x].kind = "comment" /\ r.in => r.cur = lines[x - 2].v
  /\ \A p \in Packages : \A c : <<p, c>> \in r.lines => c \in {Command[p], StepName[p]}

LEMMA JobsReadNext ==
  ASSUME NEW lines \in JobLines, NEW x \in 1..Len(lines), NEW r, JobsRead(r, lines, x - 1)
  PROVE  JobsRead(CiLine(r, lines[x]), lines, x)
<1> DEFINE line == lines[x]
           q == CiLine(r, line)
<1>1. Len(lines) \in Nat /\ x > 0 /\ x \in Nat
  BY DEF JobLines
<1>2. UnderHead(lines, x)
  BY DEF JobLines
<1>3. r \in CiReading /\ \A p \in Packages : \A c : <<p, c>> \in r.lines => c \in {Command[p], StepName[p]}
  BY DEF JobsRead
<1>4. line \in CiSet /\ line.v \in CiVals /\ Unset \in CiVals
  BY DEF JobLines, CiVals
<1>5. /\ line.kind = "name" /\ r.in => r.cur = lines[x - 1].v /\ x > 1
      /\ line.kind = "comment" /\ r.in => r.cur = lines[x - 2].v /\ x > 2
  <2>1. x > 1 => x - 1 > 0
    BY <1>1
  <2>2. x > 2 => x - 1 > 1 /\ (x - 1) - 1 = x - 2
    BY <1>1
  <2> QED BY <1>2, <2>1, <2>2 DEF JobsRead, UnderHead
<1>6. line.kind \notin {"comment", "job", "jobs", "top"} /\ r.in /\ r.cur \in Packages =>
        line.v \in {Command[r.cur], StepName[r.cur]}
  <2>1. "gates" \notin Packages
    BY HarnessAssumption, Zenon
  <2>2. x > 1 /\ lines[x - 1].kind = "job" /\ r.in => r.cur = lines[x - 1].v
    BY <1>1 DEF JobsRead
  <2>3. x > 3 /\ lines[x - 1].kind = "comment" /\ r.in => r.cur = lines[x - 3].v
    <3>1. x > 3 => x - 1 > 2 /\ (x - 1) - 2 = x - 3
      BY <1>1
    <3> QED BY <3>1 DEF JobsRead
  <2>4. line.kind \notin {"comment", "job", "jobs", "top"} => line.kind = "run" \/ line.kind = "name"
    <3> HIDE DEF line
    <3> QED BY <1>4 DEF CiSet, Line
  <2> QED BY <1>2, <2>1, <2>2, <2>3, <2>4 DEF UnderHead
<1>7. line.kind \in {"jobs", "top", "job", "name", "comment", "run"}
  <2> HIDE DEF line
  <2> QED BY <1>4 DEF CiSet, Line
<1> HIDE DEF line
<1>8. q \in CiReading
  <2>1. r \in [in : BOOLEAN, cur : CiVals, jobs : SUBSET CiVals, lines : SUBSET (CiVals \X CiVals)]
    BY <1>3, Zenon DEF CiReading
  <2>2. r.jobs \cup {line.v} \in SUBSET CiVals /\ r.lines \cup {<<r.cur, line.v>>} \in SUBSET (CiVals \X CiVals)
    BY <1>4, <2>1
  <2> DEFINE PairSets == SUBSET (CiVals \X CiVals)
             Sets == SUBSET CiVals
  <2>3. r \in [in : BOOLEAN, cur : CiVals, jobs : Sets, lines : PairSets]
    BY <2>1
  <2>4. r.jobs \cup {line.v} \in Sets /\ r.lines \cup {<<r.cur, line.v>>} \in PairSets
    BY <2>2
  <2> HIDE DEF PairSets, Sets
  <2>5. q \in [in : BOOLEAN, cur : CiVals, jobs : Sets, lines : PairSets]
    BY <1>4, <2>3, <2>4 DEF CiLine
  <2> QED BY <2>5 DEF PairSets, Sets, CiReading
<1>9. q.in => /\ line.kind = "job" => q.cur = line.v
              /\ line.kind = "name" => q.cur = lines[x - 1].v
              /\ line.kind = "comment" => q.cur = lines[x - 2].v
  <2>1. CASE line.kind \in {"job", "name", "comment"}
    BY <2>1, <1>3, <1>4, <1>5 DEF CiReading, CiLine
  <2> QED BY <2>1
<1>10. \A p \in Packages : \A c : <<p, c>> \in q.lines => c \in {Command[p], StepName[p]}
  <2>1. \/ q.lines = r.lines
        \/ /\ line.kind \notin {"comment", "job", "jobs", "top"} /\ r.in
           /\ q.lines = r.lines \cup {<<r.cur, line.v>>}
    BY <1>3, <1>4 DEF CiReading, CiLine
  <2> HIDE DEF q
  <2> QED BY <1>3, <1>6, <2>1
<1> HIDE DEF q
<1>11. JobsRead(q, lines, x)
  BY <1>8, <1>9, <1>10 DEF JobsRead, line
<1> QED BY <1>11 DEF q, line

\* What the check finds in a package's job stands in its command or step name.
LEMMA CiCommands ==
  ASSUME NEW p \in Packages, NEW c, RunByJob(p, c)
  PROVE  InJob(p, c)
<1>1. CiLines \in JobLines /\ Len(CiLines) \in Nat
  BY CiShape DEF JobLines
<1>2. PICK after : /\ after[0] = Ci0
                   /\ \A i \in 1..Len(CiLines) : after[i] = CiLine(after[i - 1], CiLines[i])
                   /\ Pass(CiLine, Ci0, CiLines) = after[Len(CiLines)]
  BY <1>1, CiPass, Zenon
<1> DEFINE D == {x \in Nat : x \in 0..Len(CiLines) /\ ~ JobsRead(after[x], CiLines, x)}
<1>3. ASSUME D # {} PROVE FALSE
  <2>1. PICK m \in D : \A y \in D : m <= y
    BY <1>3, LeastNatural
  <2>2. m \in 0..Len(CiLines) /\ ~ JobsRead(after[m], CiLines, m)
    OBVIOUS
  <2>3. JobsRead(Ci0, CiLines, 0)
    BY DEF JobsRead, Ci0, CiReading, CiVals
  <2>4. m # 0
    BY <1>2, <2>2, <2>3, Zenon
  <2>5. m - 1 \in Nat /\ m - 1 \in 0..Len(CiLines) /\ m \in 1..Len(CiLines) /\ ~ (m <= m - 1)
    BY <1>1, <2>2, <2>4
  <2>6. JobsRead(after[m - 1], CiLines, m - 1)
    BY <2>1, <2>5
  <2> QED BY <1>1, <1>2, <2>2, <2>5, <2>6, JobsReadNext, Zenon
<1>4. JobsRead(after[Len(CiLines)], CiLines, Len(CiLines))
  BY <1>1, <1>3
<1>5. CiJobs = after[Len(CiLines)]
  BY <1>2, Zenon DEF CiJobs, Ci0
<1>6. PICK l \in CiJobs.lines : l[1] = p /\ <<c, l[2]>> \in Includes
  BY DEF RunByJob
<1>7. l = <<p, l[2]>>
  <2>1. CiJobs.lines \in SUBSET (CiVals \X CiVals)
    BY <1>4, <1>5 DEF JobsRead, CiReading
  <2> QED BY <1>6, <2>1
<1>8. l[2] \in {Command[p], StepName[p]}
  BY <1>4, <1>5, <1>6, <1>7 DEF JobsRead
<1> QED BY <1>6, <1>8, Zenon DEF InJob

-----------------------------------------------------------------------------
(* The lines a compose.yml is made of.                                      *)

ServiceNames == Packages \cup {OtherName}

FileLines == NewLines \cup {Line("services", Unset)}
               \cup UNION {{ServiceLines(p)[i] : i \in 1..12} : p \in Packages}

Kinds   == {"services", "top", "service", "note", "image", "floor", "dir", "parity", "key", "item",
            "body", "deep", "blank"}
Reasons == {Unset, "not-in-ci", "under four characters"}

Scripts == {line.script : line \in {l \in FileLines : l.kind = "body"}}
Vals    == {line.v : line \in FileLines} \cup {Unset}
KeyVals == Vals \cup {"image", "floor", "dir", "parity"}

GoodLine(line) ==
  /\ line.kind \in Kinds
  /\ line.kind = "service" => line.v \in ServiceNames
  /\ line.kind = "body" => line.script.reason \in Reasons

LEMMA ScriptReasons ==
  ASSUME NEW c
  PROVE  /\ Plain(c).reason \in Reasons /\ Stage(c).reason \in Reasons
         /\ Explained(c).reason \in Reasons /\ BarelyExplained(c).reason \in Reasons
  BY DEF Plain, Stage, Explained, BarelyExplained, Reasons

LEMMA GoodPlain ==
  ASSUME NEW kind \in Kinds \ {"service", "body"}, NEW v
  PROVE  GoodLine(Line(kind, v))
  BY DEF Line, GoodLine

LEMMA GoodService ==
  ASSUME NEW n \in ServiceNames
  PROVE  GoodLine(Line("service", n))
  BY DEF Line, GoodLine, Kinds

LEMMA GoodBody ==
  ASSUME NEW c, c.reason \in Reasons
  PROVE  GoodLine(ScriptLine("body", c))
  BY DEF ScriptLine, GoodLine, Kinds

LEMMA NewLinesGood == \A line \in NewLines : GoodLine(line)
<1> SUFFICES ASSUME NEW line \in NewLines PROVE GoodLine(line)
  OBVIOUS
<1> USE DEF GoodLine, Kinds
<1>1. CASE \E n \in ServiceNames : line = Line("service", n)
  BY <1>1 DEF Line
<1>2. CASE line \in {Line("image", "tag"), Line("floor", "stale"), Line("parity", "explained"),
          Line("key", "environment"), Line("key", "command"), Line("item", "*work"),
          Line("item", "|"), Line("blank", Unset), Line("note", Unset), Line("top", Unset)}
  BY <1>2 DEF Line
<1>3. CASE \E c : line = ScriptLine("deep", c)
  BY <1>3 DEF ScriptLine
<1>4. CASE \E c : line = ScriptLine("body", c) /\ c.reason \in Reasons
  BY <1>4 DEF ScriptLine
<1>5. \/ \E n \in ServiceNames : line = Line("service", n)
      \/ line \in {Line("image", "tag"), Line("floor", "stale"), Line("parity", "explained"),
          Line("key", "environment"), Line("key", "command"), Line("item", "*work"),
          Line("item", "|"), Line("blank", Unset), Line("note", Unset), Line("top", Unset)}
      \/ \E c : line = ScriptLine("deep", c)
      \/ \E c : line = ScriptLine("body", c) /\ c.reason \in Reasons
  BY ScriptReasons, Zenon DEF NewLines, ServiceNames
<1> QED BY <1>1, <1>2, <1>3, <1>4, <1>5

LEMMA ServiceLinesGood ==
  ASSUME NEW p \in Packages
  PROVE  \A i \in 1..12 : GoodLine(ServiceLines(p)[i])
<1> DEFINE s == ServiceLines(p)
<1>1. /\ s[1] = Line("service", p) /\ s[2] = Line("image", "digest and tag")
      /\ s[3] = Line("floor", "declared") /\ s[4] = Line("dir", p) /\ s[5] = Line("key", "volumes")
      /\ s[6] = Line("item", "*repo") /\ s[7] = Line("key", "tmpfs") /\ s[8] = Line("item", "*work")
      /\ s[9] = Line("key", "command") /\ s[10] = Line("item", "|")
      /\ s[11] = ScriptLine("body", Stage(p)) /\ s[12] = ScriptLine("body", Plain(Command[p]))
  BY DEF ServiceLines
<1> HIDE DEF s
<1>2. \A i \in 1..12 : \/ i = 1 \/ i = 2 \/ i = 3 \/ i = 4 \/ i = 5 \/ i = 6
                       \/ i = 7 \/ i = 8 \/ i = 9 \/ i = 10 \/ i = 11 \/ i = 12
  OBVIOUS
<1>3. \A kind \in {"image", "floor", "dir", "key", "item"} : kind \in Kinds \ {"service", "body"}
  BY DEF Kinds
<1>4. GoodLine(s[1])
  BY <1>1, GoodService, Zenon DEF ServiceNames
<1>5. GoodLine(s[2]) /\ GoodLine(s[3]) /\ GoodLine(s[4])
  BY <1>1, <1>3, GoodPlain, Zenon
<1>6. GoodLine(s[5]) /\ GoodLine(s[6]) /\ GoodLine(s[7])
  BY <1>1, <1>3, GoodPlain, Zenon
<1>7. GoodLine(s[8]) /\ GoodLine(s[9]) /\ GoodLine(s[10])
  BY <1>1, <1>3, GoodPlain, Zenon
<1>8. GoodLine(s[11]) /\ GoodLine(s[12])
  BY <1>1, GoodBody, ScriptReasons, Zenon
<1> QED BY <1>2, <1>4, <1>5, <1>6, <1>7, <1>8, Zenon DEF s

LEMMA FileLinesGood == \A line \in FileLines : GoodLine(line)
<1>1. GoodLine(Line("services", Unset))
  BY DEF Line, GoodLine, Kinds
<1> SUFFICES ASSUME NEW line \in FileLines PROVE GoodLine(line)
  OBVIOUS
<1>2. \/ line \in NewLines \/ line = Line("services", Unset)
      \/ \E p \in Packages : \E i \in 1..12 : line = ServiceLines(p)[i]
  BY DEF FileLines
<1> QED BY <1>1, <1>2, NewLinesGood, ServiceLinesGood, Zenon

\* What the readers may rely on of a line that is no deeper than its script.
LEMMA LineFacts ==
  ASSUME NEW line \in FileLines, line.kind # "deep"
  PROVE  /\ line.kind \in Kinds \ {"deep"}
         /\ line.v \in Vals
         /\ line.kind = "service" => line.v \in ServiceNames
         /\ line.kind = "body" => line.script \in Scripts
  BY FileLinesGood DEF GoodLine, Vals, Scripts

LEMMA ScriptFacts == \A c \in Scripts : c.reason \in Reasons
  BY FileLinesGood DEF Scripts, GoodLine

LEMMA ComposeStart == Compose0 \in Seq(FileLines)
<1> DEFINE T == Seq(FileLines)
           blocks == [i \in 1..Cardinality(Packages) |-> ServiceLines(SetToSeq(Packages)[i])]
<1>1. <<>> \in T /\ \A s, t \in T : s \o t \in T
  OBVIOUS
<1>2. ASSUME NEW p \in Packages PROVE ServiceLines(p) \in T
  <2>1. \A i \in 1..12 : ServiceLines(p)[i] \in FileLines
    BY DEF FileLines
  <2>2. ServiceLines(p) = [i \in 1..12 |-> ServiceLines(p)[i]]
    BY DEF ServiceLines
  <2> QED BY <2>1, <2>2
<1>3. blocks \in [1..Cardinality(Packages) -> T]
  <2> HIDE DEF T
  <2> QED BY <1>2, PackagesOrder
<1>4. FlattenSeq(blocks) \in T
  <2> HIDE DEF blocks, T
  <2> QED BY <1>1, <1>3, PackagesOrder, FlattenClosed, Zenon
<1>5. <<Line("services", Unset)>> \in T
  BY DEF FileLines
<1>6. Compose0 = <<Line("services", Unset)>> \o FlattenSeq(blocks)
  BY Zenon DEF Compose0
<1> HIDE DEF blocks, T
<1>7. Compose0 \in T
  BY <1>1, <1>4, <1>5, <1>6, Zenon
<1> QED BY <1>7 DEF T

LEMMA LineAdded ==
  ASSUME NEW S, NEW s \in Seq(S), NEW i \in 1..(Len(s) + 1), NEW e \in S
  PROVE  InsertAt(s, i, e) \in Seq(S)
<1>1. SubSeq(s, 1, i - 1) \in Seq(S) /\ SubSeq(s, i, Len(s)) \in Seq(S) /\ <<e>> \in Seq(S)
  OBVIOUS
<1> QED BY <1>1 DEF InsertAt

LEMMA LineDropped ==
  ASSUME NEW S, NEW s \in Seq(S), NEW i \in DOMAIN s
  PROVE  RemoveAt(s, i) \in Seq(S)
<1>1. SubSeq(s, 1, i - 1) \in Seq(S) /\ SubSeq(s, i + 1, Len(s)) \in Seq(S)
  OBVIOUS
<1> QED BY <1>1 DEF RemoveAt

-----------------------------------------------------------------------------
(* The two readers in lock step.                                            *)

Service == [name : ServiceNames, image : Vals, floor : Vals, workingDir : Vals, parity : Vals,
            volumes : SUBSET Vals, tmpfs : SUBSET Vals, command : Seq(Scripts)]

Reading == [in : BOOLEAN, section : Vals, collecting : BOOLEAN, cur : BOOLEAN,
            services : Seq(Service)]

Images == (ServiceNames \cup {Unset}) \X Vals

YamlState == [in : BOOLEAN, name : ServiceNames \cup {Unset}, key : KeyVals, scalar : BOOLEAN,
              keys : SUBSET KeyVals, valid : BOOLEAN, names : SUBSET ServiceNames,
              images : SUBSET Images, scripts : [ServiceNames -> Seq(Scripts)]]

\* The services the checker has pushed are the services of the mapping, each
\* once, with its script and its image.
Book(services, names, images, scripts) ==
  /\ names = {services[k].name : k \in DOMAIN services}
  /\ \A j, k \in DOMAIN services : j # k => services[j].name # services[k].name
  /\ \A k \in DOMAIN services : services[k].command = scripts[services[k].name]
  /\ \A n \in ServiceNames \ names : scripts[n] = <<>>
  /\ \A k \in DOMAIN services :
       services[k].image # Unset => <<services[k].name, services[k].image>> \in images

ListKeys == {"volumes", "tmpfs", "command"}

\* Where the checker thinks it stands is where it stands.
Place(r, y) ==
  /\ r.in <=> y.in
  /\ r.cur <=> y.in /\ y.name # Unset
  /\ r.cur => r.services # <<>> /\ r.services[Len(r.services)].name = y.name
  /\ r.section = IF y.key \in ListKeys THEN y.key ELSE Unset
  /\ r.collecting <=> y.scalar /\ y.key = "command"
  /\ y.key # Unset => r.cur
  /\ y.scalar => y.key # Unset
  /\ y.names = {} => y.name = Unset

InStep(r, y) ==
  /\ r \in Reading /\ y \in YamlState
  /\ Book(r.services, y.names, y.images, y.scripts)
  /\ Place(r, y)

LEMMA UnsetNames == Unset \notin ServiceNames /\ Unset \in Vals /\ Unset \in KeyVals
  BY HarnessAssumption, Zenon DEF ServiceNames, Vals, KeyVals

LEMMA UnsetKeys == \A k \in {"image", "floor", "dir", "parity", "volumes", "tmpfs", "command", "environment"} : k # Unset
  BY HarnessAssumption

\* Giving a field of the last service a value.
LEMMA LastSet ==
  ASSUME NEW services \in Seq(Service), services # <<>>, NEW s \in Service,
         NEW t, t = [services EXCEPT ![Len(services)] = s]
  PROVE  /\ t \in Seq(Service) /\ Len(t) = Len(services) /\ t # <<>> /\ DOMAIN t = DOMAIN services
         /\ Len(services) \in DOMAIN services /\ DOMAIN services = 1..Len(services)
         /\ t[Len(services)] = s
         /\ \A k \in DOMAIN services : k # Len(services) => t[k] = services[k]
<1>1. Len(services) \in Nat /\ Len(services) > 0 /\ DOMAIN services = 1..Len(services)
  OBVIOUS
<1> HIDE DEF Service
<1> QED BY <1>1

LEMMA BookKept ==
  ASSUME NEW services \in Seq(Service), services # <<>>, NEW s \in Service,
         NEW names, NEW images, NEW more, NEW scripts, Book(services, names, images, scripts),
         images \subseteq more,
         s.name = services[Len(services)].name, s.command = services[Len(services)].command,
         \/ s.image = services[Len(services)].image
         \/ <<s.name, s.image>> \in more
  PROVE  Book([services EXCEPT ![Len(services)] = s], names, more, scripts)
<1> DEFINE n == Len(services)
           t == [services EXCEPT ![n] = s]
<1>1. /\ DOMAIN t = DOMAIN services /\ n \in DOMAIN services /\ t[n] = s
      /\ \A k \in DOMAIN services : k # n => t[k] = services[k]
  BY LastSet
<1> HIDE DEF n, t
<1>2. s.name = services[n].name /\ s.command = services[n].command
  BY DEF n
<1>3. \A k \in DOMAIN services : t[k].name = services[k].name /\ t[k].command = services[k].command
  BY <1>1, <1>2
<1>4. names = {t[k].name : k \in DOMAIN t}
  <2>1. {t[k].name : k \in DOMAIN t} = {services[k].name : k \in DOMAIN services}
    BY <1>1, <1>3
  <2> QED BY <2>1, Zenon DEF Book
<1>5. \A k \in DOMAIN t : t[k].image # Unset => <<t[k].name, t[k].image>> \in more
  <2> SUFFICES ASSUME NEW k \in DOMAIN services, t[k].image # Unset
               PROVE  <<t[k].name, t[k].image>> \in more
    BY <1>1
  <2>1. CASE k # n
    BY <2>1, <1>1 DEF Book
  <2>2. CASE k = n /\ s.image = services[n].image
    BY <2>2, <1>1, <1>2 DEF Book
  <2>3. CASE k = n /\ <<s.name, s.image>> \in more
    BY <2>3, <1>1
  <2> QED BY <2>1, <2>2, <2>3 DEF n
<1>6. /\ \A j, k \in DOMAIN t : j # k => t[j].name # t[k].name
      /\ \A k \in DOMAIN t : t[k].command = scripts[t[k].name]
      /\ \A m \in ServiceNames \ names : scripts[m] = <<>>
  <2>1. /\ \A j, k \in DOMAIN services : j # k => services[j].name # services[k].name
        /\ \A k \in DOMAIN services : services[k].command = scripts[services[k].name]
        /\ \A m \in ServiceNames \ names : scripts[m] = <<>>
    BY DEF Book
  <2> QED BY <1>1, <1>3, <2>1
<1>7. Book(t, names, more, scripts)
  BY <1>4, <1>5, <1>6, Zenon DEF Book
<1> QED BY <1>7 DEF t, n

\* A line of the script of the last service.
LEMMA BookScript ==
  ASSUME NEW services \in Seq(Service), services # <<>>, NEW s \in Service, NEW c,
         NEW names, NEW images, NEW scripts \in [ServiceNames -> Seq(Scripts)],
         Book(services, names, images, scripts),
         s.name = services[Len(services)].name, s.image = services[Len(services)].image,
         s.command = Append(services[Len(services)].command, c)
  PROVE  Book([services EXCEPT ![Len(services)] = s], names, images,
              [scripts EXCEPT ![s.name] = Append(scripts[s.name], c)])
<1> DEFINE n == Len(services)
           t == [services EXCEPT ![n] = s]
           more == [scripts EXCEPT ![s.name] = Append(scripts[s.name], c)]
<1>1. /\ DOMAIN t = DOMAIN services /\ n \in DOMAIN services /\ t[n] = s
      /\ \A k \in DOMAIN services : k # n => t[k] = services[k]
  BY LastSet
<1>2. s.name \in ServiceNames /\ s.name \in names /\ services[n].command = scripts[s.name]
  <2>1. s.name \in ServiceNames
    BY DEF Service
  <2> HIDE DEF t, more
  <2> QED BY <2>1, <1>1 DEF Book
<1>3. more[s.name] = Append(scripts[s.name], c) /\ \A m \in ServiceNames : m # s.name => more[m] = scripts[m]
  <2>1. s.name \in ServiceNames
    BY <1>2
  <2> QED BY <2>1
<1>9. \A k \in DOMAIN services : services[k].name \in ServiceNames
  <2>1. \A k \in DOMAIN services : services[k] \in Service
    OBVIOUS
  <2> QED BY <2>1 DEF Service
<1>4. s.name = services[n].name /\ s.image = services[n].image /\ s.command = Append(services[n].command, c)
  OBVIOUS
<1> HIDE DEF n, t, more
<1>5. \A k \in DOMAIN services : t[k].name = services[k].name /\ t[k].image = services[k].image
  BY <1>1, <1>4
<1>6. {t[k].name : k \in DOMAIN t} = {services[k].name : k \in DOMAIN services}
  BY <1>1, <1>5
<1>7. /\ names = {services[k].name : k \in DOMAIN services}
      /\ \A j, k \in DOMAIN services : j # k => services[j].name # services[k].name
      /\ \A k \in DOMAIN services : services[k].command = scripts[services[k].name]
      /\ \A m \in ServiceNames \ names : scripts[m] = <<>>
      /\ \A k \in DOMAIN services :
           services[k].image # Unset => <<services[k].name, services[k].image>> \in images
  BY DEF Book
<1>8. \A k \in DOMAIN t : t[k].command = more[t[k].name]
  <2> SUFFICES ASSUME NEW k \in DOMAIN services PROVE t[k].command = more[t[k].name]
    BY <1>1
  <2>1. CASE k = n
    BY <2>1, <1>1, <1>2, <1>3, <1>4
  <2>2. CASE k # n
    <3>1. services[k].name # s.name
      BY <2>2, <1>1, <1>4, <1>7
    <3> QED BY <2>2, <3>1, <1>1, <1>3, <1>7, <1>9
  <2> QED BY <2>1, <2>2
<1>10. \A m \in ServiceNames \ names : more[m] = <<>>
  BY <1>2, <1>3, <1>7
<1>11. \A j, k \in DOMAIN t : j # k => t[j].name # t[k].name
  BY <1>1, <1>5, <1>7
<1>12. \A k \in DOMAIN t : t[k].image # Unset => <<t[k].name, t[k].image>> \in images
  BY <1>1, <1>5, <1>7
<1>13. Book(t, names, images, more)
  BY <1>6, <1>7, <1>8, <1>10, <1>11, <1>12, Zenon DEF Book
<1> QED BY <1>13 DEF t, n, more

\* A service the mapping has not named yet.
LEMMA BookService ==
  ASSUME NEW services \in Seq(Service), NEW s \in Service,
         NEW names, NEW images, NEW scripts, Book(services, names, images, scripts),
         s.name \notin names, s.image = Unset, s.command = <<>>
  PROVE  Book(Append(services, s), names \cup {s.name}, images, scripts)
<1> DEFINE n == Len(services) + 1
           t == Append(services, s)
<1>1. /\ DOMAIN t = DOMAIN services \cup {n} /\ n \notin DOMAIN services /\ t[n] = s
      /\ \A k \in DOMAIN services : t[k] = services[k]
  <2> HIDE DEF Service
  <2> QED OBVIOUS
<1>9. s.name \in ServiceNames
  BY DEF Service
<1> HIDE DEF n, t
<1>7. /\ names = {services[k].name : k \in DOMAIN services}
      /\ \A j, k \in DOMAIN services : j # k => services[j].name # services[k].name
      /\ \A k \in DOMAIN services : services[k].command = scripts[services[k].name]
      /\ \A m \in ServiceNames \ names : scripts[m] = <<>>
      /\ \A k \in DOMAIN services :
           services[k].image # Unset => <<services[k].name, services[k].image>> \in images
  BY DEF Book
<1>2. names \cup {s.name} = {t[k].name : k \in DOMAIN t}
  BY <1>1, <1>7
<1>3. \A k \in DOMAIN services : services[k].name # s.name
  BY <1>7
<1>4. \A j, k \in DOMAIN t : j # k => t[j].name # t[k].name
  BY <1>1, <1>3, <1>7
<1>5. \A k \in DOMAIN t : t[k].command = scripts[t[k].name]
  BY <1>1, <1>7, <1>9
<1>6. \A k \in DOMAIN t : t[k].image # Unset => <<t[k].name, t[k].image>> \in images
  BY <1>1, <1>7
<1>8. \A m \in ServiceNames \ (names \cup {s.name}) : scripts[m] = <<>>
  BY <1>7
<1>10. Book(t, names \cup {s.name}, images, scripts)
  BY <1>2, <1>4, <1>5, <1>6, <1>8, Zenon DEF Book
<1> QED BY <1>10 DEF t
LEMMA Indents ==
  ASSUME NEW line, line.kind \in Kinds \ {"deep"}
  PROVE  /\ Indent(line) >= 8 <=> line.kind = "body"
         /\ Indent(line) = 4 <=> line.kind \in {"image", "floor", "dir", "parity", "key", "blank"}
  BY DEF Kinds, Indent

FourKinds == {"image", "floor", "dir", "parity", "key"}

\* What the YAML reading does with each kind of line.
LEMMA YamlBlank ==
  ASSUME NEW y, NEW line, line.kind \in Kinds \ {"deep"}, line.kind = "blank"
  PROVE  YamlLine(y, line) = y
  BY Indents DEF YamlLine

LEMMA YamlOther ==
  ASSUME NEW y, NEW line, line.kind \in Kinds \ {"deep"}, line.kind = "body", y.scalar, y.key # "command"
  PROVE  YamlLine(y, line) = y
  BY Indents DEF YamlLine

LEMMA YamlScript ==
  ASSUME NEW y, NEW line, line.kind \in Kinds \ {"deep"}, line.kind = "body", y.scalar, y.key = "command"
  PROVE  YamlLine(y, line) = [y EXCEPT !.scripts[y.name] = Append(@, line.script)]
  BY Indents DEF YamlLine

LEMMA YamlBody ==
  ASSUME NEW y, NEW line, line.kind \in Kinds \ {"deep"}, line.kind = "body", ~ y.scalar
  PROVE  YamlLine(y, line) = [y EXCEPT !.valid = FALSE]
  BY Indents DEF YamlLine

LEMMA YamlNote ==
  ASSUME NEW y, NEW line, line.kind \in Kinds \ {"deep"}, line.kind = "note"
  PROVE  YamlLine(y, line) = [y EXCEPT !.scalar = FALSE]
  BY Indents DEF YamlLine

LEMMA YamlServices ==
  ASSUME NEW y, NEW line, line.kind \in Kinds \ {"deep"}, line.kind = "services"
  PROVE  YamlLine(y, line) =
           [y EXCEPT !.in = TRUE, !.name = Unset, !.key = Unset, !.scalar = FALSE,
                     !.valid = @ /\ y.names = {}]
  BY Indents DEF YamlLine

LEMMA YamlTop ==
  ASSUME NEW y, NEW line, line.kind \in Kinds \ {"deep"}, line.kind = "top"
  PROVE  YamlLine(y, line) = [y EXCEPT !.in = FALSE, !.key = Unset, !.scalar = FALSE]
  BY Indents DEF YamlLine

LEMMA YamlService ==
  ASSUME NEW y, NEW line, line.kind \in Kinds \ {"deep"}, line.kind = "service"
  PROVE  YamlLine(y, line) =
           [y EXCEPT !.name = line.v, !.key = Unset, !.scalar = FALSE, !.keys = {},
                     !.valid = @ /\ y.in /\ line.v \notin y.names, !.names = @ \cup {line.v}]
  BY Indents DEF YamlLine

LEMMA YamlKey ==
  ASSUME NEW y, NEW line, line.kind \in Kinds \ {"deep"}, line.kind \in FourKinds
  PROVE  YamlLine(y, line) =
           [y EXCEPT !.key = KeyOf(line), !.scalar = FALSE, !.keys = @ \cup {KeyOf(line)},
                     !.images = @ \cup (IF line.kind = "image" THEN {<<y.name, line.v>>} ELSE {}),
                     !.valid = @ /\ y.in /\ y.name # Unset /\ KeyOf(line) \notin y.keys]
  BY Indents DEF YamlLine, FourKinds

LEMMA YamlItem ==
  ASSUME NEW y, NEW line, line.kind \in Kinds \ {"deep"}, line.kind = "item"
  PROVE  YamlLine(y, line) =
           [y EXCEPT !.scalar = (line.v = "|"),
                     !.valid = @ /\ y.in /\ y.key \in {"volumes", "tmpfs", "command", "environment"}]
  BY Indents DEF YamlLine

LEMMA YamlTyped ==
  ASSUME NEW y \in YamlState, NEW line \in FileLines, line.kind # "deep"
  PROVE  YamlLine(y, line) \in YamlState /\ (YamlLine(y, line).valid => y.valid)
<1> DEFINE key == KeyOf(line)
           more == IF line.kind = "image" THEN {<<y.name, line.v>>} ELSE {}
           q == YamlLine(y, line)
           OptServices == ServiceNames \cup {Unset}
           KeySets == SUBSET KeyVals
           NameSets == SUBSET ServiceNames
           ImageSets == SUBSET Images
           ScriptFcns == [ServiceNames -> Seq(Scripts)]
           R == [in : BOOLEAN, name : OptServices, key : KeyVals, scalar : BOOLEAN, keys : KeySets,
                 valid : BOOLEAN, names : NameSets, images : ImageSets, scripts : ScriptFcns]
<1>1. y \in R /\ R = YamlState
  BY DEF YamlState
<1>2. /\ line.kind \in Kinds \ {"deep"} /\ line.v \in Vals
      /\ line.kind = "service" => line.v \in ServiceNames
      /\ line.kind = "body" => line.script \in Scripts
  BY LineFacts
<1>3. Unset \in OptServices /\ Unset \in KeyVals /\ {} \in KeySets
  BY UnsetNames
<1>4. line.kind \in FourKinds => key \in KeyVals
  BY <1>2 DEF FourKinds, KeyVals, KeyOf
<1>5. y.keys \in KeySets /\ y.names \in NameSets /\ y.images \in ImageSets /\ y.name \in OptServices
      /\ y.scripts \in ScriptFcns
  <2> HIDE DEF OptServices, KeySets, NameSets, ImageSets, ScriptFcns
  <2> QED BY <1>1
<1>6. line.kind \in FourKinds => y.keys \cup {key} \in KeySets
  <2> HIDE DEF key
  <2> QED BY <1>4, <1>5
<1>7. y.images \cup more \in ImageSets
  BY <1>2, <1>5 DEF Images
<1>8. line.kind = "service" => y.names \cup {line.v} \in NameSets /\ line.v \in OptServices
  BY <1>2, <1>5
<1>9. line.kind = "body" => [y.scripts EXCEPT ![y.name] = Append(y.scripts[y.name], line.script)] \in ScriptFcns
  <2>1. line.kind = "body" /\ y.name \in ServiceNames
          => Append(y.scripts[y.name], line.script) \in Seq(Scripts)
    BY <1>2, <1>5
  <2> QED BY <1>5, <2>1
<1> HIDE DEF key, more, OptServices, KeySets, NameSets, ImageSets, ScriptFcns
<1>11. CASE line.kind = "blank"
  BY <1>1, <1>2, <1>11, YamlBlank, Zenon
<1>12. CASE line.kind = "body"
  <2>1. CASE y.scalar /\ y.key # "command"
    BY <1>1, <1>2, <1>12, <2>1, YamlOther, Zenon
  <2>2. CASE y.scalar /\ y.key = "command"
    <3>1. q = [y EXCEPT !.scripts = [y.scripts EXCEPT ![y.name] = Append(y.scripts[y.name], line.script)]]
      <4>1. q = [y EXCEPT !.scripts[y.name] = Append(@, line.script)]
        BY <1>2, <1>12, <2>2, YamlScript, Zenon
      <4> HIDE DEF q
      <4> QED BY <1>1, <4>1
    <3> HIDE DEF q
    <3>2. q \in R /\ (q.valid => y.valid)
      BY <1>1, <1>9, <1>12, <3>1
    <3> QED BY <1>1, <3>2 DEF q
  <2>3. CASE ~ y.scalar
    <3>1. q = [y EXCEPT !.valid = FALSE]
      BY <1>2, <1>12, <2>3, YamlBody, Zenon
    <3> HIDE DEF q
    <3>2. q \in R /\ (q.valid => y.valid)
      BY <1>1, <3>1
    <3> QED BY <1>1, <3>2 DEF q
  <2> QED BY <2>1, <2>2, <2>3
<1>13. CASE line.kind = "note"
  <2>1. q = [y EXCEPT !.scalar = FALSE]
    BY <1>2, <1>13, YamlNote, Zenon
  <2> HIDE DEF q
  <2>2. q \in R /\ (q.valid => y.valid)
    BY <1>1, <2>1
  <2> QED BY <1>1, <2>2 DEF q
<1>14. CASE line.kind = "services"
  <2>1. q = [y EXCEPT !.in = TRUE, !.name = Unset, !.key = Unset, !.scalar = FALSE,
                      !.valid = @ /\ y.names = {}]
    BY <1>2, <1>14, YamlServices, Zenon
  <2> HIDE DEF q
  <2>2. q \in R /\ (q.valid => y.valid)
    BY <1>1, <1>3, <2>1
  <2> QED BY <1>1, <2>2 DEF q
<1>15. CASE line.kind = "top"
  <2>1. q = [y EXCEPT !.in = FALSE, !.key = Unset, !.scalar = FALSE]
    BY <1>2, <1>15, YamlTop, Zenon
  <2> HIDE DEF q
  <2>2. q \in R /\ (q.valid => y.valid)
    BY <1>1, <1>3, <2>1
  <2> QED BY <1>1, <2>2 DEF q
<1>16. CASE line.kind = "service"
  <2>1. q = [y EXCEPT !.name = line.v, !.key = Unset, !.scalar = FALSE, !.keys = {},
                      !.valid = @ /\ y.in /\ line.v \notin y.names, !.names = @ \cup {line.v}]
    BY <1>2, <1>16, YamlService, Zenon
  <2> HIDE DEF q
  <2>2. q \in R /\ (q.valid => y.valid)
    BY <1>1, <1>3, <1>8, <1>16, <2>1
  <2> QED BY <1>1, <2>2 DEF q
<1>17. CASE line.kind \in FourKinds
  <2>1. q = [y EXCEPT !.key = key, !.scalar = FALSE, !.keys = @ \cup {key},
                      !.images = @ \cup more,
                      !.valid = @ /\ y.in /\ y.name # Unset /\ key \notin y.keys]
    BY <1>2, <1>17, YamlKey, Zenon DEF key, more
  <2> HIDE DEF q
  <2>2. q \in R /\ (q.valid => y.valid)
    BY <1>1, <1>4, <1>5, <1>6, <1>7, <1>17, <2>1
  <2> QED BY <1>1, <2>2 DEF q
<1>18. CASE line.kind = "item"
  <2>1. q = [y EXCEPT !.scalar = (line.v = "|"),
                      !.valid = @ /\ y.in /\ y.key \in {"volumes", "tmpfs", "command", "environment"}]
    BY <1>2, <1>18, YamlItem, Zenon
  <2> HIDE DEF q
  <2>2. q \in R /\ (q.valid => y.valid)
    BY <1>1, <2>1
  <2> QED BY <1>1, <2>2 DEF q
<1> QED BY <1>2, <1>11, <1>12, <1>13, <1>14, <1>15, <1>16, <1>17, <1>18 DEF Kinds, FourKinds

\* What the checker does with each kind of line.
LEMMA ParseHead ==
  ASSUME NEW r, NEW line
  PROVE  /\ line.kind = "services" => ParseLine(r, line) = [r EXCEPT !.in = TRUE]
         /\ line.kind = "top" => ParseLine(r, line) =
              [r EXCEPT !.in = FALSE, !.cur = FALSE, !.section = Unset, !.collecting = FALSE]
         /\ line.kind = "blank" => ParseLine(r, line) = r
         /\ line.kind \notin {"services", "top"} /\ ~ r.in => ParseLine(r, line) = r
  BY DEF ParseLine

LEMMA ParseScript ==
  ASSUME NEW r, NEW line, line.kind = "body", r.in, r.collecting
  PROVE  ParseLine(r, line) = WithCur(r, "command", Append(Cur(r).command, line.script))
  BY DEF ParseLine

Stopped(r) == [r EXCEPT !.collecting = FALSE]

LEMMA ParseService ==
  ASSUME NEW r, NEW line, line.kind = "service", r.in
  PROVE  ParseLine(r, line) = [Stopped(r) EXCEPT !.services = Append(@, NewService(line.v)),
                                                 !.cur = TRUE, !.section = Unset]
  BY DEF ParseLine, Stopped

LEMMA ParseKey ==
  ASSUME NEW r, NEW line, line.kind \in Kinds \ {"services", "top", "blank", "service"}, r.in,
         Stopped(r).cur, line.kind = "body" => ~ r.collecting
  PROVE  ParseLine(r, line) = ReadKey(Stopped(r), line)
<1> DEFINE q == Stopped(r)
<1>1. ParseLine(r, line) = IF q.cur THEN ReadKey(q, line) ELSE q
  BY DEF ParseLine, Stopped
<1> QED BY <1>1, Zenon

LEMMA ParseIdle ==
  ASSUME NEW r, NEW line, line.kind \in Kinds \ {"services", "top", "blank", "service"}, r.in,
         ~ Stopped(r).cur, line.kind = "body" => ~ r.collecting
  PROVE  ParseLine(r, line) = Stopped(r)
<1> DEFINE q == Stopped(r)
<1>1. ParseLine(r, line) = IF q.cur THEN ReadKey(q, line) ELSE q
  BY DEF ParseLine, Stopped
<1> QED BY <1>1, Zenon

LEMMA StoppedReading ==
  ASSUME NEW r \in Reading
  PROVE  /\ Stopped(r) \in Reading /\ Stopped(r).services = r.services /\ (Stopped(r).in <=> r.in)
         /\ (Stopped(r).cur <=> r.cur) /\ Stopped(r).section = r.section /\ ~ Stopped(r).collecting
<1> DEFINE S == Seq(Service)
<1>1. r \in [in : BOOLEAN, section : Vals, collecting : BOOLEAN, cur : BOOLEAN, services : S]
  BY DEF Reading
<1> HIDE DEF S
<1>2. /\ Stopped(r) \in [in : BOOLEAN, section : Vals, collecting : BOOLEAN, cur : BOOLEAN, services : S]
      /\ Stopped(r).services = r.services /\ (Stopped(r).in <=> r.in)
      /\ (Stopped(r).cur <=> r.cur) /\ Stopped(r).section = r.section /\ ~ Stopped(r).collecting
  BY <1>1 DEF Stopped
<1> QED BY <1>2 DEF S, Reading

LEMMA CurIs ==
  ASSUME NEW r \in Reading, r.services # <<>>
  PROVE  Cur(r) \in Service /\ Cur(r) = r.services[Len(r.services)]
<1>1. r.services \in Seq(Service)
  BY DEF Reading
<1> HIDE DEF Service
<1> QED BY <1>1 DEF Cur

\* The record of the current service with one field changed.
ValueFields == {"floor", "parity", "workingDir"}
ItemFields  == {"volumes", "tmpfs"}

LEMMA ServiceShape ==
  \E W, C : /\ W = SUBSET Vals /\ C = Seq(Scripts)
            /\ Service = [name : ServiceNames, image : Vals, floor : Vals, workingDir : Vals,
                          parity : Vals, volumes : W, tmpfs : W, command : C]
  BY DEF Service

\* t is s but for the fields a reader of the book does not look at, its image
\* and its script.
Recast(s, t, image, command) ==
  t \in Service /\ t.name = s.name /\ t.image = image /\ t.command = command

LEMMA FieldImage ==
  ASSUME NEW s \in Service, NEW v \in Vals
  PROVE  Recast(s, [s EXCEPT !["image"] = v], v, s.command)
<1>1. PICK W, C : Service = [name : ServiceNames, image : Vals, floor : Vals, workingDir : Vals,
                             parity : Vals, volumes : W, tmpfs : W, command : C]
  BY ServiceShape
<1> QED BY <1>1 DEF Recast

LEMMA FieldValue ==
  ASSUME NEW s \in Service, NEW v \in Vals, NEW f \in ValueFields
  PROVE  Recast(s, [s EXCEPT ![f] = v], s.image, s.command)
<1>1. PICK W, C : Service = [name : ServiceNames, image : Vals, floor : Vals, workingDir : Vals,
                             parity : Vals, volumes : W, tmpfs : W, command : C]
  BY ServiceShape
<1>2. CASE f = "floor" BY <1>1, <1>2 DEF Recast
<1>3. CASE f = "parity" BY <1>1, <1>3 DEF Recast
<1>4. CASE f = "workingDir" BY <1>1, <1>4 DEF Recast
<1> QED BY <1>2, <1>3, <1>4 DEF ValueFields

LEMMA FieldItems ==
  ASSUME NEW s \in Service, NEW w \in SUBSET Vals, NEW f \in ItemFields
  PROVE  Recast(s, [s EXCEPT ![f] = w], s.image, s.command)
<1>1. PICK W, C : /\ W = SUBSET Vals
                  /\ Service = [name : ServiceNames, image : Vals, floor : Vals, workingDir : Vals,
                                parity : Vals, volumes : W, tmpfs : W, command : C]
  BY ServiceShape
<1>2. w \in W
  BY <1>1
<1>3. CASE f = "volumes" BY <1>1, <1>2, <1>3 DEF Recast
<1>4. CASE f = "tmpfs" BY <1>1, <1>2, <1>4 DEF Recast
<1> QED BY <1>3, <1>4 DEF ItemFields

LEMMA FieldScript ==
  ASSUME NEW s \in Service, NEW c \in Seq(Scripts)
  PROVE  Recast(s, [s EXCEPT !["command"] = c], s.image, c)
<1>1. PICK W, C : /\ C = Seq(Scripts)
                  /\ Service = [name : ServiceNames, image : Vals, floor : Vals, workingDir : Vals,
                                parity : Vals, volumes : W, tmpfs : W, command : C]
  BY ServiceShape
<1>2. c \in C
  BY <1>1
<1> QED BY <1>1, <1>2 DEF Recast

\* w is p with the current service s.
CurIsNow(p, w, s) ==
  /\ w \in Reading /\ w.services # <<>> /\ w.services[Len(w.services)] = s
  /\ w.services = [p.services EXCEPT ![Len(p.services)] = s]
  /\ (w.in <=> p.in) /\ (w.cur <=> p.cur) /\ w.section = p.section /\ (w.collecting <=> p.collecting)

LEMMA CurChanged ==
  ASSUME NEW p \in Reading, p.services # <<>>, NEW f, NEW v, NEW w, w = WithCur(p, f, v),
         NEW image, NEW command, Recast(Cur(p), [Cur(p) EXCEPT ![f] = v], image, command)
  PROVE  \E s : Recast(Cur(p), s, image, command) /\ CurIsNow(p, w, s)
<1>9. PICK s : s = [Cur(p) EXCEPT ![f] = v]
  OBVIOUS
<1>8. s \in Service /\ Recast(Cur(p), s, image, command)
  BY <1>9 DEF Recast
<1>1. PICK S : S = Seq(Service)
  OBVIOUS
<1>2. p \in [in : BOOLEAN, section : Vals, collecting : BOOLEAN, cur : BOOLEAN, services : S]
      /\ Reading = [in : BOOLEAN, section : Vals, collecting : BOOLEAN, cur : BOOLEAN, services : S]
  BY <1>1 DEF Reading
<1>3. PICK t : t = [p.services EXCEPT ![Len(p.services)] = s]
  OBVIOUS
<1>4. p.services \in Seq(Service)
  BY <1>1, <1>2
<1>5. t \in S /\ t # <<>> /\ t[Len(t)] = s
  BY <1>1, <1>3, <1>4, <1>8, LastSet
<1>6. w = [p EXCEPT !.services = t]
  <2> HIDE DEF Service
  <2> QED BY <1>2, <1>3, <1>4, <1>9 DEF WithCur, Cur
<1>7. /\ w \in [in : BOOLEAN, section : Vals, collecting : BOOLEAN, cur : BOOLEAN, services : S]
      /\ w.services = t /\ (w.in <=> p.in) /\ (w.cur <=> p.cur) /\ w.section = p.section
      /\ (w.collecting <=> p.collecting)
  BY <1>2, <1>5, <1>6
<1> QED BY <1>2, <1>3, <1>5, <1>7, <1>8, Zenon DEF CurIsNow

LEMMA StepServices ==
  ASSUME NEW r, NEW y, InStep(r, y), NEW line \in FileLines, line.kind = "services",
         YamlLine(y, line).valid
  PROVE  InStep(ParseLine(r, line), YamlLine(y, line))
<1> DEFINE q == ParseLine(r, line)
           z == YamlLine(y, line)
<1>1. line.kind \in Kinds \ {"deep"}
  BY DEF Kinds
<1>2. q = [r EXCEPT !.in = TRUE]
  BY ParseHead
<1>3. z = [y EXCEPT !.in = TRUE, !.name = Unset, !.key = Unset, !.scalar = FALSE,
                    !.valid = @ /\ y.names = {}]
  BY <1>1, YamlServices, Zenon
<1>4. z \in YamlState /\ z.valid
  BY YamlTyped DEF InStep
<1> HIDE DEF q, z
<1>5. r \in Reading /\ y \in YamlState
  BY DEF InStep
<1>6. q \in Reading /\ q.in /\ (q.cur <=> r.cur) /\ q.section = r.section /\ (q.collecting <=> r.collecting)
      /\ q.services = r.services
  BY <1>2, <1>5 DEF Reading
<1>7. z.in /\ z.name = Unset /\ z.key = Unset /\ ~ z.scalar /\ z.names = y.names /\ y.names = {}
      /\ z.images = y.images /\ z.scripts = y.scripts
  BY <1>3, <1>4, <1>5 DEF YamlState
<1>8. Place(r, y)
  BY DEF InStep
<1>9. y.name = Unset /\ ~ r.cur /\ y.key = Unset /\ ~ y.scalar /\ r.section = Unset /\ ~ r.collecting
  BY <1>7, <1>8 DEF Place
<1>10. Place(q, z)
  BY <1>6, <1>7, <1>9 DEF Place
<1>11. Book(q.services, z.names, z.images, z.scripts)
  BY <1>6, <1>7, Zenon DEF InStep
<1> QED BY <1>4, <1>6, <1>10, <1>11 DEF InStep, q, z
LEMMA StepTop ==
  ASSUME NEW r, NEW y, InStep(r, y), NEW line \in FileLines, line.kind = "top"
  PROVE  InStep(ParseLine(r, line), YamlLine(y, line))
<1> DEFINE q == ParseLine(r, line)
           z == YamlLine(y, line)
<1>1. line.kind \in Kinds \ {"deep"}
  BY DEF Kinds
<1>2. q = [r EXCEPT !.in = FALSE, !.cur = FALSE, !.section = Unset, !.collecting = FALSE]
  BY ParseHead
<1>3. z = [y EXCEPT !.in = FALSE, !.key = Unset, !.scalar = FALSE]
  BY <1>1, YamlTop, Zenon
<1>4. z \in YamlState
  BY YamlTyped DEF InStep
<1> HIDE DEF q, z
<1>5. r \in Reading /\ y \in YamlState /\ Unset \in Vals
  BY UnsetNames DEF InStep
<1>6. q \in Reading /\ ~ q.in /\ ~ q.cur /\ q.section = Unset /\ ~ q.collecting
      /\ q.services = r.services
  BY <1>2, <1>5 DEF Reading
<1>7. ~ z.in /\ z.name = y.name /\ z.key = Unset /\ ~ z.scalar /\ z.names = y.names
      /\ z.images = y.images /\ z.scripts = y.scripts
  BY <1>3, <1>5 DEF YamlState
<1>8. Place(r, y)
  BY DEF InStep
<1>9. y.names = {} => y.name = Unset
  BY <1>8 DEF Place
<1>10. Place(q, z)
  BY <1>6, <1>7, <1>9 DEF Place
<1>11. Book(q.services, z.names, z.images, z.scripts)
  BY <1>6, <1>7, Zenon DEF InStep
<1> QED BY <1>4, <1>6, <1>10, <1>11 DEF InStep, q, z

\* A comment between two keys ends a script for both readers.
LEMMA StepNote ==
  ASSUME NEW r, NEW y, InStep(r, y), NEW line \in FileLines, line.kind = "note"
  PROVE  InStep(ParseLine(r, line), YamlLine(y, line))
<1> DEFINE q == ParseLine(r, line)
           z == YamlLine(y, line)
<1>1. line.kind \in Kinds \ {"deep"}
  BY DEF Kinds
<1>3. z = [y EXCEPT !.scalar = FALSE]
  BY <1>1, YamlNote, Zenon
<1>4. z \in YamlState
  BY YamlTyped DEF InStep
<1>5. r \in Reading /\ y \in YamlState
  BY DEF InStep
<1>8. Place(r, y)
  BY DEF InStep
<1>2. (q = r /\ ~ r.collecting) \/ q = Stopped(r)
  <2>1. CASE ~ r.in
    <3>1. ~ r.collecting
      BY <1>5, <1>8, <2>1 DEF Place, Reading
    <3> QED BY <2>1, <3>1, ParseHead
  <2>2. CASE r.in /\ ~ Stopped(r).cur
    <3>1. q = Stopped(r)
      BY <2>2, ParseIdle DEF Kinds
    <3> QED BY <3>1
  <2>3. CASE r.in /\ Stopped(r).cur
    <3>1. q = ReadKey(Stopped(r), line)
      BY <2>3, ParseKey DEF Kinds
    <3>2. ReadKey(Stopped(r), line) = Stopped(r)
      BY DEF ReadKey
    <3> QED BY <3>1, <3>2
  <2> QED BY <2>1, <2>2, <2>3
<1> HIDE DEF q, z
<1>6. q \in Reading /\ (q.in <=> r.in) /\ (q.cur <=> r.cur) /\ q.section = r.section /\ ~ q.collecting
      /\ q.services = r.services
  BY <1>2, <1>5, StoppedReading
<1>7. (z.in <=> y.in) /\ z.name = y.name /\ z.key = y.key /\ ~ z.scalar /\ z.names = y.names
      /\ z.images = y.images /\ z.scripts = y.scripts
  BY <1>3, <1>5 DEF YamlState
<1>10. Place(q, z)
  BY <1>6, <1>7, <1>8 DEF Place
<1>11. Book(q.services, z.names, z.images, z.scripts)
  BY <1>6, <1>7, Zenon DEF InStep
<1> QED BY <1>4, <1>6, <1>10, <1>11 DEF InStep, q, z

LEMMA FreshService ==
  ASSUME NEW n \in ServiceNames
  PROVE  NewService(n) \in Service /\ NewService(n).name = n /\ NewService(n).image = Unset
         /\ NewService(n).command = <<>>
<1>1. Unset \in Vals /\ {} \in SUBSET Vals /\ <<>> \in Seq(Scripts)
  BY UnsetNames
<1> QED BY <1>1 DEF NewService, Service

LEMMA StepService ==
  ASSUME NEW r, NEW y, InStep(r, y), NEW line \in FileLines, line.kind = "service",
         YamlLine(y, line).valid
  PROVE  InStep(ParseLine(r, line), YamlLine(y, line))
<1> DEFINE q == ParseLine(r, line)
           z == YamlLine(y, line)
           s == NewService(line.v)
<1>1. line.kind \in Kinds \ {"deep"} /\ line.v \in ServiceNames
  BY LineFacts DEF Kinds
<1>3. z = [y EXCEPT !.name = line.v, !.key = Unset, !.scalar = FALSE, !.keys = {},
                    !.valid = @ /\ y.in /\ line.v \notin y.names, !.names = @ \cup {line.v}]
  BY <1>1, YamlService, Zenon
<1>4. z \in YamlState /\ z.valid
  BY YamlTyped DEF InStep
<1>5. r \in Reading /\ y \in YamlState /\ Unset \in Vals /\ Place(r, y)
  BY UnsetNames DEF InStep
<1> HIDE DEF z
<1>7. y.in /\ line.v \notin y.names /\ z.in /\ z.name = line.v /\ z.key = Unset /\ ~ z.scalar
      /\ z.names = y.names \cup {line.v} /\ z.images = y.images /\ z.scripts = y.scripts
  BY <1>3, <1>4, <1>5 DEF YamlState
<1>8. r.in
  BY <1>5, <1>7 DEF Place
<1>2. q = [Stopped(r) EXCEPT !.services = Append(@, s), !.cur = TRUE, !.section = Unset]
  BY <1>8, ParseService
<1>9. s \in Service /\ s.name = line.v /\ s.image = Unset /\ s.command = <<>>
  BY <1>1, FreshService
<1> HIDE DEF q, s
<1>10. r.services \in Seq(Service)
  BY <1>5 DEF Reading
<1>11. Append(r.services, s) \in Seq(Service) /\ Append(r.services, s) # <<>>
       /\ Append(r.services, s)[Len(Append(r.services, s))] = s
  <2> HIDE DEF Service
  <2> QED BY <1>9, <1>10
<1>6. q \in Reading /\ q.in /\ q.cur /\ q.section = Unset /\ ~ q.collecting
      /\ q.services = Append(r.services, s)
  <2> DEFINE S == Seq(Service)
             t == Append(r.services, s)
             p == Stopped(r)
  <2>1. p \in [in : BOOLEAN, section : Vals, collecting : BOOLEAN, cur : BOOLEAN, services : S]
    BY <1>5, StoppedReading DEF Reading
  <2>2. p.services = r.services /\ p.in /\ ~ p.collecting
    BY <1>5, <1>8, StoppedReading
  <2> HIDE DEF p
  <2>3. q = [p EXCEPT !.services = t, !.cur = TRUE, !.section = Unset]
    BY <1>2, <2>2 DEF p
  <2>4. t \in S
    BY <1>11
  <2> HIDE DEF S, t
  <2>5. q \in [in : BOOLEAN, section : Vals, collecting : BOOLEAN, cur : BOOLEAN, services : S]
        /\ q.in /\ q.cur /\ q.section = Unset /\ ~ q.collecting /\ q.services = t
    BY <1>5, <2>1, <2>2, <2>3, <2>4
  <2> QED BY <2>5 DEF Reading, S, t
<1>12. line.v # Unset
  BY <1>1, UnsetNames
<1>13. Place(q, z)
  BY <1>6, <1>7, <1>9, <1>11, <1>12 DEF Place
<1>14. Book(r.services, y.names, y.images, y.scripts)
  BY DEF InStep
<1>15. Book(q.services, z.names, z.images, z.scripts)
  <2>1. Book(Append(r.services, s), y.names \cup {s.name}, y.images, y.scripts)
    BY <1>7, <1>9, <1>10, <1>14, BookService
  <2> QED BY <2>1, <1>6, <1>7, <1>9, Zenon
<1> QED BY <1>4, <1>6, <1>13, <1>15 DEF InStep, q, z

\* A key of the current service: the checker leaves the section it was in and
\* enters the one the key opens.
LEMMA StepKey ==
  ASSUME NEW r, NEW y, InStep(r, y), NEW line \in FileLines, line.kind \in FourKinds,
         YamlLine(y, line).valid
  PROVE  InStep(ParseLine(r, line), YamlLine(y, line))
<1> DEFINE q == ParseLine(r, line)
           z == YamlLine(y, line)
           more == IF line.kind = "image" THEN {<<y.name, line.v>>} ELSE {}
           p == Stopped(r)
<1>1. line.kind \in Kinds \ {"deep"} /\ line.v \in Vals
  BY LineFacts DEF Kinds, FourKinds
<1>3. z = [y EXCEPT !.key = KeyOf(line), !.scalar = FALSE, !.keys = @ \cup {KeyOf(line)},
                    !.images = @ \cup more,
                    !.valid = @ /\ y.in /\ y.name # Unset /\ KeyOf(line) \notin y.keys]
  BY <1>1, YamlKey, Zenon
<1>4. z \in YamlState /\ z.valid
  BY YamlTyped DEF InStep, FourKinds
<1>5. r \in Reading /\ y \in YamlState /\ Unset \in Vals /\ Place(r, y)
      /\ Book(r.services, y.names, y.images, y.scripts)
  BY UnsetNames DEF InStep
<1> HIDE DEF z, more
<1>7. y.in /\ y.name # Unset /\ z.in /\ z.name = y.name /\ z.key = KeyOf(line) /\ ~ z.scalar
      /\ z.names = y.names /\ z.images = y.images \cup more /\ z.scripts = y.scripts
  BY <1>3, <1>4, <1>5 DEF YamlState
<1>8. r.in /\ r.cur /\ r.services # <<>> /\ r.services[Len(r.services)].name = y.name
      /\ (y.names = {} => y.name = Unset)
  BY <1>5, <1>7 DEF Place
<1>9. p \in Reading /\ p.services = r.services /\ p.services # <<>> /\ p.in /\ p.cur /\ ~ p.collecting
  BY <1>5, <1>8, StoppedReading
<1>10. q = ReadKey(p, line)
  <2>1. line.kind \in Kinds \ {"services", "top", "blank", "service"} /\ line.kind # "body"
    BY <1>1 DEF FourKinds
  <2> QED BY <1>8, <1>9, <2>1, ParseKey
<1>11. Cur(p) \in Service /\ Cur(p) = r.services[Len(r.services)]
  BY <1>8, <1>9, CurIs
<1> HIDE DEF p, q
\* A key that holds a value.
<1>12. ASSUME NEW w \in Reading, NEW s, NEW image, Recast(Cur(p), s, image, Cur(p).command),
              CurIsNow(p, w, s), line.kind # "key", q = [w EXCEPT !.section = Unset],
              image = Cur(p).image \/ <<y.name, image>> \in more
       PROVE  InStep(q, z)
  <2>1. s \in Service /\ s.name = Cur(p).name /\ s.command = Cur(p).command /\ s.image = image
    BY <1>12, Zenon DEF Recast
  <2>3. /\ w \in Reading /\ w.services # <<>> /\ w.services[Len(w.services)] = s
        /\ w.services = [p.services EXCEPT ![Len(p.services)] = s]
        /\ (w.in <=> p.in) /\ (w.cur <=> p.cur) /\ (w.collecting <=> p.collecting)
    BY <1>12, Zenon DEF CurIsNow
  <2>5. q \in Reading /\ q.services = w.services /\ q.in /\ q.cur /\ ~ q.collecting /\ q.section = Unset
    BY <1>5, <1>9, <1>12, <2>3 DEF Reading
  <2>6. z.key \notin ListKeys /\ z.key # "command"
    BY <1>7, <1>12 DEF KeyOf, ListKeys, FourKinds
  <2>7. s.name = y.name
    BY <1>8, <1>11, <2>1
  <2>8. Place(q, z)
    BY <1>7, <1>8, <2>3, <2>5, <2>6, <2>7 DEF Place
  <2>9. s.image = Cur(p).image \/ <<s.name, s.image>> \in y.images \cup more
    BY <1>12, <2>1, <2>7
  <2>10. Book([r.services EXCEPT ![Len(r.services)] = s], y.names, y.images \cup more, y.scripts)
    <3>1. r.services \in Seq(Service) /\ y.images \subseteq y.images \cup more
      BY <1>5 DEF Reading
    <3> QED BY <1>5, <1>8, <1>11, <2>1, <2>9, <3>1, BookKept
  <2>11. Book(q.services, z.names, z.images, z.scripts)
    BY <1>7, <1>9, <2>3, <2>5, <2>10, Zenon
  <2> QED BY <1>4, <2>5, <2>8, <2>11 DEF InStep
<1>13. ASSUME line.kind = "key" PROVE InStep(q, z)
  <2> DEFINE sect == IF line.v \in ListKeys THEN line.v ELSE Unset
  <2>1. q = [p EXCEPT !.section = sect]
    BY <1>10, <1>13 DEF ReadKey, ListKeys
  <2>2. sect \in Vals
    BY <1>1, <1>5
  <2> HIDE DEF sect
  <2>3. q \in Reading /\ q.services = p.services /\ q.in /\ q.cur /\ ~ q.collecting /\ q.section = sect
    BY <1>9, <2>1, <2>2 DEF Reading
  <2>4. z.key = line.v
    BY <1>7, <1>13 DEF KeyOf
  <2>5. Place(q, z)
    BY <1>7, <1>8, <1>9, <2>3, <2>4 DEF Place, sect
  <2>6. more = {}
    BY <1>13 DEF more
  <2>7. Book(q.services, z.names, z.images, z.scripts)
    <3>1. y.images \cup more = y.images
      BY <2>6
    <3> QED BY <1>5, <1>7, <1>9, <2>3, <3>1, Zenon
  <2> QED BY <1>4, <2>3, <2>5, <2>7 DEF InStep
<1>14. ASSUME line.kind = "image" PROVE InStep(q, z)
  <2>1. q = [WithCur(p, "image", line.v) EXCEPT !.section = Unset]
    BY <1>10, <1>14 DEF ReadKey
  <2>2. Recast(Cur(p), [Cur(p) EXCEPT !["image"] = line.v], line.v, Cur(p).command)
    BY <1>1, <1>11, FieldImage
  <2>3. PICK w : w = WithCur(p, "image", line.v)
    OBVIOUS
  <2>4. PICK s : Recast(Cur(p), s, line.v, Cur(p).command) /\ CurIsNow(p, w, s)
    BY <1>9, <2>2, <2>3, CurChanged
  <2>5. <<y.name, line.v>> \in more
    BY <1>14 DEF more
  <2> QED BY <1>12, <1>14, <2>1, <2>3, <2>4, <2>5 DEF CurIsNow
<1>15. ASSUME line.kind = "floor" PROVE InStep(q, z)
  <2>1. q = [WithCur(p, "floor", line.v) EXCEPT !.section = Unset]
    BY <1>10, <1>15 DEF ReadKey
  <2>2. Recast(Cur(p), [Cur(p) EXCEPT !["floor"] = line.v], Cur(p).image, Cur(p).command)
    BY <1>1, <1>11, FieldValue DEF ValueFields
  <2>3. PICK w : w = WithCur(p, "floor", line.v)
    OBVIOUS
  <2>4. PICK s : Recast(Cur(p), s, Cur(p).image, Cur(p).command) /\ CurIsNow(p, w, s)
    BY <1>9, <2>2, <2>3, CurChanged
  <2> QED BY <1>12, <1>15, <2>1, <2>3, <2>4 DEF CurIsNow
<1>16. ASSUME line.kind = "parity" PROVE InStep(q, z)
  <2>1. q = [WithCur(p, "parity", line.v) EXCEPT !.section = Unset]
    BY <1>10, <1>16 DEF ReadKey
  <2>2. Recast(Cur(p), [Cur(p) EXCEPT !["parity"] = line.v], Cur(p).image, Cur(p).command)
    BY <1>1, <1>11, FieldValue DEF ValueFields
  <2>3. PICK w : w = WithCur(p, "parity", line.v)
    OBVIOUS
  <2>4. PICK s : Recast(Cur(p), s, Cur(p).image, Cur(p).command) /\ CurIsNow(p, w, s)
    BY <1>9, <2>2, <2>3, CurChanged
  <2> QED BY <1>12, <1>16, <2>1, <2>3, <2>4 DEF CurIsNow
<1>17. ASSUME line.kind = "dir" PROVE InStep(q, z)
  <2>1. q = [WithCur(p, "workingDir", line.v) EXCEPT !.section = Unset]
    BY <1>10, <1>17 DEF ReadKey
  <2>2. Recast(Cur(p), [Cur(p) EXCEPT !["workingDir"] = line.v], Cur(p).image, Cur(p).command)
    BY <1>1, <1>11, FieldValue DEF ValueFields
  <2>3. PICK w : w = WithCur(p, "workingDir", line.v)
    OBVIOUS
  <2>4. PICK s : Recast(Cur(p), s, Cur(p).image, Cur(p).command) /\ CurIsNow(p, w, s)
    BY <1>9, <2>2, <2>3, CurChanged
  <2> QED BY <1>12, <1>17, <2>1, <2>3, <2>4 DEF CurIsNow
<1>18. InStep(q, z)
  BY <1>13, <1>14, <1>15, <1>16, <1>17 DEF FourKinds
<1> QED BY <1>18 DEF q, z

\* An item of a list; the one that opens a script starts the checker collecting.
LEMMA StepItem ==
  ASSUME NEW r, NEW y, InStep(r, y), NEW line \in FileLines, line.kind = "item",
         YamlLine(y, line).valid
  PROVE  InStep(ParseLine(r, line), YamlLine(y, line))
<1> DEFINE q == ParseLine(r, line)
           z == YamlLine(y, line)
           p == Stopped(r)
<1>1. line.kind \in Kinds \ {"deep"} /\ line.v \in Vals
  BY LineFacts DEF Kinds
<1>3. z = [y EXCEPT !.scalar = (line.v = "|"),
                    !.valid = @ /\ y.in /\ y.key \in {"volumes", "tmpfs", "command", "environment"}]
  BY <1>1, YamlItem, Zenon
<1>4. z \in YamlState /\ z.valid
  BY YamlTyped DEF InStep
<1>5. r \in Reading /\ y \in YamlState /\ Place(r, y)
      /\ Book(r.services, y.names, y.images, y.scripts)
  BY DEF InStep
<1> HIDE DEF z
<1>7. y.in /\ y.key \in {"volumes", "tmpfs", "command", "environment"} /\ z.in /\ z.name = y.name
      /\ z.key = y.key /\ (z.scalar <=> line.v = "|")
      /\ z.names = y.names /\ z.images = y.images /\ z.scripts = y.scripts
  BY <1>3, <1>4, <1>5 DEF YamlState
<1>8. r.in /\ r.cur /\ r.services # <<>> /\ r.services[Len(r.services)].name = y.name
      /\ y.name # Unset /\ y.key # Unset
      /\ r.section = (IF y.key \in ListKeys THEN y.key ELSE Unset)
      /\ (y.names = {} => y.name = Unset)
  BY <1>5, <1>7, UnsetKeys DEF Place
<1>9. p \in Reading /\ p.services = r.services /\ p.services # <<>> /\ p.in /\ p.cur
      /\ ~ p.collecting /\ p.section = r.section
  BY <1>5, <1>8, StoppedReading
<1>10. q = ReadKey(p, line)
  <2>1. line.kind \in Kinds \ {"services", "top", "blank", "service"} /\ line.kind # "body"
    BY <1>1
  <2> QED BY <1>8, <1>9, <2>1, ParseKey
<1>11. Cur(p) \in Service /\ Cur(p) = r.services[Len(r.services)]
  BY <1>8, <1>9, CurIs
<1> HIDE DEF p, q
<1>12. ASSUME NEW f \in ItemFields, NEW x \in SUBSET Vals, q = WithCur(p, f, x), y.key # "command"
       PROVE  InStep(q, z)
  <2>1. Recast(Cur(p), [Cur(p) EXCEPT ![f] = x], Cur(p).image, Cur(p).command)
    BY <1>11, FieldItems
  <2>2. PICK s : Recast(Cur(p), s, Cur(p).image, Cur(p).command) /\ CurIsNow(p, q, s)
    BY <1>9, <1>12, <2>1, CurChanged
  <2>3. s \in Service /\ s.name = Cur(p).name /\ s.command = Cur(p).command /\ s.image = Cur(p).image
    BY <2>2, Zenon DEF Recast
  <2>4. /\ q \in Reading /\ q.services # <<>> /\ q.services[Len(q.services)] = s
        /\ q.services = [p.services EXCEPT ![Len(p.services)] = s]
        /\ (q.in <=> p.in) /\ (q.cur <=> p.cur) /\ q.section = p.section
        /\ (q.collecting <=> p.collecting)
    BY <2>2, Zenon DEF CurIsNow
  <2>5. s.name = y.name
    BY <1>8, <1>11, <2>3
  <2>6. Place(q, z)
    BY <1>7, <1>8, <1>9, <1>12, <2>4, <2>5 DEF Place
  <2>7. Book([r.services EXCEPT ![Len(r.services)] = s], y.names, y.images, y.scripts)
    <3>1. r.services \in Seq(Service) /\ y.images \subseteq y.images
      BY <1>5 DEF Reading
    <3> QED BY <1>5, <1>8, <1>11, <2>3, <3>1, BookKept
  <2>8. Book(q.services, z.names, z.images, z.scripts)
    BY <1>7, <1>9, <2>4, <2>7, Zenon
  <2> QED BY <1>4, <2>4, <2>6, <2>8 DEF InStep
<1>13. ASSUME q \in Reading, q.services = p.services, q.in, q.cur, q.section = p.section,
              q.collecting <=> line.v = "|" /\ y.key = "command"
       PROVE  InStep(q, z)
  <2>1. Place(q, z)
    BY <1>7, <1>8, <1>9, <1>13 DEF Place
  <2>2. Book(q.services, z.names, z.images, z.scripts)
    BY <1>5, <1>7, <1>9, <1>13, Zenon
  <2> QED BY <1>4, <1>13, <2>1, <2>2 DEF InStep
<1>14. ASSUME y.key = "volumes" PROVE InStep(q, z)
  <2>1. q = WithCur(p, "volumes", Cur(p).volumes \cup {line.v})
    BY <1>8, <1>9, <1>10, <1>14 DEF ReadKey, ListKeys
  <2>2. Cur(p).volumes \cup {line.v} \in SUBSET Vals
    <3>1. Cur(p).volumes \in SUBSET Vals
      BY <1>11 DEF Service
    <3> QED BY <1>1, <3>1
  <2> QED BY <1>12, <1>14, <2>1, <2>2 DEF ItemFields
<1>15. ASSUME y.key = "tmpfs" PROVE InStep(q, z)
  <2>1. q = WithCur(p, "tmpfs", Cur(p).tmpfs \cup {line.v})
    BY <1>8, <1>9, <1>10, <1>15 DEF ReadKey, ListKeys
  <2>2. Cur(p).tmpfs \cup {line.v} \in SUBSET Vals
    <3>1. Cur(p).tmpfs \in SUBSET Vals
      BY <1>11 DEF Service
    <3> QED BY <1>1, <3>1
  <2> QED BY <1>12, <1>15, <2>1, <2>2 DEF ItemFields
<1>16. ASSUME y.key = "command", line.v = "|" PROVE InStep(q, z)
  <2>1. q = [p EXCEPT !.collecting = TRUE]
    BY <1>8, <1>9, <1>10, <1>16 DEF ReadKey, ListKeys
  <2>2. q \in Reading /\ q.services = p.services /\ q.in /\ q.cur /\ q.section = p.section /\ q.collecting
    BY <1>9, <2>1 DEF Reading
  <2> QED BY <1>13, <1>16, <2>2
<1>17. ASSUME y.key = "environment" \/ (y.key = "command" /\ line.v # "|") PROVE InStep(q, z)
  <2>1. p.section = Unset \/ p.section = "command"
    BY <1>8, <1>9, <1>17 DEF ListKeys
  <2>2. p.section # "volumes" /\ p.section # "tmpfs" /\ ~ (p.section = "command" /\ line.v = "|")
    BY <1>8, <1>9, <1>17, <2>1, UnsetKeys DEF ListKeys
  <2>3. q = p
    BY <1>10, <2>2 DEF ReadKey
  <2> QED BY <1>9, <1>13, <1>17, <2>3
<1>18. InStep(q, z)
  BY <1>7, <1>14, <1>15, <1>16, <1>17
<1> QED BY <1>18 DEF q, z

\* A line of a block scalar; the checker keeps those of the command's.
LEMMA StepBody ==
  ASSUME NEW r, NEW y, InStep(r, y), NEW line \in FileLines, line.kind = "body",
         YamlLine(y, line).valid
  PROVE  InStep(ParseLine(r, line), YamlLine(y, line))
<1> DEFINE q == ParseLine(r, line)
           z == YamlLine(y, line)
           p == Stopped(r)
<1>1. line.kind \in Kinds \ {"deep"} /\ line.script \in Scripts
  BY LineFacts DEF Kinds
<1>2. z \in YamlState /\ z.valid
  BY YamlTyped DEF InStep
<1>3. r \in Reading /\ y \in YamlState /\ Place(r, y)
      /\ Book(r.services, y.names, y.images, y.scripts)
  BY DEF InStep
<1>4. y.scalar
  <2> SUFFICES ASSUME ~ y.scalar PROVE FALSE
    OBVIOUS
  <2>1. z = [y EXCEPT !.valid = FALSE]
    BY <1>1, YamlBody, Zenon
  <2> HIDE DEF z
  <2>2. ~ z.valid
    BY <1>3, <2>1 DEF YamlState
  <2> QED BY <1>2, <2>2
<1>5. y.key # Unset /\ y.in /\ y.name # Unset /\ r.in /\ r.cur /\ r.services # <<>>
      /\ r.services[Len(r.services)].name = y.name /\ (r.collecting <=> y.key = "command")
      /\ r.section = (IF y.key \in ListKeys THEN y.key ELSE Unset)
      /\ (y.names = {} => y.name = Unset)
  BY <1>3, <1>4 DEF Place
<1>6. CASE y.key = "command"
  <2>1. z = [y EXCEPT !.scripts[y.name] = Append(@, line.script)]
    BY <1>1, <1>4, <1>6, YamlScript, Zenon
  <2>2. q = WithCur(r, "command", Append(Cur(r).command, line.script))
    BY <1>5, <1>6, ParseScript
  <2>3. Cur(r) \in Service /\ Cur(r) = r.services[Len(r.services)]
    BY <1>3, <1>5, CurIs
  <2>4. Append(Cur(r).command, line.script) \in Seq(Scripts)
    <3>1. Cur(r).command \in Seq(Scripts)
      BY <2>3 DEF Service
    <3> QED BY <1>1, <3>1
  <2>5. Recast(Cur(r), [Cur(r) EXCEPT !["command"] = Append(Cur(r).command, line.script)],
               Cur(r).image, Append(Cur(r).command, line.script))
    BY <2>3, <2>4, FieldScript
  <2> HIDE DEF q, z
  <2>6. PICK s : /\ Recast(Cur(r), s, Cur(r).image, Append(Cur(r).command, line.script))
                 /\ CurIsNow(r, q, s)
    BY <1>3, <1>5, <2>2, <2>5, CurChanged
  <2>7. s \in Service /\ s.name = Cur(r).name /\ s.image = Cur(r).image
        /\ s.command = Append(Cur(r).command, line.script)
    BY <2>6, Zenon DEF Recast
  <2>8. /\ q \in Reading /\ q.services # <<>> /\ q.services[Len(q.services)] = s
        /\ q.services = [r.services EXCEPT ![Len(r.services)] = s]
        /\ (q.in <=> r.in) /\ (q.cur <=> r.cur) /\ q.section = r.section
        /\ (q.collecting <=> r.collecting)
    BY <2>6, Zenon DEF CurIsNow
  <2>9. (z.in <=> y.in) /\ z.name = y.name /\ z.key = y.key /\ (z.scalar <=> y.scalar)
        /\ z.names = y.names /\ z.images = y.images
        /\ z.scripts = [y.scripts EXCEPT ![y.name] = Append(y.scripts[y.name], line.script)]
    BY <1>3, <2>1 DEF YamlState
  <2>10. s.name = y.name
    BY <1>5, <2>3, <2>7
  <2>11. Place(q, z)
    BY <1>4, <1>5, <1>6, <2>8, <2>9, <2>10 DEF Place
  <2>12. Book([r.services EXCEPT ![Len(r.services)] = s], y.names, y.images,
              [y.scripts EXCEPT ![s.name] = Append(y.scripts[s.name], line.script)])
    <3>1. r.services \in Seq(Service)
      BY <1>3 DEF Reading
    <3>2. y.scripts \in [ServiceNames -> Seq(Scripts)]
      BY <1>3 DEF YamlState
    <3> QED BY <1>3, <1>5, <2>3, <2>7, <3>1, <3>2, BookScript
  <2>13. Book(q.services, z.names, z.images, z.scripts)
    BY <2>8, <2>9, <2>10, <2>12, Zenon
  <2>14. InStep(q, z)
    BY <1>2, <2>8, <2>11, <2>13 DEF InStep, z
  <2> QED BY <2>14 DEF q, z
<1>7. CASE y.key # "command"
  <2>1. z = y
    BY <1>1, <1>4, <1>7, YamlOther, Zenon
  <2>2. p \in Reading /\ p.services = r.services /\ p.in /\ p.cur /\ ~ p.collecting
        /\ p.section = r.section
    BY <1>3, <1>5, StoppedReading
  <2>3. ~ r.collecting
    BY <1>5, <1>7
  <2>4. q = ReadKey(p, line)
    <3>1. line.kind \in Kinds \ {"services", "top", "blank", "service"}
      BY <1>1
    <3> QED BY <1>5, <2>2, <2>3, <3>1, ParseKey
  <2>5. ReadKey(p, line) = p
    BY DEF ReadKey
  <2>6. q = p
    BY <2>4, <2>5
  <2> HIDE DEF p, q, z
  <2>7. Place(q, y)
    BY <1>3, <1>5, <2>2, <2>3, <2>6 DEF Place
  <2>8. Book(q.services, y.names, y.images, y.scripts)
    BY <1>3, <2>2, <2>6, Zenon
  <2>9. InStep(q, z)
    BY <1>3, <2>1, <2>2, <2>6, <2>7, <2>8, Zenon DEF InStep
  <2> QED BY <2>9 DEF q, z
<1> QED BY <1>6, <1>7

\* As long as the lines are YAML, the checker's reader keeps step with it.
LEMMA InStepNext ==
  ASSUME NEW r, NEW y, InStep(r, y), NEW line \in FileLines, line.kind # "deep",
         YamlLine(y, line).valid
  PROVE  InStep(ParseLine(r, line), YamlLine(y, line))
<1>1. line.kind \in Kinds \ {"deep"}
  BY LineFacts
<1>2. CASE line.kind = "blank"
  <2>1. ParseLine(r, line) = r /\ YamlLine(y, line) = y
    BY <1>1, <1>2, ParseHead, YamlBlank
  <2> QED BY <2>1
<1> QED BY <1>1, <1>2, StepServices, StepTop, StepNote, StepService, StepKey, StepItem, StepBody
        DEF Kinds, FourKinds

-----------------------------------------------------------------------------
(* The whole file, and what --check has accepted.                           *)

LEMMA StartInStep == InStep(Parse0, Yaml0) /\ Yaml0 \in YamlState
<1>1. Yaml0 \in YamlState
  BY UnsetNames DEF Yaml0, YamlState, ServiceNames
<1>2. Parse0 \in Reading
  BY UnsetNames DEF Parse0, Reading
<1>3. Parse0.services = <<>> /\ Yaml0.names = {} /\ \A n \in ServiceNames : Yaml0.scripts[n] = <<>>
  BY DEF Parse0, Yaml0, ServiceNames
<1>4. Book(Parse0.services, Yaml0.names, Yaml0.images, Yaml0.scripts)
  BY <1>3 DEF Book
<1>5. Yaml0.key = Unset /\ Unset \notin ListKeys
  BY UnsetKeys DEF Yaml0, ListKeys
<1>6. Place(Parse0, Yaml0)
  BY <1>5 DEF Place, Parse0, Yaml0
<1> QED BY <1>1, <1>2, <1>4, <1>6 DEF InStep

\* In a flat file that is valid YAML the checker reads what YAML says.
LEMMA ReadAlike ==
  ASSUME NEW lines \in Seq(FileLines), Flat(lines), Yaml(lines).valid
  PROVE  InStep(Pass(ParseLine, Parse0, lines), Yaml(lines))
<1>1. Len(lines) \in Nat /\ \A i \in 1..Len(lines) : lines[i] \in FileLines /\ lines[i].kind # "deep"
  BY DEF Flat
<1>2. PICK r : /\ r[0] = Parse0
               /\ \A i \in 1..Len(lines) : r[i] = ParseLine(r[i - 1], lines[i])
               /\ Pass(ParseLine, Parse0, lines) = r[Len(lines)]
  BY <1>1, ParsePass, Zenon
<1>3. PICK y : /\ y[0] = Yaml0
               /\ \A i \in 1..Len(lines) : y[i] = YamlLine(y[i - 1], lines[i])
               /\ Pass(YamlLine, Yaml0, lines) = y[Len(lines)]
  BY <1>1, YamlPass, Zenon
<1> DEFINE Alike(i) == y[i] \in YamlState /\ (y[i].valid => InStep(r[i], y[i]))
           D == {i \in Nat : i \in 0..Len(lines) /\ ~ Alike(i)}
<1>4. ASSUME D # {} PROVE FALSE
  <2>1. PICK m \in D : \A i \in D : m <= i
    BY <1>4, LeastNatural
  <2>2. m \in 0..Len(lines) /\ ~ Alike(m)
    OBVIOUS
  <2>3. Alike(0)
    BY <1>2, <1>3, StartInStep, Zenon
  <2>4. m # 0
    BY <2>2, <2>3, Zenon
  <2>5. m - 1 \in Nat /\ m - 1 \in 0..Len(lines) /\ m \in 1..Len(lines) /\ ~ (m <= m - 1)
    BY <1>1, <2>2, <2>4
  <2>6. Alike(m - 1)
    <3> HIDE DEF Alike
    <3> QED BY <2>1, <2>5
  <2>7. y[m] = YamlLine(y[m - 1], lines[m]) /\ r[m] = ParseLine(r[m - 1], lines[m])
    BY <1>2, <1>3, <2>5, Zenon
  <2>8. lines[m] \in FileLines /\ lines[m].kind # "deep"
    BY <1>1, <2>5, Zenon
  <2>9. y[m] \in YamlState /\ (y[m].valid => y[m - 1].valid)
    BY <2>6, <2>7, <2>8, YamlTyped, Zenon
  <2>10. ASSUME y[m].valid PROVE InStep(r[m], y[m])
    BY <2>6, <2>7, <2>8, <2>9, <2>10, InStepNext, Zenon
  <2> QED BY <2>2, <2>9, <2>10, Zenon
<1>5. Alike(Len(lines))
  <2> HIDE DEF Alike
  <2> QED BY <1>1, <1>4
<1> QED BY <1>2, <1>3, <1>5, Zenon DEF Yaml

LEMMA CheckedFile ==
  ASSUME NEW lines \in Seq(FileLines), CheckCompose(lines), Flat(lines), Yaml(lines).valid
  PROVE  DockerRuns(lines, InJob)
<1>1. PICK y : y = Yaml(lines)
  OBVIOUS
<1>2. PICK services : services = SERVICES(lines)
  OBVIOUS
<1>3. services \in Seq(Service) /\ Book(services, y.names, y.images, y.scripts) /\ y \in YamlState
  <2>1. PICK r : r = Pass(ParseLine, Parse0, lines)
    OBVIOUS
  <2>2. InStep(r, y) /\ services = r.services
    BY <1>1, <1>2, <2>1, ReadAlike, Zenon DEF SERVICES
  <2> QED BY <2>2 DEF InStep, Reading
<1>4. /\ {services[i].name : i \in DOMAIN services} = Packages
      /\ \A i \in DOMAIN services : ServiceOk(services[i])
  BY <1>2, Zenon DEF CheckCompose
<1>5. y.names = Packages
  BY <1>3, <1>4, Zenon DEF Book
<1>6. ASSUME NEW p \in Packages
      PROVE  /\ <<p, "digest and tag">> \in y.images
             /\ y.scripts[p] # <<>> /\ y.scripts[p][1].text = <<"stage", p>>
             /\ \A i \in 2..Len(y.scripts[p]) :
                  y.scripts[p][i].reason = "not-in-ci" \/ InJob(p, y.scripts[p][i].text)
  <2>1. PICK k \in DOMAIN services : services[k].name = p
    BY <1>4
  <2>2. PICK s : s = services[k]
    OBVIOUS
  <2>3. s \in Service /\ s.name = p /\ ServiceOk(s)
    BY <1>3, <1>4, <2>1, <2>2
  <2>4. s.command = y.scripts[p]
    BY <1>3, <2>1, <2>2 DEF Book
  <2>5. s.image = "digest and tag" /\ Staged(s) /\ ParityOk(s)
    BY <2>3, Zenon DEF ServiceOk
  <2>6. "digest and tag" # Unset
    BY HarnessAssumption
  <2>7. <<p, "digest and tag">> \in y.images
    BY <1>3, <2>1, <2>2, <2>5, <2>6 DEF Book
  <2>8. ASSUME NEW i \in 2..Len(s.command)
        PROVE  s.command[i].reason = "not-in-ci" \/ InJob(p, s.command[i].text)
    <3>1. s.command[i] \in Scripts
      BY <2>3 DEF Service
    <3>2. s.command[i].reason \in Reasons
      BY <3>1, ScriptFacts
    <3>3. s.command[i].reason # "under four characters"
          /\ (s.command[i].reason = Unset => RunByJob(p, s.command[i].text))
      BY <2>3, <2>5 DEF ParityOk
    <3> QED BY <3>2, <3>3, CiCommands DEF Reasons
  <2> QED BY <2>3, <2>4, <2>5, <2>7, <2>8 DEF Staged
<1> QED BY <1>1, <1>5, <1>6, Zenon DEF DockerRuns

-----------------------------------------------------------------------------
(* compose.yml under edits, and a --check that passed.                      *)

\* A passing --check judged the file as it stands: edits come before it.
ComposeInv ==
  /\ compose \in Seq(FileLines)
  /\ CheckPassed => CheckCompose(compose)

LEMMA ComposeInit == HarnessInit => ComposeInv
<1> SUFFICES ASSUME compose = Compose0, session = Idle PROVE ComposeInv
  BY DEF HarnessInit
<1>1. session.exit # 0
  BY Unsaid DEF Idle
<1> QED BY <1>1, ComposeStart, Zenon DEF ComposeInv, CheckPassed

LEMMA ComposeKept == ComposeInv /\ UNCHANGED <<compose, session>> => ComposeInv'
<1> SUFFICES ASSUME ComposeInv, compose' = compose, session' = session PROVE ComposeInv'
  OBVIOUS
<1>1. CheckCompose(compose)' = CheckCompose(compose)
  BY Zenon
<1> QED BY <1>1, Zenon DEF ComposeInv, CheckPassed

\* Words other than "check" leave nothing to show.
LEMMA SaidOther ==
  ASSUME ComposeInv, compose' = compose, session'.said # "check" \/ session'.exit # 0
  PROVE  ComposeInv'
  BY Zenon DEF ComposeInv, CheckPassed

LEMMA ExitSays ==
  ASSUME SessionInv, NEW code, NEW words, Exit(code, words)
  PROVE  session'.said = words /\ session'.exit = code
  BY DEF SessionInv, Exit

LEMMA Unended == SessionInv /\ session.phase # "done" => session.exit = Unset
<1> SUFFICES ASSUME SessionInv, session.phase # "done" PROVE session.exit = Unset
  OBVIOUS
<1>1. PICK phase, given, names, results, exit, said :
        /\ session = [phase |-> phase, given |-> given, names |-> names, results |-> results,
                      exit |-> exit, said |-> said]
        /\ WordsOK(phase, given, names, results, exit, said)
  BY Zenon DEF SessionInv
<1>2. phase # "done" /\ session.exit = exit
  BY <1>1
<1> QED BY <1>1, <1>2, Zenon DEF WordsOK

LEMMA ComposeMain ==
  ASSUME SessionInv, ComposeInv, NEW flags, NEW names, NEW docker \in DockerStates,
         Main(flags, names, docker)
  PROVE  ComposeInv'
<1>1. compose' = compose
  BY DEF Main
<1>2. \/ Exit(2, "no services") \/ Exit(2, "usage") \/ Exit(0, "usage") \/ Exit(0, "list")
      \/ Exit(IF CheckCompose(compose) THEN 0 ELSE 1, "check")
      \/ Exit(2, "no such language") \/ Exit(2, docker)
      \/ session' = [session EXCEPT !.phase = "running", !.given = names,
                       !.names = IF names = <<>> THEN SetToSeq(Packages) ELSE names]
  BY Zenon DEF Main
<1>3. CASE \E code, words : words # "check" /\ Exit(code, words)
  BY <1>1, <1>3, ExitSays, SaidOther, Zenon
<1>4. CASE Exit(IF CheckCompose(compose) THEN 0 ELSE 1, "check")
  <2>1. session'.exit = 0 => CheckCompose(compose)
    <3>1. session'.exit = IF CheckCompose(compose) THEN 0 ELSE 1
      BY <1>4, ExitSays, Zenon
    <3>2. 1 # 0
      OBVIOUS
    <3> QED BY <3>1, <3>2, Zenon
  <2> QED BY <1>1, <2>1, Zenon DEF ComposeInv, CheckPassed
<1>5. CASE session' = [session EXCEPT !.phase = "running", !.given = names,
                         !.names = IF names = <<>> THEN SetToSeq(Packages) ELSE names]
  <2>1. session'.exit = session.exit /\ session.phase = "idle"
    BY <1>5 DEF SessionInv, Main
  <2>2. session.exit = Unset
    BY <2>1, Unended
  <2> QED BY <1>1, <2>1, <2>2, Unsaid, SaidOther, Zenon
<1>6. "no services" # "check" /\ "usage" # "check" /\ "list" # "check" /\ "no such language" # "check" /\ docker # "check"
  BY DEF DockerStates
<1> QED BY <1>2, <1>3, <1>4, <1>5, <1>6, Zenon

LEMMA ComposeStep == SessionInv /\ ComposeInv /\ HarnessNext => ComposeInv'
<1> SUFFICES ASSUME SessionInv, ComposeInv, HarnessNext PROVE ComposeInv'
  OBVIOUS
<1>1. compose \in Seq(FileLines) /\ Len(compose) \in Nat
  BY DEF ComposeInv, CheckPassed
<1>2. ASSUME session = Idle, UNCHANGED session, compose' \in Seq(FileLines) PROVE ComposeInv'
  <2>1. session'.exit # 0
    BY <1>2, Unsaid DEF Idle
  <2> QED BY <1>2, <2>1, Zenon DEF ComposeInv, CheckPassed
<1>3. CASE session = Idle /\ \E i \in 2..(Len(compose) + 1), line \in NewLines : AddLine(i, line)
  <2>1. PICK i \in 2..(Len(compose) + 1), line \in NewLines : AddLine(i, line)
    BY <1>3
  <2>2. i \in 1..(Len(compose) + 1) /\ line \in FileLines
    BY <1>1 DEF FileLines
  <2> QED BY <1>1, <1>2, <1>3, <2>1, <2>2, LineAdded, Zenon DEF AddLine
<1>4. CASE session = Idle /\ \E i \in DOMAIN compose : DropLine(i)
  BY <1>1, <1>2, <1>4, LineDropped, Zenon DEF DropLine
<1>5. CASE Main({"--check"}, <<>>, "ready")
  <2>1. "ready" \in DockerStates
    BY DEF DockerStates
  <2> QED BY <1>5, <2>1, ComposeMain, Zenon
<1>6. CASE \E flags \in SUBSET (KnownFlags \cup {"--unknown"}),
              names \in SeqOf(Packages \cup {OtherName}, Cardinality(Packages)),
              docker \in DockerStates : Main(flags, names, docker)
  BY <1>6, ComposeMain, Zenon
<1>7. CASE \E outcome \in {"exit 0", "exit 1", "not started"} : RunSuite(outcome)
  <2>1. compose' = compose /\ session.phase = "running" /\ session'.exit = session.exit
    BY <1>7 DEF RunSuite, SessionInv
  <2>2. session.exit = Unset
    BY <2>1, Unended
  <2> QED BY <2>1, <2>2, Unsaid, SaidOther, Zenon
<1>8. CASE Summarise
  <2>1. compose' = compose /\ \E code, words : words # "check" /\ Exit(code, words)
    BY <1>8 DEF Summarise
  <2> QED BY <2>1, ExitSays, SaidOther, Zenon
<1> QED BY <1>3, <1>4, <1>5, <1>6, <1>7, <1>8, Zenon DEF HarnessNext

LEMMA CheckedRuns == ComposeInv => DockerRunsChecked
<1> SUFFICES ASSUME ComposeInv, CheckPassed, Flat(compose), Yaml(compose).valid
             PROVE  DockerRuns(compose, InJob)
  BY Zenon DEF DockerRunsChecked
<1> QED BY CheckedFile, Zenon DEF ComposeInv

-----------------------------------------------------------------------------
(* The documents.                                                           *)

CaseIds   == {"vh-01", "dh-01", "p-01", "p-02"}
Rules     == Refs \cup {None}
Case      == [section : tvSections, id : CaseIds, rule : Rules]
ScenIds   == CaseIds \cup {"s-01", "s-02"}
ReqSets   == SUBSET Reqs
Scenario  == [id : ScenIds, requirements : ReqSets, conditional : BOOLEAN]

\* Edits change neither the number of cases and scenarios nor where a case stands.
DocsInv ==
  \E defined, cases, scenarios, counts, versions, constants, defects, rejected :
    /\ docs = [defined |-> defined, cases |-> cases, scenarios |-> scenarios, counts |-> counts,
               versions |-> versions, constants |-> constants, defects |-> defects,
               rejected |-> rejected]
    /\ cases \in [1..4 -> Case] /\ scenarios \in [1..2 -> Scenario]

\* Distinct members have distinct images: as many images as members.
LEMMA ImageCount ==
  ASSUME NEW J, IsFiniteSet(J), NEW f, \A i, j \in J : f[i] = f[j] => i = j
  PROVE  Cardinality({f[i] : i \in J}) = Cardinality(J)
<1> DEFINE T == {f[i] : i \in J}
           g == [i \in J |-> f[i]]
<1>1. g \in [J -> T] /\ \A i \in J : g[i] = f[i]
  OBVIOUS
<1>2. g \in Injection(J, T)
  BY <1>1, Zenon DEF Injection, IsInjective
<1>3. g \in Surjection(J, T)
  BY <1>1 DEF Surjection
<1>4. ExistsBijection(J, T)
  BY <1>2, <1>3, Zenon DEF ExistsBijection, Bijection
<1> QED BY <1>4, FS_Bijection, Zenon

LEMMA TupleFunctions ==
  ASSUME NEW S
  PROVE  /\ \A a, b \in S : <<a, b>> \in [1..2 -> S]
         /\ \A a, b, c, d \in S : <<a, b, c, d>> \in [1..4 -> S]
<1>1. ASSUME NEW a \in S, NEW b \in S PROVE <<a, b>> \in [1..2 -> S]
  OBVIOUS
<1>2. ASSUME NEW a \in S, NEW b \in S, NEW c \in S, NEW d \in S PROVE <<a, b, c, d>> \in [1..4 -> S]
  OBVIOUS
<1> QED BY <1>1, <1>2, Zenon

LEMMA DocsStart == docs = Docs0 => DocsInv
<1> SUFFICES ASSUME docs = Docs0 PROVE DocsInv
  OBVIOUS
<1>1. Docs0.cases \in [1..4 -> Case]
  <2>1. PICK a, b, c, d :
          /\ a = [section |-> "verifier_hashing", id |-> "vh-01", rule |-> <<"N-11", 0>>]
          /\ b = [section |-> "device_hashing", id |-> "dh-01", rule |-> <<"N-11", 0>>]
          /\ c = [section |-> "parsing", id |-> "p-01", rule |-> <<"N-6", 1>>]
          /\ d = [section |-> "parsing", id |-> "p-02", rule |-> None]
    OBVIOUS
  <2>2. a \in Case /\ b \in Case /\ c \in Case /\ d \in Case
    BY <2>1 DEF Case, tvSections, CaseIds, Rules, Refs, Reqs
  <2>3. <<a, b, c, d>> \in [1..4 -> Case]
    BY <2>2, TupleFunctions
  <2>4. Docs0.cases = <<a, b, c, d>>
    BY <2>1 DEF Docs0
  <2> QED BY <2>3, <2>4, Zenon
<1>2. Docs0.scenarios \in [1..2 -> Scenario]
  <2>1. PICK a, b :
          /\ a = [id |-> "s-01", requirements |-> {"N-6"}, conditional |-> FALSE]
          /\ b = [id |-> "s-02", requirements |-> {"N-11"}, conditional |-> FALSE]
    OBVIOUS
  <2>2. a \in Scenario /\ b \in Scenario
    BY <2>1 DEF Scenario, ScenIds, ReqSets, Reqs
  <2>3. <<a, b>> \in [1..2 -> Scenario]
    BY <2>2, TupleFunctions
  <2>4. Docs0.scenarios = <<a, b>>
    BY <2>1 DEF Docs0
  <2> QED BY <2>3, <2>4, Zenon
<1>3. docs = [defined |-> Docs0.defined, cases |-> Docs0.cases, scenarios |-> Docs0.scenarios,
              counts |-> Docs0.counts, versions |-> Docs0.versions, constants |-> Docs0.constants,
              defects |-> Docs0.defects, rejected |-> Docs0.rejected]
  BY DEF Docs0
<1> QED BY <1>1, <1>2, <1>3, Zenon DEF DocsInv

LEMMA DocsStep == DocsInv /\ DocsNext => DocsInv'
<1> SUFFICES ASSUME NEW defined, NEW cases, NEW scenarios, NEW counts, NEW versions,
                    NEW constants, NEW defects, NEW rejected,
                    docs = [defined |-> defined, cases |-> cases, scenarios |-> scenarios,
                            counts |-> counts, versions |-> versions, constants |-> constants,
                            defects |-> defects, rejected |-> rejected],
                    cases \in [1..4 -> Case], scenarios \in [1..2 -> Scenario], DocsNext
             PROVE  DocsInv'
  BY DEF DocsInv
<1>1. ASSUME NEW i \in DOMAIN docs.cases, NEW ref \in Refs \cup {None}, CiteRule(i, ref)
      PROVE  DocsInv'
  <2>1. docs' = [defined |-> defined, cases |-> [cases EXCEPT ![i] = [cases[i] EXCEPT !.rule = ref]],
                 scenarios |-> scenarios, counts |-> counts, versions |-> versions,
                 constants |-> constants, defects |-> defects, rejected |-> rejected]
    BY <1>1 DEF CiteRule, Edit
  <2>2. i \in 1..4 /\ ref \in Rules
    BY <1>1 DEF Rules
  <2>3. [cases[i] EXCEPT !.rule = ref] \in Case
    BY <2>2 DEF Case
  <2>4. [cases EXCEPT ![i] = [cases[i] EXCEPT !.rule = ref]] \in [1..4 -> Case]
    BY <2>2, <2>3
  <2> QED BY <2>1, <2>4, Zenon DEF DocsInv
<1>2. ASSUME NEW i \in DOMAIN docs.cases, NEW j \in DOMAIN docs.cases, CopyCase(i, j)
      PROVE  DocsInv'
  <2>1. docs' = [defined |-> defined,
                 cases |-> [cases EXCEPT ![j] = [cases[j] EXCEPT !.id = cases[i].id]],
                 scenarios |-> scenarios, counts |-> counts, versions |-> versions,
                 constants |-> constants, defects |-> defects, rejected |-> rejected]
    BY <1>2 DEF CopyCase, Edit
  <2>2. i \in 1..4 /\ j \in 1..4
    BY <1>2
  <2>3. [cases[j] EXCEPT !.id = cases[i].id] \in Case
    BY <2>2 DEF Case
  <2>4. [cases EXCEPT ![j] = [cases[j] EXCEPT !.id = cases[i].id]] \in [1..4 -> Case]
    BY <2>2, <2>3
  <2> QED BY <2>1, <2>4, Zenon DEF DocsInv
<1>3. ASSUME NEW i \in DOMAIN docs.scenarios, NEW reqs \in SUBSET Reqs, CiteScenario(i, reqs)
      PROVE  DocsInv'
  <2>1. docs' = [defined |-> defined, cases |-> cases,
                 scenarios |-> [scenarios EXCEPT ![i] = [scenarios[i] EXCEPT !.requirements = reqs]],
                 counts |-> counts, versions |-> versions,
                 constants |-> constants, defects |-> defects, rejected |-> rejected]
    BY <1>3 DEF CiteScenario, Edit
  <2>2. i \in 1..2 /\ reqs \in ReqSets
    BY <1>3 DEF ReqSets
  <2>3. [scenarios[i] EXCEPT !.requirements = reqs] \in Scenario
    BY <2>2 DEF Scenario
  <2>4. [scenarios EXCEPT ![i] = [scenarios[i] EXCEPT !.requirements = reqs]] \in [1..2 -> Scenario]
    BY <2>2, <2>3
  <2> QED BY <2>1, <2>4, Zenon DEF DocsInv
<1>4. ASSUME NEW i \in DOMAIN docs.scenarios, MakeConditional(i)
      PROVE  DocsInv'
  <2>1. docs' = [defined |-> defined, cases |-> cases,
                 scenarios |-> [scenarios EXCEPT ![i] = [scenarios[i] EXCEPT !.conditional = TRUE]],
                 counts |-> counts, versions |-> versions,
                 constants |-> constants, defects |-> defects, rejected |-> rejected]
    BY <1>4 DEF MakeConditional, Edit
  <2>2. i \in 1..2
    BY <1>4
  <2>3. [scenarios[i] EXCEPT !.conditional = TRUE] \in Scenario
    BY <2>2 DEF Scenario
  <2>4. [scenarios EXCEPT ![i] = [scenarios[i] EXCEPT !.conditional = TRUE]] \in [1..2 -> Scenario]
    BY <2>2, <2>3
  <2> QED BY <2>1, <2>4, Zenon DEF DocsInv
<1>5. ASSUME NEW a, NEW b, NEW c, NEW d, NEW e, NEW f,
             docs' = [defined |-> a, cases |-> cases, scenarios |-> scenarios, counts |-> b,
                      versions |-> c, constants |-> d, defects |-> e, rejected |-> f]
      PROVE  DocsInv'
  BY <1>5, Zenon DEF DocsInv
<1>12. ASSUME NEW i \in DOMAIN docs.cases, NEW j \in DOMAIN docs.scenarios, ReuseId(i, j)
       PROVE  DocsInv'
  <2>1. docs' = [defined |-> defined, cases |-> cases,
                 scenarios |-> [scenarios EXCEPT ![j] = [scenarios[j] EXCEPT !.id = cases[i].id]],
                 counts |-> counts, versions |-> versions,
                 constants |-> constants, defects |-> defects, rejected |-> rejected]
    BY <1>12 DEF ReuseId, Edit
  <2>2. i \in 1..4 /\ j \in 1..2
    BY <1>12
  <2>3. cases[i].id \in ScenIds
    BY <2>2 DEF Case, ScenIds
  <2>4. [scenarios[j] EXCEPT !.id = cases[i].id] \in Scenario
    BY <2>2, <2>3 DEF Scenario
  <2>5. [scenarios EXCEPT ![j] = [scenarios[j] EXCEPT !.id = cases[i].id]] \in [1..2 -> Scenario]
    BY <2>2, <2>4
  <2> QED BY <2>1, <2>5, Zenon DEF DocsInv
<1>6. ASSUME NEW what, NEW n, Recount(what, n) PROVE DocsInv'
  <2>1. docs' = [defined |-> defined, cases |-> cases, scenarios |-> scenarios,
                 counts |-> [counts EXCEPT ![what] = n], versions |-> versions,
                 constants |-> constants, defects |-> defects, rejected |-> rejected]
    BY <1>6 DEF Recount, Edit
  <2> QED BY <1>5, <2>1
<1>7. ASSUME NEW reqs, Redefine(reqs) PROVE DocsInv'
  <2>1. docs' = [defined |-> reqs, cases |-> cases, scenarios |-> scenarios, counts |-> counts,
                 versions |-> versions, constants |-> constants, defects |-> defects,
                 rejected |-> rejected]
    BY <1>7 DEF Redefine, Edit
  <2> QED BY <1>5, <2>1
<1>8. ASSUME NEW where, BumpVersion(where) PROVE DocsInv'
  <2>1. docs' = [defined |-> defined, cases |-> cases, scenarios |-> scenarios, counts |-> counts,
                 versions |-> [versions EXCEPT ![where] = 2], constants |-> constants,
                 defects |-> defects, rejected |-> rejected]
    BY <1>8 DEF BumpVersion, Edit
  <2> QED BY <1>5, <2>1
<1>9. ASSUME NEW where, NEW c, ChangeConstant(where, c) PROVE DocsInv'
  <2>1. docs' = [defined |-> defined, cases |-> cases, scenarios |-> scenarios, counts |-> counts,
                 versions |-> versions, constants |-> [constants EXCEPT ![where][c] = 1],
                 defects |-> defects, rejected |-> rejected]
    BY <1>9 DEF ChangeConstant, Edit
  <2> QED BY <1>5, <2>1
<1>10. ASSUME NEW m, SpoilData(m) \/ LoosenSchema(m) PROVE DocsInv'
  <2>1. \E e, f :
        docs' = [defined |-> defined, cases |-> cases, scenarios |-> scenarios, counts |-> counts,
                 versions |-> versions, constants |-> constants, defects |-> e, rejected |-> f]
    BY <1>10 DEF SpoilData, LoosenSchema, Edit
  <2> QED BY <1>5, <2>1
<1>11. CASE WriteTrace
  <2>1. docs' = docs
    BY <1>11 DEF WriteTrace
  <2> QED BY <1>5, <2>1
<1> QED BY <1>1, <1>2, <1>3, <1>4, <1>6, <1>7, <1>8, <1>9, <1>10, <1>11, <1>12, Zenon DEF DocsNext

\* What an accepted trace holds for a requirement is one id per index.
LEMMA RowCounts ==
  ASSUME NEW d, NEW cases, NEW scenarios, d.cases = cases, d.scenarios = scenarios,
         cases \in [1..4 -> Case], scenarios \in [1..2 -> Scenario], UniqueIds(d), NEW r
  PROVE  /\ Cardinality(RowOf(d, r, tvSections).vectors) =
              Cardinality({i \in DOMAIN cases : cases[i].rule # None /\ cases[i].rule[1] = r})
         /\ Cardinality(RowOf(d, r, tvSections).scenarios) =
              Cardinality({i \in DOMAIN scenarios : r \in scenarios[i].requirements})
<1> DEFINE J == {i \in DOMAIN cases : cases[i].rule # None /\ cases[i].rule[1] = r}
           K == {i \in DOMAIN scenarios : r \in scenarios[i].requirements}
           f == [i \in 1..4 |-> cases[i].id]
           g == [i \in 1..2 |-> scenarios[i].id]
<1>1. DOMAIN cases = 1..4 /\ DOMAIN scenarios = 1..2
  OBVIOUS
<1>2. IsFiniteSet(J) /\ IsFiniteSet(K)
  <2>1. IsFiniteSet(1..4) /\ IsFiniteSet(1..2)
    <3>1. 1 \in Int /\ 2 \in Int /\ 4 \in Int
      OBVIOUS
    <3> QED BY <3>1, FS_Interval, Zenon
  <2>2. J \in SUBSET (1..4) /\ K \in SUBSET (1..2)
    BY <1>1
  <2> QED BY <2>1, <2>2, FS_Subset
<1>3. \A i \in 1..4 : cases[i].section \in tvSections
  BY DEF Case
<1>4. RowOf(d, r, tvSections).vectors = {f[i] : i \in J}
  <2>1. RowOf(d, r, tvSections).vectors =
          {c.id : c \in {cases[i] : i \in {j \in DOMAIN cases : /\ cases[j].section \in tvSections
                                                               /\ cases[j].rule # None
                                                               /\ cases[j].rule[1] = r}}}
    BY DEF RowOf, Base
  <2>2. {j \in DOMAIN cases : /\ cases[j].section \in tvSections /\ cases[j].rule # None
                              /\ cases[j].rule[1] = r} = J
    BY <1>1, <1>3, Zenon
  <2>3. {c.id : c \in {cases[i] : i \in J}} = {cases[i].id : i \in J}
    BY Zenon
  <2>4. \A i \in J : f[i] = cases[i].id
    BY <1>1
  <2>5. {cases[i].id : i \in J} = {f[i] : i \in J}
    BY <2>4, Zenon
  <2> QED BY <2>1, <2>2, <2>3, <2>5, Zenon
<1>5. RowOf(d, r, tvSections).scenarios = {g[i] : i \in K}
  <2>1. RowOf(d, r, tvSections).scenarios = {s.id : s \in {scenarios[i] : i \in K}}
    BY DEF RowOf
  <2>3. {s.id : s \in {scenarios[i] : i \in K}} = {scenarios[i].id : i \in K}
    BY Zenon
  <2>4. \A i \in K : g[i] = scenarios[i].id
    BY <1>1
  <2>5. {scenarios[i].id : i \in K} = {g[i] : i \in K}
    BY <2>4, Zenon
  <2> QED BY <2>1, <2>3, <2>5, Zenon
<1>6. \A i, j \in J : f[i] = f[j] => i = j
  BY <1>1 DEF UniqueIds
<1>7. \A i, j \in K : g[i] = g[j] => i = j
  BY <1>1 DEF UniqueIds
<1>8. Cardinality({f[i] : i \in J}) = Cardinality(J)
  <2> HIDE DEF f, J
  <2> QED BY <1>2, <1>6, ImageCount
<1>9. Cardinality({g[i] : i \in K}) = Cardinality(K)
  <2> HIDE DEF g, K
  <2> QED BY <1>2, <1>7, ImageCount
<1> QED BY <1>4, <1>5, <1>8, <1>9, Zenon

\* A requirement with a row is defined: something cites it, and citations exist.
LEMMA CitedDefined ==
  ASSUME NEW d, CitationsExist(d), NEW r, RowOf(d, r, tvSections) # [vectors |-> {}, scenarios |-> {}]
  PROVE  r \in d.defined
<1>1. \A ref \in Citations(d) : ref[1] \in d.defined
  BY DEF CitationsExist, Base
<1>2. \/ \E i \in DOMAIN d.cases : d.cases[i].rule # None /\ d.cases[i].rule[1] = r
      \/ \E i \in DOMAIN d.scenarios : r \in d.scenarios[i].requirements
  BY DEF RowOf, Base
<1>3. CASE \E i \in DOMAIN d.cases : d.cases[i].rule # None /\ d.cases[i].rule[1] = r
  <2>1. PICK i \in DOMAIN d.cases : d.cases[i].rule # None /\ d.cases[i].rule[1] = r
    BY <1>3
  <2>2. d.cases[i].rule \in Citations(d)
    BY <2>1, Zenon DEF Citations
  <2> QED BY <1>1, <2>1, <2>2
<1>4. CASE \E i \in DOMAIN d.scenarios : r \in d.scenarios[i].requirements
  <2>1. <<r, 0>> \in Citations(d)
    BY <1>4, Zenon DEF Citations
  <2>2. <<r, 0>>[1] = r
    OBVIOUS
  <2> QED BY <1>1, <2>1, <2>2
<1> QED BY <1>2, <1>3, <1>4

LEMMA TraceAccepted == DocsInv => TraceHonest
<1> SUFFICES ASSUME DocsInv, Accepts(docs)
             PROVE  /\ DOMAIN trace.requirements = docs.defined
                    /\ trace.spec_version = docs.versions.spec
                    /\ trace.counts.requirements = Cardinality(docs.defined)
                    /\ \A r \in docs.defined :
                         /\ Cardinality(trace.requirements[r].vectors) =
                              Cardinality({i \in DOMAIN docs.cases :
                                 docs.cases[i].rule # None /\ docs.cases[i].rule[1] = r})
                         /\ Cardinality(trace.requirements[r].scenarios) =
                              Cardinality({i \in DOMAIN docs.scenarios :
                                 r \in docs.scenarios[i].requirements})
  BY Zenon DEF TraceHonest
<1> DEFINE cited == {r \in Reqs : RowOf(docs, r, tvSections) # [vectors |-> {}, scenarios |-> {}]}
           rows  == [r \in docs.defined \cup cited |-> RowOf(docs, r, tvSections)]
<1>1. /\ UniqueIds(docs) /\ CitationsExist(docs) /\ docs.versions.tv = docs.versions.spec
      /\ trace = Build(docs)
  BY DEF Accepts, VersionsAgree, TraceFresh
<1>2. docs.cases \in [1..4 -> Case] /\ docs.scenarios \in [1..2 -> Scenario]
  BY DEF DocsInv
<1>3. docs.defined \cup cited = docs.defined
  <2>1. cited \subseteq docs.defined
    BY <1>1, CitedDefined
  <2> QED BY <2>1, Zenon
<1>4. trace = [spec_version |-> docs.versions.tv,
               counts |-> [requirements |-> Cardinality(DOMAIN rows), executed |-> Cardinality(cited)],
               requirements |-> rows]
  BY <1>1 DEF Build, BuildFrom, tvSections
<1>5. DOMAIN rows = docs.defined /\ \A r \in docs.defined : rows[r] = RowOf(docs, r, tvSections)
  BY <1>3
<1> HIDE DEF cited, rows
<1>6. /\ trace.spec_version = docs.versions.tv /\ trace.requirements = rows
      /\ trace.counts.requirements = Cardinality(DOMAIN rows)
  BY <1>4
<1>7. \A r \in docs.defined :
        /\ Cardinality(rows[r].vectors) =
             Cardinality({i \in DOMAIN docs.cases :
                docs.cases[i].rule # None /\ docs.cases[i].rule[1] = r})
        /\ Cardinality(rows[r].scenarios) =
             Cardinality({i \in DOMAIN docs.scenarios : r \in docs.scenarios[i].requirements})
  <2>1. ASSUME NEW r
        PROVE  /\ Cardinality(RowOf(docs, r, tvSections).vectors) =
                    Cardinality({i \in DOMAIN docs.cases :
                       docs.cases[i].rule # None /\ docs.cases[i].rule[1] = r})
               /\ Cardinality(RowOf(docs, r, tvSections).scenarios) =
                    Cardinality({i \in DOMAIN docs.scenarios :
                       r \in docs.scenarios[i].requirements})
    <3>1. PICK cases, scenarios : cases = docs.cases /\ scenarios = docs.scenarios
      OBVIOUS
    <3>2. cases \in [1..4 -> Case] /\ scenarios \in [1..2 -> Scenario]
      BY <1>2, <3>1, Zenon
    <3>3. /\ Cardinality(RowOf(docs, r, tvSections).vectors) =
               Cardinality({i \in DOMAIN cases : cases[i].rule # None /\ cases[i].rule[1] = r})
          /\ Cardinality(RowOf(docs, r, tvSections).scenarios) =
               Cardinality({i \in DOMAIN scenarios : r \in scenarios[i].requirements})
      <4>1. docs.cases = cases /\ docs.scenarios = scenarios /\ UniqueIds(docs)
        BY <1>1, <3>1, Zenon
      <4> QED BY <3>2, <4>1, RowCounts
    <3> QED BY <3>1, <3>3, Zenon
  <2> QED BY <1>5, <2>1, Zenon
<1> QED BY <1>1, <1>5, <1>6, <1>7, Zenon

-----------------------------------------------------------------------------
(* The runtime matrix.                                                      *)

Vers == Seq(Nat)
Pos  == Nat \ {0}

\* The order of versions, a missing component being 0.
Below(a, b) == \E i \in Pos : /\ Component(a, i) < Component(b, i)
                              /\ \A j \in Pos : j < i => Component(a, j) = Component(b, j)
Same(a, b)  == \A i \in Pos : Component(a, i) = Component(b, i)

LEMMA MinOf ==
  ASSUME NEW D \in SUBSET Nat, D # {}
  PROVE  Min(D) \in D /\ \A y \in D : Min(D) <= y
<1>1. \E m \in D : \A y \in D : m <= y
  BY LeastNatural
<1> QED BY <1>1 DEF Min

LEMMA MaxOfTwo ==
  ASSUME NEW a \in Nat, NEW b \in Nat
  PROVE  Max({a, b}) \in Nat /\ a <= Max({a, b}) /\ b <= Max({a, b})
<1>1. \E x \in {a, b} : \A y \in {a, b} : x >= y
  OBVIOUS
<1>2. Max({a, b}) \in {a, b} /\ \A y \in {a, b} : Max({a, b}) >= y
  BY <1>1 DEF Max
<1> QED BY <1>2

LEMMA Components ==
  ASSUME NEW v \in Vers
  PROVE  /\ Len(v) \in Nat
         /\ \A i \in Pos : Component(v, i) \in Nat
         /\ \A i \in Pos : i > Len(v) => Component(v, i) = 0
  BY DEF Vers, Pos, Component

\* Beyond both lengths nothing differs.
LEMMA Widths ==
  ASSUME NEW a \in Vers, NEW b \in Vers
  PROVE  \E n \in Nat : /\ n = Max({Len(a), Len(b)})
                        /\ \A i \in Pos : i \in 1..n \/ (Component(a, i) = 0 /\ Component(b, i) = 0)
<1>1. Len(a) \in Nat /\ Len(b) \in Nat
  BY Components
<1>2. Max({Len(a), Len(b)}) \in Nat /\ Len(a) <= Max({Len(a), Len(b)})
      /\ Len(b) <= Max({Len(a), Len(b)})
  BY <1>1, MaxOfTwo
<1>3. ASSUME NEW i \in Pos, i \notin 1..Max({Len(a), Len(b)})
      PROVE  Component(a, i) = 0 /\ Component(b, i) = 0
  BY <1>1, <1>2, <1>3, Components DEF Pos
<1> QED BY <1>2, <1>3

LEMMA SameIs ==
  ASSUME NEW a \in Vers, NEW b \in Vers
  PROVE  SameVersion(a, b) <=> Same(a, b)
<1>1. PICK n \in Nat : /\ n = Max({Len(a), Len(b)})
                       /\ \A i \in Pos : i \in 1..n \/ (Component(a, i) = 0 /\ Component(b, i) = 0)
  BY Widths
<1>2. SameVersion(a, b) <=> \A i \in 1..n : Component(a, i) = Component(b, i)
  BY <1>1 DEF SameVersion
<1>3. \A i \in 1..n : i \in Pos
  BY DEF Pos
<1> QED BY <1>1, <1>2, <1>3, Zenon DEF Same

LEMMA OlderIs ==
  ASSUME NEW a \in Vers, NEW b \in Vers
  PROVE  Older(a, b) <=> Below(a, b)
<1>1. PICK n \in Nat : /\ n = Max({Len(a), Len(b)})
                       /\ \A i \in Pos : i \in 1..n \/ (Component(a, i) = 0 /\ Component(b, i) = 0)
  BY Widths
<1>2. Older(a, b) <=> \E i \in 1..n : /\ Component(a, i) < Component(b, i)
                                      /\ \A j \in 1..(i - 1) : Component(a, j) = Component(b, j)
  BY <1>1 DEF Older
<1>3. \A i \in Pos : Component(a, i) < Component(b, i) => i \in 1..n
  BY <1>1 DEF Pos
<1> QED BY <1>2, <1>3 DEF Below, Pos

\* cmp is that order.
LEMMA CmpMeans ==
  ASSUME NaN \notin Nat, NEW a \in Vers, NEW b \in Vers
  PROVE  /\ Cmp(a, b) = 0 => Same(a, b)
         /\ Cmp(a, b) <= 0 => ~ Below(b, a)
         /\ ~ Below(b, a) => Cmp(a, b) <= 0
<1>1. PICK n \in Nat : /\ n = Max({Len(a), Len(b)})
                       /\ \A i \in Pos : i \in 1..n \/ (Component(a, i) = 0 /\ Component(b, i) = 0)
  BY Widths
<1>2. \A i \in Pos : Component(a, i) \in Nat /\ Component(b, i) \in Nat
  BY Components
<1>3. PICK D : D = {i \in 1..n : Differ(a, b, i)}
  OBVIOUS
<1>4. \A i \in Pos : i \in D <=> Component(a, i) # Component(b, i)
  BY <1>1, <1>2, <1>3 DEF Differ, Pos
<1>5. D \in SUBSET Nat /\ D \subseteq Pos
  BY <1>3 DEF Pos
<1>6. Cmp(a, b) = IF D = {} THEN 0
                  ELSE IF Component(a, Min(D)) < Component(b, Min(D)) THEN -1 ELSE 1
  BY <1>1, <1>3 DEF Cmp, CmpUpTo
<1>7. CASE D = {}
  <2>1. Same(a, b) /\ Cmp(a, b) = 0
    BY <1>4, <1>6, <1>7 DEF Same
  <2>2. ~ Below(b, a)
    BY <1>2, <2>1 DEF Same, Below
  <2> QED BY <2>1, <2>2
<1>8. CASE D # {}
  <2>1. PICK m : m = Min(D) /\ m \in D /\ \A y \in D : m <= y
    BY <1>5, <1>8, MinOf
  <2>2. m \in Pos /\ Component(a, m) # Component(b, m)
    BY <1>4, <1>5, <2>1
  <2>3. \A j \in Pos : j < m => Component(a, j) = Component(b, j)
    BY <1>4, <1>5, <2>1 DEF Pos
  <2>4. Cmp(a, b) = IF Component(a, m) < Component(b, m) THEN -1 ELSE 1
    BY <1>6, <1>8, <2>1
  <2>5. CASE Component(a, m) < Component(b, m)
    <3>1. ASSUME NEW i \in Pos, Component(b, i) < Component(a, i),
                 \A j \in Pos : j < i => Component(b, j) = Component(a, j)
          PROVE  FALSE
      <4>1. i < m \/ i = m \/ m < i
        BY <2>2 DEF Pos
      <4> QED BY <1>2, <2>2, <2>3, <2>5, <3>1, <4>1
    <3>2. ~ Below(b, a)
      BY <3>1 DEF Below
    <3> QED BY <2>4, <2>5, <3>2
  <2>6. CASE ~ (Component(a, m) < Component(b, m))
    <3>1. Component(b, m) < Component(a, m)
      BY <1>2, <2>2, <2>6
    <3>2. Below(b, a)
      BY <2>2, <2>3, <3>1 DEF Below
    <3> QED BY <2>4, <2>6, <3>2
  <2> QED BY <2>5, <2>6
<1> QED BY <1>7, <1>8

LEMMA BelowOrder ==
  ASSUME NEW a \in Vers, NEW b \in Vers, NEW c \in Vers
  PROVE  /\ ~ Below(a, a)
         /\ Below(a, b) /\ Below(b, c) => Below(a, c)
         /\ Below(a, b) /\ Same(c, b) => Below(a, c)
<1>1. \A i \in Pos : Component(a, i) \in Nat /\ Component(b, i) \in Nat /\ Component(c, i) \in Nat
  BY Components
<1>2. ~ Below(a, a)
  BY <1>1 DEF Below
<1>3. ASSUME Below(a, b), Below(b, c) PROVE Below(a, c)
  <2>1. PICK i \in Pos : /\ Component(a, i) < Component(b, i)
                         /\ \A j \in Pos : j < i => Component(a, j) = Component(b, j)
    BY <1>3 DEF Below
  <2>2. PICK k \in Pos : /\ Component(b, k) < Component(c, k)
                         /\ \A j \in Pos : j < k => Component(b, j) = Component(c, j)
    BY <1>3 DEF Below
  <2>3. CASE i <= k
    <3>1. \A j \in Pos : j < i => Component(a, j) = Component(c, j)
      BY <2>1, <2>2, <2>3 DEF Pos
    <3>2. Component(a, i) < Component(c, i)
      <4>1. CASE i = k
        BY <1>1, <2>1, <2>2, <4>1
      <4>2. CASE i < k
        BY <1>1, <2>1, <2>2, <4>2
      <4> QED BY <2>3, <4>1, <4>2 DEF Pos
    <3> QED BY <3>1, <3>2 DEF Below
  <2>4. CASE k < i
    <3>1. \A j \in Pos : j < k => Component(a, j) = Component(c, j)
      BY <2>1, <2>2, <2>4 DEF Pos
    <3>2. Component(a, k) < Component(c, k)
      BY <1>1, <2>1, <2>2, <2>4
    <3> QED BY <3>1, <3>2 DEF Below
  <2> QED BY <2>3, <2>4 DEF Pos
<1>4. Below(a, b) /\ Same(c, b) => Below(a, c)
  BY DEF Below, Same
<1> QED BY <1>2, <1>3, <1>4

\* The version that fewest are older than: there is one no other is older than,
\* and sort(cmp)[0] is such a one.
LEMMA LowestOf ==
  ASSUME NaN \notin Nat, NEW S \in SUBSET Vers, IsFiniteSet(S), S # {}
  PROVE  Lowest(S) \in S /\ \A w \in S : ~ Below(w, Lowest(S))
<1> DEFINE Under(v) == {w \in S : Below(w, v)}
           D == {Cardinality(Under(v)) : v \in S}
<1>1. \A v \in S : IsFiniteSet(Under(v)) /\ Cardinality(Under(v)) \in Nat
  BY FS_Subset, FS_CardinalityType
<1>2. D \in SUBSET Nat /\ D # {}
  BY <1>1
<1>3. PICK m \in D : \A y \in D : m <= y
  <2> HIDE DEF D
  <2> QED BY <1>2, LeastNatural
<1>4. PICK v \in S : m = Cardinality(Under(v))
  BY <1>3
<1>5. ASSUME NEW w \in S, Below(w, v) PROVE FALSE
  <2>1. Under(w) \in SUBSET Under(v) /\ w \in Under(v) /\ w \notin Under(w)
    BY <1>4, <1>5, BelowOrder
  <2>2. Cardinality(Under(w)) <= Cardinality(Under(v))
        /\ (Cardinality(Under(v)) = Cardinality(Under(w)) => Under(v) = Under(w))
    <3> HIDE DEF Under
    <3> QED BY <1>1, <1>4, <2>1, FS_Subset
  <2>3. Cardinality(Under(w)) \in D
    BY <1>5
  <2>4. Cardinality(Under(w)) \in Nat /\ Cardinality(Under(v)) \in Nat
    BY <1>1, <1>4, <1>5
  <2> HIDE DEF Under, D
  <2> QED BY <1>3, <1>4, <2>1, <2>2, <2>3, <2>4
<1>6. \A w \in S : Cmp(v, w) <= 0
  BY <1>4, <1>5, CmpMeans
<1>7. Lowest(S) \in S /\ \A w \in S : Cmp(Lowest(S), w) <= 0
  BY <1>4, <1>6 DEF Lowest
<1> QED BY <1>7, CmpMeans

Channels == Vers \cup {Channel}
Pairs    == Channels \X Vers
OptVers  == Vers \cup {Undeclared}

\* What edits leave true: claims and images are versions, and the lists are
\* finite and hold versions of their runtime, or channels where it has them.
MatrixInv ==
  /\ manifest \in [floor : [{"go", "elixir"} -> OptVers], otp : OptVers,
                    targets : SUBSET Vers, testTargets : SUBSET Vers]
  /\ matrix \in [Keys -> {S \in SUBSET (Channels \cup Pairs) : IsFiniteSet(S)}]
  /\ matrix["go"] \subseteq Channels /\ matrix["elixir"] \subseteq Pairs
  /\ matrix["dotnet"] \subseteq Vers
  /\ xfloor \in [Keys -> Vers]

LEMMA Tables ==
  /\ Keys = {"go", "elixir", "dotnet"} /\ NaN \notin Nat
  /\ \A k \in Keys : Versions[k] \in SUBSET Vers /\ IsFiniteSet(Versions[k]) /\ Versions[k] # {}
  /\ Otps \in SUBSET Vers /\ IsFiniteSet(Otps) /\ Otps # {}
  BY MatrixAssumption DEF Keys, Vers

LEMMA ListingsOf ==
  /\ \A k \in Keys : \A S \in SUBSET Listings(k) : S \subseteq Channels \cup Pairs /\ IsFiniteSet(S)
  /\ Listings("go") \subseteq Channels /\ Listings("elixir") \subseteq Pairs
  /\ Listings("dotnet") \subseteq Vers
<1>1. Listings("go") = Versions["go"] \cup {Channel}
      /\ Listings("elixir") = (Versions["elixir"] \cup {Channel}) \X Otps
      /\ Listings("dotnet") = Versions["dotnet"]
  BY DEF Listings
<1>2. /\ Listings("go") \subseteq Channels /\ Listings("elixir") \subseteq Pairs
      /\ Listings("dotnet") \subseteq Vers
  BY <1>1, Tables DEF Channels, Pairs
<1>3. IsFiniteSet(Listings("go"))
  BY <1>1, Tables, FS_AddElement
<1>4. IsFiniteSet(Listings("elixir"))
  <2>1. IsFiniteSet(Versions["elixir"] \cup {Channel}) /\ IsFiniteSet(Otps)
    BY Tables, FS_AddElement
  <2> QED BY <1>1, <2>1, FS_Product
<1>5. IsFiniteSet(Listings("dotnet"))
  BY <1>1, Tables
<1>6. ASSUME NEW k \in Keys PROVE Listings(k) \subseteq Channels \cup Pairs /\ IsFiniteSet(Listings(k))
  BY <1>2, <1>3, <1>4, <1>5, Tables DEF Channels
<1>7. ASSUME NEW k \in Keys, NEW S \in SUBSET Listings(k)
      PROVE  S \subseteq Channels \cup Pairs /\ IsFiniteSet(S)
  BY <1>6, <1>7, FS_Subset
<1> QED BY <1>2, <1>7

LEMMA FirstVersion == \A k \in Keys : FirstOf(k) \in Versions[k] /\ FirstOf(k) \in Vers
  BY Tables, LowestOf DEF FirstOf

LEMMA MatrixStart == MatrixInit => MatrixInv
<1> SUFFICES ASSUME MatrixInit PROVE MatrixInv
  OBVIOUS
<1>1. \A k \in Keys : FirstOf(k) \in Vers /\ {FirstOf(k)} \subseteq Vers
  BY FirstVersion
<1>2. Lowest(Otps) \in Vers
  BY Tables, LowestOf
<1>3. manifest \in [floor : [{"go", "elixir"} -> OptVers], otp : OptVers,
                    targets : SUBSET Vers, testTargets : SUBSET Vers]
  BY <1>1, <1>2, Tables DEF MatrixInit, OptVers
<1>4. xfloor \in [Keys -> Vers]
  BY <1>1 DEF MatrixInit
<1>5. /\ DOMAIN matrix = Keys /\ matrix = [k \in Keys |-> matrix[k]]
      /\ matrix["go"] = {FirstOf("go"), Channel}
      /\ matrix["elixir"] = {<<FirstOf("elixir"), Lowest(Otps)>>}
      /\ matrix["dotnet"] = {FirstOf("dotnet")}
  BY Tables DEF MatrixInit
<1>6. /\ matrix["go"] \subseteq Channels /\ matrix["elixir"] \subseteq Pairs
      /\ matrix["dotnet"] \subseteq Vers
  BY <1>1, <1>2, <1>5, Tables DEF Channels, Pairs
<1>7. IsFiniteSet(matrix["go"]) /\ IsFiniteSet(matrix["elixir"]) /\ IsFiniteSet(matrix["dotnet"])
  <2>1. IsFiniteSet({FirstOf("go")}) /\ IsFiniteSet(matrix["elixir"]) /\ IsFiniteSet(matrix["dotnet"])
    BY <1>5, FS_Singleton
  <2>2. matrix["go"] = {FirstOf("go")} \cup {Channel}
    BY <1>5
  <2> QED BY <2>1, <2>2, FS_AddElement
<1>8. \A k \in Keys : matrix[k] \in {S \in SUBSET (Channels \cup Pairs) : IsFiniteSet(S)}
  BY <1>6, <1>7, Tables DEF Channels
<1>9. matrix \in [Keys -> {S \in SUBSET (Channels \cup Pairs) : IsFiniteSet(S)}]
  BY <1>5, <1>8
<1> QED BY <1>3, <1>4, <1>6, <1>9 DEF MatrixInv

LEMMA MatrixStep == MatrixInv /\ MatrixNext => MatrixInv'
<1> SUFFICES ASSUME MatrixInv, MatrixNext PROVE MatrixInv'
  OBVIOUS
<1>1. ASSUME NEW k \in {"go", "elixir"}, NEW v \in Versions[k] \cup {Undeclared}, SetFloor(k, v)
      PROVE  MatrixInv'
  <2>1. v \in OptVers
    BY <1>1, Tables DEF OptVers
  <2> QED BY <1>1, <2>1 DEF SetFloor, MatrixInv
<1>2. ASSUME NEW v \in Otps \cup {Undeclared}, SetOtp(v) PROVE MatrixInv'
  <2>1. v \in OptVers
    BY <1>2, Tables DEF OptVers
  <2> QED BY <1>2, <2>1 DEF SetOtp, MatrixInv
<1>3. ASSUME NEW T \in SUBSET Versions["dotnet"], NEW U \in SUBSET Versions["dotnet"], Retarget(T, U)
      PROVE  MatrixInv'
  <2>1. T \in SUBSET Vers /\ U \in SUBSET Vers
    BY <1>3, Tables
  <2> QED BY <1>3, <2>1 DEF Retarget, MatrixInv
<1>4. ASSUME NEW k \in Keys, NEW S \in SUBSET Listings(k), Relist(k, S) PROVE MatrixInv'
  <2>1. S \in {R \in SUBSET (Channels \cup Pairs) : IsFiniteSet(R)}
    BY <1>4, ListingsOf
  <2>2. matrix' = [matrix EXCEPT ![k] = S] /\ UNCHANGED <<manifest, xfloor>>
    BY <1>4 DEF Relist
  <2>3. matrix' \in [Keys -> {R \in SUBSET (Channels \cup Pairs) : IsFiniteSet(R)}]
    BY <2>1, <2>2 DEF MatrixInv
  <2>4. \A q \in Keys : matrix'[q] = IF q = k THEN S ELSE matrix[q]
    BY <2>2 DEF MatrixInv
  <2>5. /\ matrix'["go"] \subseteq Channels /\ matrix'["elixir"] \subseteq Pairs
        /\ matrix'["dotnet"] \subseteq Vers
    BY <1>4, <2>4, Tables, ListingsOf DEF MatrixInv
  <2> QED BY <2>2, <2>3, <2>5 DEF MatrixInv
<1>5. ASSUME NEW k \in Keys, NEW v \in Versions[k], Repin(k, v) PROVE MatrixInv'
  <2>1. v \in Vers
    BY <1>5, Tables
  <2> QED BY <1>5, <2>1 DEF Repin, MatrixInv
<1>6. CASE WriteSupport
  BY <1>6 DEF WriteSupport, MatrixInv
<1>7. CASE DropBlock
  BY <1>7 DEF DropBlock, MatrixInv
<1> QED BY <1>1, <1>2, <1>3, <1>4, <1>5, <1>6, <1>7 DEF MatrixNext

\* A list with a version in it, its floor at a claim: the claim is one of the
\* list, and nothing of the list is older.
LEMMA FloorMeans ==
  ASSUME NEW S \in SUBSET Vers, IsFiniteSet(S), S # {}, NEW claim \in Vers,
         Cmp(Lowest(S), claim) = 0
  PROVE  /\ Lowest(S) \in S /\ Same(Lowest(S), claim)
         /\ \E v \in S : SameVersion(v, claim)
         /\ \A v \in S : ~ Older(v, claim)
<1>1. Lowest(S) \in S /\ \A w \in S : ~ Below(w, Lowest(S))
  BY Tables, LowestOf
<1>2. PICK l \in Vers : l = Lowest(S)
  BY <1>1
<1>3. Same(l, claim)
  BY <1>2, Tables, CmpMeans
<1>4. SameVersion(l, claim)
  BY <1>3, SameIs
<1>5. ASSUME NEW v \in S, Older(v, claim) PROVE FALSE
  <2>1. v \in Vers /\ Below(v, claim)
    BY <1>5, OlderIs
  <2>2. Below(v, l)
    BY <1>3, <2>1, BelowOrder
  <2> QED BY <1>1, <1>2, <2>2
<1> QED BY <1>1, <1>2, <1>3, <1>4, <1>5

LEMMA SameSymmetric ==
  ASSUME NEW a \in Vers, NEW b \in Vers, NEW c \in Vers, Same(a, b), Same(a, c)
  PROVE  SameVersion(c, b)
<1>1. Same(c, b)
  BY DEF Same
<1> QED BY <1>1, SameIs

LEMMA SupportEarnedBy == MatrixInv => SupportEarned
<1> SUFFICES ASSUME MatrixInv, MatrixCheck, FloorCheck
             PROVE  /\ \A k \in {"go", "elixir"} :
                         /\ \E v \in Numeric(Flattened(k)) : SameVersion(v, manifest.floor[k])
                         /\ \A v \in Numeric(Flattened(k)) : ~ Older(v, manifest.floor[k])
                         /\ SameVersion(xfloor[k], manifest.floor[k])
                    /\ support["go"].floor = manifest.floor["go"]
                    /\ \A t \in manifest.targets : t \in matrix["dotnet"] /\ t \in manifest.testTargets
                    /\ \E t \in manifest.targets : SameVersion(xfloor["dotnet"], t)
                    /\ manifest.otp # Undeclared => \A v \in OtpsOf : ~ Older(v, manifest.otp)
  BY Zenon DEF SupportEarned
<1>1. GoOk /\ ElixirOk /\ DotnetOk /\ support = Table
  BY DEF MatrixCheck
<1>2. \A k \in Keys : IsFiniteSet(matrix[k])
  BY DEF MatrixInv
<1>3. IsFiniteSet(Elixirs) /\ IsFiniteSet(OtpsOf)
  <2>1. IsFiniteSet(matrix["elixir"])
    BY <1>2, Tables
  <2>2. [p \in matrix["elixir"] |-> p[1]] \in Surjection(matrix["elixir"], Elixirs)
    BY DEF Surjection, Elixirs
  <2>3. [p \in matrix["elixir"] |-> p[2]] \in Surjection(matrix["elixir"], OtpsOf)
    BY DEF Surjection, OtpsOf
  <2> QED BY <2>1, <2>2, <2>3, FS_Surjection
<1>4. Elixirs \subseteq Channels /\ OtpsOf \subseteq Vers
  BY DEF MatrixInv, Pairs, Elixirs, OtpsOf
<1>5. \A k \in Keys : Flattened(k) \subseteq Channels /\ IsFiniteSet(Flattened(k))
  BY <1>2, <1>3, <1>4, Tables DEF Flattened, MatrixInv, Channels
<1>6. \A S : S \subseteq Channels => Numeric(S) \subseteq Vers
  BY DEF Numeric, Channels, Channel
<1>7. \A k \in Keys : Numeric(Flattened(k)) \in SUBSET Vers /\ IsFiniteSet(Numeric(Flattened(k)))
  <2>1. \A S : Numeric(S) \subseteq S
    BY DEF Numeric
  <2> QED BY <1>5, <1>6, <2>1, FS_Subset
<1>8. \A k \in Keys : /\ Numeric(Flattened(k)) # {}
                      /\ Cmp(Lowest(Numeric(Flattened(k))), xfloor[k]) = 0
                      /\ xfloor[k] \in Vers
  BY DEF FloorCheck, DeclaredFloor, MatrixInv
<1>9. \A k \in {"go", "elixir"} : /\ manifest.floor[k] \in Vers
                                  /\ Cmp(Lowest(Numeric(Flattened(k))), manifest.floor[k]) = 0
  BY <1>1 DEF GoOk, ElixirOk, MatrixInv, OptVers, Flattened
<1>10. ASSUME NEW k \in {"go", "elixir"}
       PROVE  /\ \E v \in Numeric(Flattened(k)) : SameVersion(v, manifest.floor[k])
              /\ \A v \in Numeric(Flattened(k)) : ~ Older(v, manifest.floor[k])
              /\ SameVersion(xfloor[k], manifest.floor[k])
  <2>0. k \in Keys
    BY Tables
  <2>1. PICK S : S = Numeric(Flattened(k))
    OBVIOUS
  <2>2. /\ S \in SUBSET Vers /\ IsFiniteSet(S) /\ S # {} /\ manifest.floor[k] \in Vers
        /\ xfloor[k] \in Vers /\ Cmp(Lowest(S), manifest.floor[k]) = 0 /\ Cmp(Lowest(S), xfloor[k]) = 0
    BY <1>7, <1>8, <1>9, <2>0, <2>1
  <2>3. /\ Lowest(S) \in Vers /\ Same(Lowest(S), manifest.floor[k])
        /\ \E v \in S : SameVersion(v, manifest.floor[k])
        /\ \A v \in S : ~ Older(v, manifest.floor[k])
        /\ Same(Lowest(S), xfloor[k])
    BY <2>2, FloorMeans
  <2> QED BY <2>1, <2>2, <2>3, SameSymmetric
<1>11. support["go"].floor = manifest.floor["go"]
  <2>1. "go" \in Keys /\ HasRow("go")
    BY <1>1, Tables DEF HasRow, GoOk
  <2>2. support["go"] = Row("go")
    BY <1>1, <2>1 DEF Table
  <2> QED BY <2>2 DEF Row
<1>12. \A t \in manifest.targets : t \in matrix["dotnet"] /\ t \in manifest.testTargets
  BY <1>1 DEF DotnetOk
<1>13. \E t \in manifest.targets : SameVersion(xfloor["dotnet"], t)
  <2>1. PICK S : S = Numeric(matrix["dotnet"])
    OBVIOUS
  <2>2. /\ S \in SUBSET Vers /\ IsFiniteSet(S) /\ S # {} /\ xfloor["dotnet"] \in Vers
        /\ Cmp(Lowest(S), xfloor["dotnet"]) = 0
    BY <1>7, <1>8, <2>1, Tables DEF Flattened
  <2>3. Lowest(S) \in S /\ Same(Lowest(S), xfloor["dotnet"])
    BY <2>2, FloorMeans
  <2>4. Lowest(S) \in manifest.targets
    BY <1>1, <2>1, <2>3 DEF DotnetOk, Numeric
  <2>5. SameVersion(xfloor["dotnet"], Lowest(S))
    <3>1. Same(Lowest(S), Lowest(S))
      BY DEF Same
    <3> QED BY <2>2, <2>3, <3>1, SameSymmetric
  <2> QED BY <2>4, <2>5
<1>14. ASSUME manifest.otp # Undeclared PROVE \A v \in OtpsOf : ~ Older(v, manifest.otp)
  <2>1. manifest.otp \in Vers /\ Cmp(Lowest(OtpsOf), manifest.otp) = 0
    BY <1>1, <1>14 DEF ElixirOk, MatrixInv, OptVers
  <2>2. OtpsOf # {}
    BY <1>1 DEF ElixirOk, OtpsOf
  <2> QED BY <1>3, <1>4, <2>1, <2>2, FloorMeans
<1> QED BY <1>10, <1>11, <1>12, <1>13, <1>14

-----------------------------------------------------------------------------
(* The gates side by side.                                                  *)

GateInv == ScenarioInv /\ DocsInv /\ SessionInv /\ ComposeInv /\ MatrixInv

LEMMA GateStart == GateInit => GateInv
<1> SUFFICES ASSUME GateInit PROVE GateInv
  OBVIOUS
<1>1. ScenarioInv
  BY DEF GateInit, VectorInit, ScenarioInv, ScenarioFollowable
<1> QED BY <1>1, DocsStart, SessionStart, ComposeInit, MatrixStart DEF GateInit, VectorInit, GateInv

LEMMA ScenarioKept == ScenarioInv /\ UNCHANGED <<validator, runner>> => ScenarioInv'
  BY DEF ScenarioInv, ScenarioFollowable

LEMMA DocsKept == DocsInv /\ UNCHANGED docs => DocsInv'
  BY DEF DocsInv

LEMMA SessionKept == SessionInv /\ UNCHANGED session => SessionInv'
  BY DEF SessionInv

LEMMA MatrixKept == MatrixInv /\ UNCHANGED matrixVars => MatrixInv'
  BY DEF MatrixInv, matrixVars

LEMMA GateStep == GateInv /\ [GateNext]_gateVars => GateInv'
<1> SUFFICES ASSUME GateInv, [GateNext]_gateVars PROVE GateInv'
  OBVIOUS
<1> USE DEF GateInv
<1>1. CASE DocsNext /\ UNCHANGED <<harnessVars, matrixVars>>
  <2>1. UNCHANGED <<validator, runner>>
    BY <1>1 DEF DocsNext, CiteRule, CopyCase, ReuseId, CiteScenario, MakeConditional, Recount, Redefine,
                BumpVersion, ChangeConstant, SpoilData, LoosenSchema, Edit, WriteTrace
  <2>2. UNCHANGED <<compose, session>>
    BY <1>1 DEF harnessVars
  <2>3. UNCHANGED matrixVars
    BY <1>1
  <2> QED BY <1>1, <2>1, <2>2, <2>3, DocsStep, ScenarioKept, SessionKept, ComposeKept, MatrixKept
<1>2. CASE /\ \E s \in Step, asExpected \in BOOLEAN : AppendStep(s, asExpected)
           /\ UNCHANGED <<harnessVars, matrixVars>>
  <2>1. ScenarioInv'
    BY <1>2, ScenarioStep
  <2>2. UNCHANGED <<docs, compose, session>>
    BY <1>2 DEF AppendStep, harnessVars
  <2>3. UNCHANGED matrixVars
    BY <1>2
  <2> QED BY <2>1, <2>2, <2>3, DocsKept, SessionKept, ComposeKept, MatrixKept
<1>3. CASE HarnessNext /\ UNCHANGED <<vectorVars, matrixVars>>
  <2>1. UNCHANGED <<docs, validator, runner>>
    BY <1>3 DEF vectorVars
  <2>2. UNCHANGED matrixVars
    BY <1>3
  <2> QED BY <1>3, <2>1, <2>2, HarnessStep, ComposeStep, DocsKept, ScenarioKept, MatrixKept
<1>4. CASE (MatrixNext \/ UNCHANGED matrixVars) /\ UNCHANGED <<vectorVars, harnessVars>>
  <2>1. UNCHANGED <<docs, validator, runner, compose, session>>
    BY <1>4 DEF vectorVars, harnessVars
  <2>2. MatrixInv'
    BY <1>4, MatrixStep, MatrixKept
  <2> QED BY <2>1, <2>2, DocsKept, ScenarioKept, SessionKept, ComposeKept
<1>5. \/ DocsNext /\ UNCHANGED <<harnessVars, matrixVars>>
      \/ /\ \E s \in Step, asExpected \in BOOLEAN : AppendStep(s, asExpected)
         /\ UNCHANGED <<harnessVars, matrixVars>>
      \/ HarnessNext /\ UNCHANGED <<vectorVars, matrixVars>>
      \/ (MatrixNext \/ UNCHANGED matrixVars) /\ UNCHANGED <<vectorVars, harnessVars>>
  <2>1. UNCHANGED gateVars => UNCHANGED matrixVars /\ UNCHANGED <<vectorVars, harnessVars>>
    BY Zenon DEF gateVars
  <2>2. GateNext \/ UNCHANGED gateVars
    OBVIOUS
  <2> QED BY <2>1, <2>2, Zenon DEF GateNext, VectorNext
<1> QED BY <1>1, <1>2, <1>3, <1>4, <1>5

\* The five inductive invariants hold in every state of the gates, whatever
\* the names, key ids, packages, versions and bounds.
THEOREM GateCorrect == GateSpec => []GateInv
<1>1. GateInit => GateInv
  BY GateStart
<1>2. GateInv /\ [GateNext]_gateVars => GateInv'
  BY GateStep
<1> QED BY <1>1, <1>2, PTL DEF GateSpec, gateVars

\* A scenario section 7 of validate-vectors.mjs finds nothing wrong with is
\* one the conformance runner follows to its end, for any set of names and
\* key ids and any number of steps.
THEOREM ScenarioTheorem == GateSpec => []ScenarioFollowable
<1>1. GateInv => ScenarioFollowable
  BY DEF GateInv, ScenarioInv
<1> QED BY <1>1, GateCorrect, PTL

\* The accepted traceability.json has a row for exactly the defined
\* requirements, and each row counts every citing case and scenario once.
THEOREM TraceTheorem == GateSpec => []TraceHonest
<1>1. GateInv => TraceHonest
  BY TraceAccepted DEF GateInv
<1> QED BY <1>1, GateCorrect, PTL

\* No sequence of edits of schemas and data ends in an accepted tree that
\* holds a defect the self-test of validate-vectors.mjs plants.
THEOREM DefectTheorem == GateSpec => []NoDefectAccepted
<1>1. NoDefectAccepted
  BY DEF NoDefectAccepted, Accepts, SchemaValid, SelfTest
<1> QED BY <1>1, PTL

\* A run of docker-test.mjs exits with status 0 exactly when every suite asked
\* for ran to exit status 0, however often a package is named, and a run with no
\* arguments says that every implementation agrees exactly when every package's
\* suite did, for any finite set of packages.
THEOREM VerdictTheorem == GateSpec => []VerdictEarned
<1>1. GateInv => VerdictEarned
  BY Verdict DEF GateInv
<1> QED BY <1>1, GateCorrect, PTL

\* What Docker runs from a compose.yml that docker-test.mjs --check accepted is
\* explained or stands in the CI job of the same name, for any finite set of
\* packages, any texts and any relation of inclusion between them, and any number
\* of lines added and taken: the checker's line reader and YAML, which never meet
\* in the code, stay in lock step over every valid file whose script lines are at
\* one indentation.
THEOREM HarnessTheorem == GateSpec => []DockerRunsChecked
<1>1. GateInv => DockerRunsChecked
  BY CheckedRuns DEF GateInv
<1> QED BY <1>1, GateCorrect, PTL

\* A runtime is supported only when CI exercises it: when
\* check-runtime-matrix.mjs and the floor check of docker-test.mjs accept, the
\* claimed floor is tested, nothing older is, and the harness image and
\* SUPPORT.md are at that floor, for any lists of versions of any length.
THEOREM SupportTheorem == GateSpec => []SupportEarned
<1>1. GateInv => SupportEarned
  BY SupportEarnedBy DEF GateInv
<1> QED BY <1>1, GateCorrect, PTL
=============================================================================
