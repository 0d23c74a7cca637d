----------------------------- MODULE SweepProofs -----------------------------
(***************************************************************************)
(* The engine over the in-memory stores of the Java and C# ports, whose    *)
(* bulk revocations walk the rows: NoFork, LinearLineage, EvidenceKept and *)
(* GraceNotExtended carry over, and SnapshotRevoked is what is left of     *)
(* RevocationHolds.                                                        *)
(***************************************************************************)
EXTENDS SweepingStore, EvidenceProofs

-----------------------------------------------------------------------------
(* The inductive invariant: what a walk has visited stays revoked.          *)

Gone(s) == rows[s].status \in {"revoked", "absent"}

Predicates == {ByFamily(f) : f \in Families} \cup {ByUser(u) : u \in Users}

\* A walk in progress: what it found still answers to its predicate, and what
\* it has come past is revoked or collected.
WalkOK(w) ==
  /\ w.by \in Predicates
  /\ w.todo \subseteq Selectors
  /\ w.found \subseteq minted
  /\ w.doomed \subseteq Families
  /\ \A s \in w.found : Present(s) => Matches(s, w.by)
  /\ \A s \in w.found \ w.todo : Gone(s)

Walk == [by : Predicates, todo : SUBSET Selectors, found : SUBSET Selectors,
         doomed : SUBSET Families]

SweepInv ==
  /\ sweep \in [Calls -> Walk \cup {None}]
  /\ \A c \in Calls : sweep[c] # None => WalkOK(sweep[c])
  /\ swept \subseteq minted
  /\ SnapshotRevoked

-----------------------------------------------------------------------------
(* What every step does to a row somebody knows.                            *)

Forward(s) ==
  /\ Gone(s) => Gone(s)'
  /\ Present(s)' => /\ Present(s)
                    /\ rows'[s].familyId = rows[s].familyId
                    /\ rows'[s].userId = rows[s].userId

LEMMA EngineForward ==
  ASSUME TypeInv, IInv, [Next]_vars
  PROVE  minted \subseteq minted' /\ \A s \in minted : Forward(s)
<1>1. minted \subseteq minted'
  <2>1. ASSUME NEW c \in Calls, Takes(c) PROVE minted \subseteq minted'
    BY <2>1 DEF Takes, Progress, BeginIssue, BeginPresent, Begin, RefuseMalformed, IssueInsert, Find,
       RefuseUnproved, CheckRevokeToken, CheckRotated, CheckRevoked, CheckActive, FindSuccessor,
       Consume, InsertSuccessor, MarkPredecessor, Compensate, RevokeFamilyOf, Abort, historyVars
  <2> QED BY <2>1 DEF Next, Takes, AdminRevokeFamily, AdminRevokeUser, DeleteExpired, Tick, vars,
                      historyVars
<1>2. ASSUME NEW s \in minted PROVE Forward(s)
  <2>1. s \in Selectors /\ RowStep(s) /\ ~ Appears(s) /\ EvidenceStep(s)
    BY RowSteps, RowEvidence DEF Appears, Fresh, TypeInv, TypeOK
  <2>2. rows[s] \in TokenRecord \/ rows[s] = NoRow
    BY <2>1 DEF TypeInv, TypeOK
  <2>3. ASSUME NEW c \in Calls, Marks(c, s) PROVE Forward(s)
    <3>1. rows[s].status \in {"active", "rotated"}
      BY <2>3 DEF Marks, TypeInv, LocalsOK, Rotating
    <3>2. rows[s] \in TokenRecord
      BY <2>2, <3>1, RecordStatus
    <3> QED BY <2>3, <3>1, <3>2 DEF Marks, Forward, Gone, Present, TokenRecord
  <2>4. CASE rows'[s] = rows[s] \/ rows'[s] = NoRow
    BY <2>4, RecordStatus DEF Forward, Gone, Present
  <2>5. CASE Present(s) /\ rows'[s] = Revoked(rows[s])
    BY <2>2, <2>5, RecordStatus DEF Forward, Gone, Present, Revoked, TokenRecord
  <2> QED BY <2>1, <2>3, <2>4, <2>5 DEF RowStep
<1> QED BY <1>1, <1>2

LEMMA ShrunkForward ==
  ASSUME TypeInv, Shrinks, NEW s \in Selectors
  PROVE  Forward(s)
<1>1. rows[s] \in TokenRecord \/ rows[s] = NoRow
  BY DEF TypeInv, TypeOK
<1> QED BY <1>1, RecordStatus DEF Shrinks, Forward, Gone, Present, Revoked, TokenRecord

\* A known row that answers to a predicate answers to it as long as it is there.
LEMMA MatchesKept ==
  ASSUME NEW s, Forward(s), NEW by \in Predicates, Matches(s, by), Present(s)'
  PROVE  Matches(s, by)'
<1>1. \/ \E f : by = [field |-> "familyId", value |-> f]
      \/ \E u : by = [field |-> "userId", value |-> u]
  BY DEF Predicates, ByFamily, ByUser
<1>2. by.field \in {"familyId", "userId"}
  BY <1>1
<1>3. rows'[s][by.field] = rows[s][by.field]
  BY <1>2 DEF Forward
<1> QED BY <1>3 DEF Matches

\* Walks that do not move.
LEMMA WalkKept ==
  ASSUME TypeInv, SweepInv, minted \subseteq minted', \A s \in minted : Forward(s),
         NEW w \in Walk, WalkOK(w)
  PROVE  WalkOK(w)'
<1>1. \A s \in w.found : Present(s)' => Matches(s, w.by)'
  BY MatchesKept DEF WalkOK, Forward
<1> QED BY <1>1 DEF WalkOK, Forward

LEMMA SweptKept ==
  ASSUME SweepInv, minted \subseteq minted', \A s \in minted : Forward(s)
  PROVE  swept \subseteq minted' /\ \A s \in swept : rows'[s].status \in {"revoked", "absent"}
  BY DEF SweepInv, SnapshotRevoked, Forward, Gone

-----------------------------------------------------------------------------
(* The steps.                                                               *)

\* What holds of the engine and of its walks.
StoreInv == TypeInv /\ IInv /\ SweepInv

LEMMA SweepStart == SweepInit => StoreInv
<1>1. SweepInit => TypeInv /\ IInv
  BY InitType, InitIInv DEF SweepInit
<1>2. SweepInit => SweepInv
  BY DEF SweepInit, Init, SweepInv, SnapshotRevoked
<1> QED BY <1>1, <1>2 DEF StoreInv

\* Steps of the engine that no walk takes part in.
LEMMA NoWalk ==
  ASSUME StoreInv, [Next]_vars, UNCHANGED <<sweep, swept>>
  PROVE  StoreInv'
<1>1. TypeInv' /\ IInv'
  BY StepType, StepIInv DEF StoreInv
<1>2. minted \subseteq minted' /\ \A s \in minted : Forward(s)
  BY EngineForward DEF StoreInv
<1>3. \A c \in Calls : sweep'[c] # None => WalkOK(sweep[c])'
  BY <1>2, WalkKept DEF StoreInv, SweepInv
<1>4. SweepInv'
  BY <1>2, <1>3, SweptKept DEF StoreInv, SweepInv, SnapshotRevoked
<1> QED BY <1>1, <1>4 DEF StoreInv

\* A step that leaves the calls alone and only revokes or collects rows.
LEMMA OnlyRows ==
  ASSUME StoreInv, Shrinks, Silent, rows' \in [Selectors -> TokenRecord \cup {NoRow}],
         UNCHANGED <<clock, callVars, historyVars>>
  PROVE  TypeInv' /\ IInv' /\ minted \subseteq minted' /\ \A s \in minted : Forward(s)
<1>1. TypeInv'
  BY DEF StoreInv, Silent, TypeInv, TypeOK, LocalsOK, callVars, historyVars, Presenting, Proved,
         Rotating
<1>2. Quiet
  BY DEF Quiet, Kept, callVars, historyVars
<1>3. IInv'
  BY <1>2, QuietStep DEF StoreInv
<1> QED BY <1>1, <1>3, ShrunkForward DEF StoreInv, TypeInv, TypeOK, historyVars

\* A walk starts on the rows of its predicate.
LEMMA StartStep ==
  ASSUME StoreInv, NEW c \in Calls, NEW by \in Predicates, StartSweep(c, by), Silent,
         UNCHANGED <<storeVars, callVars, historyVars, swept>>
  PROVE  StoreInv'
<1>1. TypeInv' /\ IInv' /\ minted \subseteq minted' /\ \A s \in minted : Forward(s)
  BY OnlyRows DEF Shrinks, StoreInv, TypeInv, TypeOK, storeVars, historyVars
<1>2. PICK w : w = [by     |-> by,
                    todo   |-> {s \in Selectors : Present(s)},
                    found  |-> {s \in Selectors : Matches(s, by)},
                    doomed |-> {rows[s].familyId : s \in {t \in Selectors : Matches(t, by)}}]
  OBVIOUS
<1>3. w \in Walk /\ WalkOK(w)
  <2>1. w.found \subseteq minted
    BY <1>2 DEF StoreInv, IInv, RowsOK, Matches
  <2>2. \A s \in Selectors : Matches(s, by) => rows[s] \in TokenRecord
    BY RecordStatus DEF Matches, Present, StoreInv, TypeInv, TypeOK
  <2>3. w.doomed \subseteq Families
    BY <1>2, <2>2 DEF TokenRecord
  <2>4. \A s \in w.found \ w.todo : Gone(s)
    BY <1>2 DEF Matches
  <2> QED BY <1>2, <2>1, <2>3, <2>4 DEF Walk, WalkOK, Matches
<1>4. sweep' = [sweep EXCEPT ![c] = w] /\ WalkOK(w)'
  BY <1>1, <1>2, <1>3, WalkKept DEF StartSweep, StoreInv
<1>5. sweep' \in [Calls -> Walk \cup {None}]
  BY <1>3, <1>4 DEF StoreInv, SweepInv
<1>6. ASSUME NEW d \in Calls, sweep'[d] # None PROVE WalkOK(sweep[d])'
  <2>1. CASE d = c
    BY <1>4, <2>1 DEF StoreInv, SweepInv, WalkOK, Matches, Gone, Present
  <2>2. CASE d # c
    <3>1. sweep'[d] = sweep[d] /\ sweep[d] \in Walk /\ WalkOK(sweep[d])
      BY <1>4, <1>6, <2>2 DEF StoreInv, SweepInv
    <3> QED BY <1>1, <3>1, WalkKept DEF StoreInv
  <2> QED BY <2>1, <2>2
<1>7. SweepInv'
  BY <1>1, <1>5, <1>6, SweptKept DEF StoreInv, SweepInv, SnapshotRevoked
<1> QED BY <1>1, <1>7 DEF StoreInv

\* One visit: the row is revoked if it answers to the predicate.
LEMMA VisitStep ==
  ASSUME StoreInv, NEW c \in Calls, SweepRow(c)
  PROVE  StoreInv'
<1>1. PICK w \in Walk : w = sweep[c] /\ WalkOK(w)
  BY DEF SweepRow, StoreInv, SweepInv
<1>2. PICK s \in Selectors :
        /\ rows' = [rows EXCEPT ![s] = IF SweepHits(s, w.by) THEN Revoked(@) ELSE @]
        /\ sweep' = [sweep EXCEPT ![c].todo = @ \ {s}]
  BY <1>1 DEF SweepRow, WalkOK
<1>3. /\ Silent /\ UNCHANGED <<clock, callVars, historyVars, swept>>
  BY DEF SweepRow
<1>4. Shrinks /\ rows' \in [Selectors -> TokenRecord \cup {NoRow}]
  <2>1. SweepHits(s, w.by) => Present(s) /\ rows[s] \in TokenRecord
    BY RecordStatus DEF SweepHits, Matches, Present, StoreInv, TypeInv, TypeOK
  <2> QED BY <1>2, <1>3, <2>1, RevokedType DEF Shrinks, StoreInv, TypeInv, TypeOK, historyVars
<1>5. TypeInv' /\ IInv' /\ minted \subseteq minted' /\ \A t \in minted : Forward(t)
  BY <1>3, <1>4, OnlyRows
<1>6. s \in w.found => Gone(s)'
  <2>1. rows[s] \in TokenRecord \/ rows[s] = NoRow
    BY DEF StoreInv, TypeInv, TypeOK
  <2>2. CASE rows[s] = NoRow
    BY <1>2, <2>2, RecordStatus DEF SweepHits, Matches, Present, Gone, StoreInv, TypeInv, TypeOK
  <2>3. CASE rows[s] \in TokenRecord
    <3>1. s \in w.found => Matches(s, w.by)
      BY <1>1, <2>3, RecordStatus DEF WalkOK, Present
    <3>2. SweepHits(s, w.by) => rows'[s] = Revoked(rows[s])
      BY <1>2 DEF StoreInv, TypeInv, TypeOK
    <3>3. ~ SweepHits(s, w.by) => rows'[s] = rows[s]
      BY <1>2 DEF StoreInv, TypeInv, TypeOK
    <3> QED BY <2>3, <3>1, <3>2, <3>3 DEF SweepHits, Gone, Revoked, TokenRecord
  <2> QED BY <2>1, <2>2, <2>3
<1>7. PICK v : v = [w EXCEPT !.todo = @ \ {s}]
  OBVIOUS
<1>8. /\ v \in Walk /\ v.by = w.by /\ v.found = w.found /\ v.doomed = w.doomed
      /\ v.todo = w.todo \ {s}
  BY <1>7 DEF Walk
<1>9. WalkOK(w)'
  BY <1>1, <1>5, WalkKept DEF StoreInv
<1>10. WalkOK(v)'
  BY <1>6, <1>8, <1>9 DEF WalkOK
<1>11. sweep' = [sweep EXCEPT ![c] = v]
  BY <1>1, <1>2, <1>7 DEF StoreInv, SweepInv
<1>12. sweep' \in [Calls -> Walk \cup {None}]
  BY <1>8, <1>11 DEF StoreInv, SweepInv
<1>13. ASSUME NEW d \in Calls, sweep'[d] # None PROVE WalkOK(sweep[d])'
  <2>1. CASE d = c
    BY <1>10, <1>11, <2>1 DEF StoreInv, SweepInv, WalkOK, Matches, Gone, Present
  <2>2. CASE d # c
    <3>1. sweep'[d] = sweep[d] /\ sweep[d] \in Walk /\ WalkOK(sweep[d])
      BY <1>11, <1>13, <2>2 DEF StoreInv, SweepInv
    <3> QED BY <1>5, <3>1, WalkKept DEF StoreInv
  <2> QED BY <2>1, <2>2
<1>14. SweepInv'
  BY <1>3, <1>5, <1>12, <1>13, SweptKept DEF StoreInv, SweepInv, SnapshotRevoked
<1> QED BY <1>5, <1>14 DEF StoreInv

\* The walk is over: everything it was bound to visit is behind it.
LEMMA EndStep ==
  ASSUME StoreInv, NEW c \in Calls, EndSweep(c)
  PROVE  StoreInv'
<1>1. /\ sweep[c] \in Walk /\ WalkOK(sweep[c]) /\ sweep[c].todo = {}
      /\ dead' = dead \cup sweep[c].doomed /\ swept' = swept \cup sweep[c].found
      /\ sweep' = [sweep EXCEPT ![c] = None]
      /\ UNCHANGED <<storeVars, minted, granted, charter, aborts>>
  BY DEF EndSweep, StoreInv, SweepInv
<1>2. TypeInv' /\ IInv'
  <2>1. CASE pc[c] = "revokeFamily" /\ Return(c, verdict[c])
    <3>1. verdict[c] \in Codes
      BY <2>1 DEF StoreInv, TypeInv, LocalsOK
    <3>2. TypeInv'
      BY <1>1, <2>1, <3>1, ReturnType DEF StoreInv, TypeInv, TypeOK, storeVars, WalkOK
    <3>3. IInv'
      BY <1>1, <2>1, ReturnMoves, SameStore, QuietStep DEF StoreInv, storeVars
    <3> QED BY <3>2, <3>3
  <2>2. CASE Silent /\ UNCHANGED callVars
    <3>1. TypeInv'
      BY <1>1, <2>2 DEF StoreInv, Silent, TypeInv, TypeOK, LocalsOK, storeVars, callVars, WalkOK,
         Presenting, Proved, Rotating
    <3>2. IInv'
      BY <1>1, <2>2, SameStore, QuietStep DEF StoreInv, storeVars, callVars, Kept
    <3> QED BY <3>1, <3>2
  <2> QED BY <2>1, <2>2 DEF EndSweep
<1>3. ASSUME NEW d \in Calls, sweep'[d] # None PROVE WalkOK(sweep[d])'
  <2>1. sweep'[d] = sweep[d] /\ sweep[d] \in Walk /\ WalkOK(sweep[d])
    BY <1>1, <1>3 DEF StoreInv, SweepInv
  <2> QED BY <1>1, <2>1 DEF WalkOK, Matches, Gone, Present, storeVars
<1>4. SweepInv'
  <2>1. sweep' \in [Calls -> Walk \cup {None}]
    BY <1>1 DEF StoreInv, SweepInv
  <2>2. swept' \subseteq minted' /\ SnapshotRevoked'
    BY <1>1 DEF StoreInv, SweepInv, SnapshotRevoked, WalkOK, Gone, storeVars
  <2> QED BY <1>3, <2>1, <2>2 DEF SweepInv
<1> QED BY <1>2, <1>4 DEF StoreInv

LEMMA SweepStep == StoreInv /\ [SweepNext]_sweepVars => StoreInv'
<1> SUFFICES ASSUME StoreInv, [SweepNext]_sweepVars PROVE StoreInv'
  OBVIOUS
<1>1. CASE UNCHANGED sweepVars
  BY <1>1, NoWalk DEF sweepVars
<1>2. ASSUME NEW c \in Calls, EngineStep(c) PROVE StoreInv'
  BY <1>2, NoWalk DEF EngineStep, Next, Progress
<1>3. ASSUME NEW c \in Calls, StartRevokeFamilyOf(c) PROVE StoreInv'
  <2>1. ByFamily(rec[c].familyId) \in Predicates
    BY <1>3 DEF StartRevokeFamilyOf, StoreInv, TypeInv, LocalsOK, Proved, Presenting, TokenRecord,
                Predicates
  <2> QED BY <1>3, <2>1, StartStep DEF StartRevokeFamilyOf
<1>4. ASSUME NEW c \in Calls, NEW by \in Predicates, StartAdminRevoke(c, by) PROVE StoreInv'
  BY <1>4, StartStep DEF StartAdminRevoke
<1>5. ASSUME NEW s \in Selectors, CollectRow(s) PROVE StoreInv'
  <2>1. Shrinks /\ rows' \in [Selectors -> TokenRecord \cup {NoRow}]
    BY <1>5 DEF CollectRow, Shrinks, StoreInv, TypeInv, TypeOK, historyVars
  <2>2. TypeInv' /\ IInv' /\ minted \subseteq minted' /\ \A t \in minted : Forward(t)
    BY <1>5, <2>1, OnlyRows DEF CollectRow
  <2>3. \A c \in Calls : sweep'[c] # None => WalkOK(sweep[c])'
    BY <1>5, <2>2, WalkKept DEF CollectRow, StoreInv, SweepInv
  <2>4. SweepInv'
    BY <1>5, <2>2, <2>3, SweptKept DEF CollectRow, StoreInv, SweepInv, SnapshotRevoked
  <2> QED BY <2>2, <2>4 DEF StoreInv
<1>6. CASE Tick /\ UNCHANGED <<sweep, swept>>
  BY <1>6, NoWalk DEF Next
<1> QED
  BY <1>1, <1>2, <1>3, <1>4, <1>5, <1>6, VisitStep, EndStep DEF SweepNext, Predicates

LEMMA SweepCorrect == SweepSpec => []StoreInv
  BY SweepStart, SweepStep, PTL DEF SweepSpec

-----------------------------------------------------------------------------

\* A family does not fork on the ConcurrentHashMap and ConcurrentDictionary
\* stores either, although their bulk revocations are walks that any refresh,
\* grace retry or other walk can interleave with.
THEOREM SweepNoFork == SweepSpec => []NoFork
<1>1. StoreInv => NoFork
  BY DEF StoreInv, IInv, LineOK
<1> QED BY <1>1, SweepCorrect, PTL

\* What a revocation found when it started is revoked, or collected, from the
\* moment it returns on.
THEOREM SnapshotTheorem == SweepSpec => []SnapshotRevoked
<1>1. StoreInv => SnapshotRevoked
  BY DEF StoreInv, SweepInv
<1> QED BY <1>1, SweepCorrect, PTL

\* A family is one line on these stores too: generations in it are distinct
\* and the newest token is the one that can be exchanged, whatever a walk has
\* revoked in between.
THEOREM SweepLinear == SweepSpec => []LinearLineage
<1>1. StoreInv => LinearLineage
  BY DEF StoreInv, IInv, LineOK
<1> QED BY <1>1, SweepCorrect, PTL

-----------------------------------------------------------------------------
(* What the steps never do.                                                 *)

\* Rows are at most revoked, or collected when expired.
Wanes ==
  \A s \in Selectors : \/ rows'[s] = rows[s]
                       \/ Present(s) /\ rows'[s] = Revoked(rows[s])
                       \/ Present(s) /\ Expired(rows[s], clock) /\ rows'[s] = NoRow

\* A step is one of NebulaEngine's, or a walk's: that one only takes rows away,
\* and the call whose walk it is either waits or ends.
LEMMA StepOrWalk ==
  ASSUME StoreInv, [SweepNext]_sweepVars
  PROVE  [Next]_vars \/ (Wanes /\ \A d \in Calls : Still(d) \/ JudgedOK(d)')
<1>1. ASSUME UNCHANGED callVars PROVE \A d \in Calls : Still(d)
  BY <1>1 DEF callVars, Still, Kept
<1>2. CASE UNCHANGED sweepVars
  BY <1>2 DEF sweepVars
<1>3. ASSUME NEW c \in Calls, EngineStep(c) PROVE Next
  BY <1>3 DEF EngineStep, Next, Progress
<1>4. ASSUME UNCHANGED <<storeVars, callVars>>
      PROVE  Wanes /\ \A d \in Calls : Still(d) \/ JudgedOK(d)'
  BY <1>1, <1>4 DEF Wanes, storeVars
<1>5. ASSUME NEW c \in Calls, SweepRow(c)
      PROVE  Wanes /\ \A d \in Calls : Still(d) \/ JudgedOK(d)'
  <2>1. PICK s \in Selectors :
          rows' = [rows EXCEPT ![s] = IF SweepHits(s, sweep[c].by) THEN Revoked(@) ELSE @]
    BY <1>5 DEF SweepRow, StoreInv, SweepInv, Walk
  <2>2. Wanes
    BY <2>1 DEF Wanes, SweepHits, Matches, StoreInv, TypeInv, TypeOK
  <2> QED BY <1>1, <1>5, <2>2 DEF SweepRow
<1>6. ASSUME NEW c \in Calls, EndSweep(c)
      PROVE  Wanes /\ \A d \in Calls : Still(d) \/ JudgedOK(d)'
  <2>1. Wanes
    BY <1>6 DEF EndSweep, Wanes, storeVars
  <2>2. CASE UNCHANGED callVars
    BY <1>1, <2>1, <2>2
  <2>3. CASE Return(c, verdict[c])
    <3>1. JudgedOK(c)'
      BY <2>3, EndJudged DEF StoreInv
    <3>2. \A d \in Calls \ {c} : Still(d)
      BY <2>3 DEF Return, Still, Kept, StoreInv, TypeInv, TypeOK
    <3> QED BY <2>1, <3>1, <3>2
  <2> QED BY <1>6, <2>2, <2>3 DEF EndSweep
<1>7. ASSUME NEW s \in Selectors, CollectRow(s)
      PROVE  Wanes /\ \A d \in Calls : Still(d) \/ JudgedOK(d)'
  <2>1. Wanes
    BY <1>7 DEF CollectRow, Wanes, StoreInv, TypeInv, TypeOK
  <2> QED BY <1>1, <1>7, <2>1 DEF CollectRow
<1>8. CASE Tick
  BY <1>8 DEF Next
<1> QED BY <1>2, <1>3, <1>4, <1>5, <1>6, <1>7, <1>8
        DEF SweepNext, StartRevokeFamilyOf, StartAdminRevoke

LEMMA WanesRow ==
  ASSUME TypeInv, Wanes, NEW s \in Selectors
  PROVE  /\ EvidenceStep(s) /\ GraceStep(s)
         /\ rows'[s].status = "active" => IsActive(s)
         /\ rows'[s].status = "rotated" => rows'[s] = rows[s]
         /\ Present(s)' => Present(s) /\ rows'[s].idleExpiresAt = rows[s].idleExpiresAt
<1>1. rows[s] \in TokenRecord \/ rows[s] = NoRow
  BY DEF TypeInv, TypeOK
<1>2. CASE rows'[s] = rows[s]
  BY <1>1, <1>2, RecordStatus DEF EvidenceStep, GraceStep, Present, IsActive
<1>3. CASE Present(s) /\ rows'[s] = Revoked(rows[s])
  <2>1. rows[s] \in TokenRecord
    BY <1>1, <1>3, RecordStatus DEF Present
  <2> QED BY <1>3, <2>1, RecordStatus DEF EvidenceStep, GraceStep, Present, IsActive, Revoked, TokenRecord
<1>4. CASE Present(s) /\ Expired(rows[s], clock) /\ rows'[s] = NoRow
  BY <1>4, RecordStatus DEF EvidenceStep, GraceStep, Present, IsActive, Expired
<1> QED BY <1>2, <1>3, <1>4 DEF Wanes

\* What a call was judged on holds while walks pass.
LEMMA WalkJudged ==
  ASSUME StoreInv, JudgedInv, Wanes, NEW d \in Calls, Still(d)
  PROVE  JudgedOK(d)'
<1>1. JudgedOK(d) /\ TypeInv
  BY DEF JudgedInv, StoreInv
<1>2. pc[d] = "markRotated" => nxt[d] \in Selectors
  BY DEF StoreInv, IInv, CallsOK, NextOK, Inserted, TypeInv, TypeOK
<1>3. pc[d] = "markRotated" /\ Present(nxt[d])' => at'[d] < rows'[nxt'[d]].idleExpiresAt
  BY <1>1, <1>2, WanesRow DEF JudgedOK, Still, Kept, Present
<1>4. rec[d].status = "rotated" => arg[d].selector \in Selectors
  BY RecordStatus DEF StoreInv, IInv, CallsOK, CopyOK, TypeInv, TypeOK
<1>5. rec[d].status = "rotated" => Later(rec[d], arg[d].selector)'
  BY <1>1, <1>4, WanesRow DEF JudgedOK, Later, IsActive, Still, Kept
<1> QED BY <1>1, <1>3, <1>5 DEF JudgedOK, Still, Kept

LEMMA SweepJudged == SweepSpec => []JudgedInv
<1>1. SweepInit => JudgedInv
  BY RecordStatus DEF SweepInit, Init, JudgedInv, JudgedOK, Proved, Presenting
<1>2. StoreInv /\ JudgedInv /\ [SweepNext]_sweepVars => JudgedInv'
  <2> SUFFICES ASSUME StoreInv, JudgedInv, [SweepNext]_sweepVars PROVE JudgedInv'
    OBVIOUS
  <2>1. CASE [Next]_vars
    BY <2>1, StepJudged DEF StoreInv
  <2>2. CASE Wanes /\ \A d \in Calls : Still(d) \/ JudgedOK(d)'
    BY <2>2, WalkJudged DEF JudgedInv
  <2> QED BY <2>1, <2>2, StepOrWalk
<1> QED BY <1>1, <1>2, SweepCorrect, PTL DEF SweepSpec

\* A walk and a collection taken row by row lose no evidence of a replay:
\* between two visits no row moves back, and none leaves before its family's
\* deadline.
THEOREM SweepEvidence == SweepSpec => EvidenceKept
<1>1. StoreInv /\ [SweepNext]_sweepVars => [\A s \in Selectors : EvidenceStep(s)]_vars
  BY StepOrWalk, RowEvidence, WanesRow DEF StoreInv
<1> QED BY <1>1, SweepCorrect, PTL DEF SweepSpec, EvidenceKept

\* Nor does one stretch the grace window: a row visited while its token is
\* being exchanged again keeps its first rotation time, and the successor it
\* gives up is out of the lineage.
THEOREM SweepGrace == SweepSpec => GraceNotExtended
<1>1. StoreInv /\ JudgedInv /\ [SweepNext]_sweepVars => [\A s \in Selectors : GraceStep(s)]_vars
  BY StepOrWalk, RowGrace, WanesRow DEF StoreInv
<1> QED BY <1>1, SweepCorrect, SweepJudged, PTL DEF SweepSpec, GraceNotExtended

=============================================================================
