--------------------------- MODULE EvidenceProofs ---------------------------
(***************************************************************************)
(* What the steps of NebulaEngine never do, proved: EvidenceKept,          *)
(* GraceNotExtended, BlastRadius and GuessChangesNothing, and with them    *)
(* NoDeadOnArrival and NoOrphanAtRest.                                     *)
(***************************************************************************)
EXTENDS LineageProofs

-----------------------------------------------------------------------------
(* What a step does to one row.                                             *)

\* markRotated of call c succeeds on row s.
Marks(c, s) ==
  /\ pc[c] = "markRotated"
  /\ s = arg[c].selector
  /\ rows[s].status = rec[c].status
  /\ rows'[s] = [rows[s] EXCEPT !.status = "rotated",
                                !.rotatedAt = RotatedAt(rec[c], at[c]),
                                !.replacedBySelector = nxt[c]]

\* s is drawn now, and its row is new.
Appears(s) == s \in Fresh /\ ~ Present(s) /\ rows'[s].status = "active"

RowStep(s) ==
  \/ rows'[s] = rows[s]
  \/ Present(s) /\ Expired(rows[s], clock) /\ rows'[s] = NoRow
  \/ Present(s) /\ rows'[s] = Revoked(rows[s])
  \/ Appears(s)
  \/ \E c \in Calls : Marks(c, s)

LEMMA RowSteps ==
  ASSUME TypeInv, IInv, [Next]_vars
  PROVE  \A s \in Selectors : RowStep(s)
<1>1. ASSUME rows' = rows PROVE \A s \in Selectors : RowStep(s)
  BY <1>1 DEF RowStep
<1>2. ASSUME NEW S, RevokeRows(S), \A s \in S : Present(s)
      PROVE  \A s \in Selectors : RowStep(s)
  BY <1>2 DEF RevokeRows, RowStep
<1>3. ASSUME NEW s \in Selectors, RevokeIfActive(s) PROVE \A t \in Selectors : RowStep(t)
  BY <1>3 DEF RevokeIfActive, RevokeIfActiveApplies, IsActive, Present, RowStep, TypeInv, TypeOK
<1>4. ASSUME NEW s \in Fresh, NEW r, r.status = "active", Insert(s, r)
      PROVE  \A t \in Selectors : RowStep(t)
  <2>1. ~ Present(s) /\ s \in Selectors
    BY DEF Fresh, IInv, RowsOK
  <2> QED BY <1>4, <2>1 DEF Insert, Appears, RowStep, TypeInv, TypeOK
<1>5. CASE UNCHANGED vars
  BY <1>1, <1>5 DEF vars, storeVars
<1>6. ASSUME NEW c \in Calls,
             \/ \E a \in IssueArg : BeginIssue(c, a)
             \/ \E a \in PresentArg, kid \in Kids : BeginPresent(c, a, kid)
             \/ RefuseMalformed(c) \/ Find(c) \/ RefuseUnproved(c) \/ CheckRevokeToken(c)
             \/ CheckRotated(c) \/ CheckRevoked(c) \/ CheckActive(c) \/ FindSuccessor(c)
             \/ Abort(c)
      PROVE  \A s \in Selectors : RowStep(s)
  BY <1>1, <1>6 DEF BeginIssue, BeginPresent, Begin, RefuseMalformed, Find, RefuseUnproved,
     CheckRevokeToken, CheckRotated, CheckRevoked, CheckActive, FindSuccessor, Abort, storeVars
<1>7. ASSUME NEW c \in Calls, Consume(c) \/ Compensate(c) PROVE \A s \in Selectors : RowStep(s)
  <2>1. nxt[c] \in Selectors
    BY <1>7 DEF Consume, Compensate, TypeInv, LocalsOK
  <2> QED BY <1>3, <1>7, <2>1 DEF Consume, Compensate
<1>8. ASSUME NEW c \in Calls, IssueInsert(c) \/ InsertSuccessor(c)
      PROVE  \A s \in Selectors : RowStep(s)
  <2>1. \A e, s, f, g, u, h, x, n : Mint(e, s, f, g, u, h, x, n).status = "active"
    BY DEF Mint
  <2>2. PICK s \in Fresh : \E e, f, g, u, h, x, n : Insert(s, Mint(e, s, f, g, u, h, x, n))
    <3>1. CASE IssueInsert(c)
      BY <3>1, Zenon DEF IssueInsert
    <3>2. CASE InsertSuccessor(c)
      BY <3>2, Zenon DEF InsertSuccessor
    <3> QED BY <1>8, <3>1, <3>2
  <2>3. PICK e, f, g, u, h, x, n : Insert(s, Mint(e, s, f, g, u, h, x, n))
    BY <2>2
  <2> QED BY <1>4, <2>1, <2>3
<1>9. ASSUME NEW c \in Calls, MarkPredecessor(c) PROVE \A s \in Selectors : RowStep(s)
  <2>1. CASE rows' = rows
    BY <1>1, <2>1
  <2>2. CASE /\ MarkRotatedApplies(arg[c].selector, rec[c].status)
             /\ MarkRotated(arg[c].selector, RotatedAt(rec[c], at[c]), nxt[c])
    BY <1>9, <2>2 DEF MarkPredecessor, MarkRotated, MarkRotatedApplies, Marks, RowStep, TypeInv, TypeOK
  <2> QED BY <1>9, <2>1, <2>2 DEF MarkPredecessor
<1>10. ASSUME \/ \E c \in Calls : RevokeFamilyOf(c)
              \/ \E f \in Families : AdminRevokeFamily(f)
              \/ \E u \in Users : AdminRevokeUser(u)
       PROVE  \A s \in Selectors : RowStep(s)
  BY <1>2, <1>10 DEF RevokeFamilyOf, AdminRevokeFamily, AdminRevokeUser, RevokeFamily, RevokeUser,
                     InFamily, OfUser
<1>11. CASE DeleteExpired
  BY <1>11 DEF DeleteExpired, RowStep
<1>12. CASE Tick
  BY <1>1, <1>12 DEF Tick
<1> QED
  BY <1>5, <1>6, <1>7, <1>8, <1>9, <1>10, <1>11, <1>12 DEF Next, Progress

LEMMA RowEvidence ==
  ASSUME TypeInv, IInv, [Next]_vars, NEW s \in Selectors
  PROVE  EvidenceStep(s)
<1>1. RowStep(s)
  BY RowSteps
<1>2. Present(s) => rows[s] \in TokenRecord
  BY RecordStatus DEF Present, TypeInv, TypeOK
<1>3. CASE rows'[s] = rows[s]
  BY <1>2, <1>3, RecordStatus DEF EvidenceStep, Present
<1>4. CASE Present(s) /\ Expired(rows[s], clock) /\ rows'[s] = NoRow
  BY <1>4, RecordStatus DEF EvidenceStep, Expired
<1>5. CASE Present(s) /\ rows'[s] = Revoked(rows[s])
  BY <1>2, <1>5, RecordStatus DEF EvidenceStep, Revoked, TokenRecord
<1>6. CASE Appears(s)
  BY <1>6, RecordStatus DEF EvidenceStep, Appears, Present
<1>7. ASSUME NEW c \in Calls, Marks(c, s) PROVE EvidenceStep(s)
  <2>1. rec[c].status \in {"active", "rotated"}
    BY <1>7 DEF Marks, TypeInv, LocalsOK, Rotating
  <2>2. rows[s] \in TokenRecord
    BY <1>2, <1>7, <2>1 DEF Marks, Present
  <2>3. rows'[s].status = "rotated"
    BY <1>7, <2>2 DEF Marks, TokenRecord
  <2> QED BY <1>7, <2>1, <2>3, RecordStatus DEF EvidenceStep, Marks
<1> QED BY <1>1, <1>3, <1>4, <1>5, <1>6, <1>7 DEF RowStep

\* Rows only move forward, and a row disappears only past its family's
\* absolute deadline: the tombstone a replay is recognised by cannot be undone
\* by a call that read the row before it was rotated or revoked.
THEOREM EvidenceTheorem == Spec => EvidenceKept
<1>1. TypeInv /\ IInv /\ [Next]_vars => \A s \in Selectors : EvidenceStep(s)
  BY RowEvidence
<1> QED BY <1>1, EngineCorrect, PTL DEF Spec, EvidenceKept

-----------------------------------------------------------------------------
(* Which call a step belongs to.                                            *)

Still(d) == Kept(d) /\ at'[d] = at[d]

Takes(d) ==
  \/ \E a \in IssueArg : BeginIssue(d, a)
  \/ \E a \in PresentArg, kid \in Kids : BeginPresent(d, a, kid)
  \/ RefuseMalformed(d)
  \/ Progress(d)
  \/ Abort(d)

\* A step moves the locals of the call that takes it and of no other.
LEMMA OthersStill ==
  ASSUME TypeInv, NEW c \in Calls, Takes(c), NEW d \in Calls \ {c}
  PROVE  Still(d)
<1> USE DEF Still, Kept, TypeInv, TypeOK
<1>1. ASSUME NEW code, Return(c, code) PROVE Still(d)
  BY <1>1 DEF Return
<1>2. CASE \/ \E a \in IssueArg : BeginIssue(c, a)
           \/ \E a \in PresentArg, kid \in Kids : BeginPresent(c, a, kid)
  BY <1>1, <1>2 DEF BeginIssue, BeginPresent, Begin, GoTo
<1>3. CASE \/ RefuseMalformed(c) \/ IssueInsert(c) \/ RefuseUnproved(c) \/ CheckRevoked(c)
           \/ Compensate(c) \/ RevokeFamilyOf(c) \/ Abort(c)
  BY <1>1, <1>3 DEF RefuseMalformed, IssueInsert, RefuseUnproved, CheckRevoked, Compensate,
                    RevokeFamilyOf, Abort
<1>4. CASE Find(c) \/ CheckRevokeToken(c) \/ CheckRotated(c) \/ CheckActive(c)
  BY <1>4 DEF Find, CheckRevokeToken, CheckRotated, CheckActive, RevokeThenReturn, GoTo
<1>5. CASE FindSuccessor(c) \/ InsertSuccessor(c)
  BY <1>5 DEF FindSuccessor, InsertSuccessor, RevokeThenReturn, GoTo
<1>6. CASE Consume(c) \/ MarkPredecessor(c)
  BY <1>1, <1>6 DEF Consume, MarkPredecessor, GoTo
<1> QED BY <1>2, <1>3, <1>4, <1>5, <1>6 DEF Takes, Progress

LEMMA OneMoves ==
  ASSUME TypeInv, [Next]_vars, NEW d \in Calls
  PROVE  Still(d) \/ Takes(d)
<1>1. ASSUME UNCHANGED callVars PROVE Still(d)
  BY <1>1 DEF callVars, Still, Kept
<1>2. ASSUME \/ \E f \in Families : AdminRevokeFamily(f)
             \/ \E u \in Users : AdminRevokeUser(u)
             \/ DeleteExpired \/ Tick \/ UNCHANGED vars
      PROVE  Still(d)
  BY <1>1, <1>2 DEF AdminRevokeFamily, AdminRevokeUser, DeleteExpired, Tick, vars
<1> QED BY <1>2, OthersStill DEF Next, Takes

-----------------------------------------------------------------------------
(* What a call was judged on still holds when it acts on it.                *)

\* Row s is where a caller that read it as the rotated record r left it, or
\* further: its rotation time never changes.
Later(r, s) ==
  /\ ~ IsActive(s)
  /\ rows[s].status = "rotated" => rows[s].rotatedAt = r.rotatedAt

JudgedOK(c) ==
  /\ pc[c] \in Proved => arg[c].verifier = arg[c].selector
  /\ pc[c] \in {"findSuccessor", "consume", "insert"} => at[c] < rec[c].familyExpiresAt
  /\ pc[c] \in Proved \ {"revokeFamily"} /\ rec[c].status = "rotated" => ReuseGrace > 0
  /\ rec[c].status = "rotated" => Later(rec[c], arg[c].selector)
  /\ pc[c] = "markRotated" /\ Present(nxt[c]) => at[c] < rows[nxt[c]].idleExpiresAt

JudgedInv == \A c \in Calls : JudgedOK(c)

\* A row whose selector is known to somebody.
LEMMA KnownRow ==
  ASSUME TypeInv, IInv, [Next]_vars, NEW s \in minted, Present(s)'
  PROVE  /\ Present(s) /\ rows[s] \in TokenRecord
         /\ rows'[s].idleExpiresAt = rows[s].idleExpiresAt
         /\ rows'[s].familyExpiresAt = rows[s].familyExpiresAt
<1>1. s \in Selectors /\ RowStep(s) /\ ~ Appears(s)
  BY RowSteps DEF Appears, Fresh, TypeInv, TypeOK
<1>2. Present(s) => rows[s] \in TokenRecord
  BY <1>1, RecordStatus DEF Present, TypeInv, TypeOK
<1>3. \A c \in Calls : Marks(c, s) => Present(s)
  BY DEF Marks, Present, TypeInv, LocalsOK, Rotating
<1>4. Present(s)
  BY <1>1, <1>3 DEF RowStep, Present
<1> QED BY <1>1, <1>2, <1>4, RecordStatus DEF RowStep, Marks, Present, Revoked, TokenRecord

LEMMA LaterKept ==
  ASSUME TypeInv, IInv, JudgedInv, [Next]_vars, NEW d \in Calls, rec[d].status = "rotated",
         NEW s, s = arg[d].selector
  PROVE  /\ rows'[s].status # "active"
         /\ rows'[s].status = "rotated" => rows'[s].rotatedAt = rec[d].rotatedAt
<1>1. s \in minted /\ s \in Selectors
  BY RecordStatus DEF IInv, CallsOK, CopyOK, TypeInv, TypeOK
<1>2. RowStep(s) /\ ~ Appears(s) /\ Later(rec[d], s)
  BY <1>1, RowSteps DEF Appears, Fresh, JudgedInv, JudgedOK
<1>3. Present(s) => rows[s] \in TokenRecord
  BY <1>1, RecordStatus DEF Present, TypeInv, TypeOK
<1>4. ASSUME NEW c \in Calls, Marks(c, s)
      PROVE  rows'[s].status = "rotated" /\ rows'[s].rotatedAt = rec[d].rotatedAt
  <2>1. rec[c].status = "rotated" /\ rows[s].status = "rotated"
    BY <1>2, <1>4 DEF Marks, Later, IsActive, TypeInv, LocalsOK, Rotating
  <2>2. rec[c].rotatedAt = rec[d].rotatedAt
    BY <1>2, <1>4, <2>1 DEF Marks, Later, JudgedInv, JudgedOK
  <2>3. rows[s] \in TokenRecord
    BY <1>3, <2>1 DEF Present
  <2> QED BY <1>4, <2>1, <2>2, <2>3 DEF Marks, RotatedAt, TokenRecord
<1> QED BY <1>2, <1>3, <1>4, RecordStatus DEF RowStep, Later, IsActive, Revoked, TokenRecord

\* What a call was judged on holds while it waits.
LEMMA StillJudged ==
  ASSUME TypeInv, IInv, JudgedInv, [Next]_vars, NEW d \in Calls, Still(d)
  PROVE  JudgedOK(d)'
<1>1. JudgedOK(d)
  BY DEF JudgedInv
<1>2. pc[d] = "markRotated" => nxt[d] \in minted
  BY DEF IInv, CallsOK, NextOK, Inserted
<1>3. pc[d] = "markRotated" /\ Present(nxt[d])' => at'[d] < rows'[nxt'[d]].idleExpiresAt
  BY <1>1, <1>2, KnownRow DEF JudgedOK, Still, Kept, Present
<1>4. rec[d].status = "rotated" => Later(rec[d], arg[d].selector)'
  BY LaterKept DEF Later, IsActive, Still, Kept
<1> QED BY <1>1, <1>3, <1>4 DEF JudgedOK, Still, Kept

LEMMA EndJudged ==
  ASSUME TypeInv, NEW c \in Calls, NEW code, Return(c, code)
  PROVE  JudgedOK(c)'
  BY RecordStatus DEF Return, JudgedOK, Proved, Presenting, TypeInv, TypeOK

\* The steps of a call up to its decision.
LEMMA CheckJudged ==
  ASSUME TypeInv, IInv, JudgedInv, NEW c \in Calls
  PROVE  /\ \A a \in IssueArg : BeginIssue(c, a) => JudgedOK(c)'
         /\ \A a \in PresentArg, kid \in Kids : BeginPresent(c, a, kid) => JudgedOK(c)'
         /\ Find(c) => JudgedOK(c)'
         /\ CheckRevokeToken(c) => JudgedOK(c)'
         /\ CheckRotated(c) => JudgedOK(c)'
         /\ CheckActive(c) => JudgedOK(c)'
<1>1. ASSUME NEW a, NEW step \in {"issue", "find"}, NEW now, Begin(c, a, step, now)
      PROVE  JudgedOK(c)'
  <2>1. rec'[c] = NoRow /\ pc'[c] = step
    BY <1>1 DEF Begin, GoTo, IInv, CallsOK, CopyOK, TypeInv, TypeOK
  <2> QED BY <2>1, RecordStatus DEF JudgedOK, Proved, Presenting
<1>2. ASSUME NEW a \in IssueArg, BeginIssue(c, a) PROVE JudgedOK(c)'
  BY <1>1, <1>2 DEF BeginIssue
<1>3. ASSUME NEW a \in PresentArg, NEW kid \in Kids, BeginPresent(c, a, kid) PROVE JudgedOK(c)'
  BY <1>1, <1>3, EndJudged DEF BeginPresent
<1>4. ASSUME Find(c) PROVE JudgedOK(c)'
  <2>1. pc'[c] = "check" /\ rec'[c] = rows[arg[c].selector] /\ UNCHANGED <<rows, arg>>
    BY <1>4 DEF Find, GoTo, storeVars, TypeInv, TypeOK
  <2> QED BY <2>1 DEF JudgedOK, Later, IsActive, Proved, Presenting
<1>5. ASSUME UNCHANGED <<rows, arg, rec>>, rec[c].status = "rotated"
      PROVE  Later(rec[c], arg[c].selector)'
  BY <1>5 DEF JudgedInv, JudgedOK, Later, IsActive
<1>6. ASSUME CheckRevokeToken(c) PROVE JudgedOK(c)'
  <2>1. pc'[c] = "revokeFamily" /\ UNCHANGED <<rows, arg, rec>>
        /\ arg[c].verifier = arg[c].selector
    BY <1>6, ProvedHolder DEF CheckRevokeToken, RevokeThenReturn, GoTo, storeVars, TypeInv, TypeOK
  <2> QED BY <1>5, <2>1 DEF JudgedOK
<1>7. ASSUME CheckRotated(c) PROVE JudgedOK(c)'
  <2>1. /\ pc'[c] \in {"findSuccessor", "revokeFamily"} /\ UNCHANGED <<rows, arg, rec>>
        /\ arg[c].verifier = arg[c].selector
        /\ pc'[c] = "findSuccessor" => ReuseGrace > 0 /\ at'[c] < rec[c].familyExpiresAt
    BY <1>7, ProvedHolder DEF CheckRotated, Refreshing, WithinGrace, RevokeThenReturn, GoTo,
       storeVars, TypeInv, TypeOK
  <2> QED BY <1>5, <2>1 DEF JudgedOK
<1>8. ASSUME CheckActive(c) PROVE JudgedOK(c)'
  <2>1. /\ pc'[c] \in {"insert", "revokeFamily"} /\ UNCHANGED <<rows, arg, rec>>
        /\ arg[c].verifier = arg[c].selector /\ rec[c] \in TokenRecord
        /\ rec[c].status = "active" /\ at'[c] = clock
        /\ pc'[c] = "insert" => ~ PastAbsolute(rec[c], clock)
    BY <1>8, ProvedHolder DEF CheckActive, Refreshing, RevokeThenReturn, GoTo, storeVars,
       TypeInv, TypeOK
  <2>2. pc'[c] = "insert" => at'[c] < rec[c].familyExpiresAt
    BY <2>1 DEF PastAbsolute, TokenRecord, TypeInv, TypeOK
  <2> QED BY <2>1, <2>2 DEF JudgedOK
<1> QED BY <1>2, <1>3, <1>4, <1>6, <1>7, <1>8

\* The steps after it.
LEMMA RotateJudged ==
  ASSUME TypeInv, IInv, JudgedInv, [Next]_vars, NEW c \in Calls
  PROVE  /\ FindSuccessor(c) => JudgedOK(c)'
         /\ Consume(c) => JudgedOK(c)'
         /\ InsertSuccessor(c) => JudgedOK(c)'
         /\ MarkPredecessor(c) => JudgedOK(c)'
<1>1. ASSUME UNCHANGED <<arg, rec>>, rec[c].status = "rotated"
      PROVE  Later(rec[c], arg[c].selector)'
  BY <1>1, LaterKept DEF Later, IsActive
<1>2. JudgedOK(c)
  BY DEF JudgedInv
<1>3. ASSUME FindSuccessor(c) PROVE JudgedOK(c)'
  <2>1. /\ pc[c] = "findSuccessor" /\ pc'[c] \in {"consume", "revokeFamily"}
        /\ UNCHANGED <<arg, rec, at>>
    BY <1>3 DEF FindSuccessor, RevokeThenReturn, GoTo, TypeInv, TypeOK
  <2> QED BY <1>1, <1>2, <2>1 DEF JudgedOK, Proved, Presenting
<1>4. ASSUME Consume(c) PROVE JudgedOK(c)'
  <2>1. CASE GoTo(c, "insert") /\ UNCHANGED <<arg, rec, at>>
    <3>1. pc[c] = "consume" /\ pc'[c] = "insert"
      BY <1>4, <2>1 DEF Consume, GoTo, TypeInv, TypeOK
    <3> QED BY <1>1, <1>2, <2>1, <3>1 DEF JudgedOK, Proved, Presenting
  <2> QED BY <1>4, <2>1, EndJudged DEF Consume
<1>5. ASSUME InsertSuccessor(c) PROVE JudgedOK(c)'
  <2>1. /\ pc[c] = "insert" /\ pc'[c] = "markRotated" /\ UNCHANGED <<arg, rec, at>>
    BY <1>5 DEF InsertSuccessor, GoTo, TypeInv, TypeOK
  <2>2. PICK s \in Fresh :
          /\ rows'[s].idleExpiresAt = Least(at[c] + IdleTtl, rec[c].familyExpiresAt)
          /\ nxt'[c] = s
    BY <1>5 DEF InsertSuccessor, Insert, Mint, NextFamilyExpiresAt, Fresh, TypeInv, TypeOK
  <2>3. at[c] \in Nat /\ rec[c].familyExpiresAt \in Nat /\ at[c] < rec[c].familyExpiresAt
    BY <1>2, <2>1 DEF JudgedOK, TypeInv, TypeOK, LocalsOK, Proved, Presenting, TokenRecord
  <2>4. at'[c] < rows'[nxt'[c]].idleExpiresAt
    BY <2>1, <2>2, <2>3, ConfigAssumption DEF Least
  <2> QED BY <1>1, <1>2, <2>1, <2>4 DEF JudgedOK, Proved, Presenting
<1>6. ASSUME MarkPredecessor(c) PROVE JudgedOK(c)'
  <2>1. CASE GoTo(c, "compensate") /\ UNCHANGED <<arg, rec>>
    <3>1. pc[c] = "markRotated" /\ pc'[c] = "compensate"
      BY <1>6, <2>1 DEF MarkPredecessor, GoTo, TypeInv, TypeOK
    <3> QED BY <1>1, <1>2, <2>1, <3>1 DEF JudgedOK, Proved, Presenting
  <2> QED BY <1>6, <2>1, EndJudged DEF MarkPredecessor
<1> QED BY <1>3, <1>4, <1>5, <1>6

LEMMA StepJudged == TypeInv /\ IInv /\ JudgedInv /\ [Next]_vars => JudgedInv'
<1> SUFFICES ASSUME TypeInv, IInv, JudgedInv, [Next]_vars, NEW c \in Calls PROVE JudgedOK(c)'
  BY DEF JudgedInv
<1>1. CASE Still(c)
  BY <1>1, StillJudged
<1>2. CASE \/ RefuseMalformed(c) \/ IssueInsert(c) \/ RefuseUnproved(c) \/ CheckRevoked(c)
           \/ Compensate(c) \/ RevokeFamilyOf(c) \/ Abort(c)
  BY <1>2, EndJudged DEF RefuseMalformed, IssueInsert, RefuseUnproved, CheckRevoked, Compensate,
                         RevokeFamilyOf, Abort
<1> QED BY <1>1, <1>2, OneMoves, CheckJudged, RotateJudged DEF Takes, Progress

LEMMA JudgedCorrect == Spec => []JudgedInv
<1>1. Init => JudgedInv
  BY RecordStatus DEF Init, JudgedInv, JudgedOK, Proved, Presenting
<1> QED BY <1>1, StepJudged, IInvCorrect, PTL DEF Spec

-----------------------------------------------------------------------------

\* No successor is handed out that has expired already: the request was judged
\* before its family's deadline, on the first exchange and on a grace retry,
\* and #mint clamps to that same deadline.
THEOREM NoDeadTheorem == Spec => []NoDeadOnArrival
<1>1. JudgedInv => NoDeadOnArrival
  BY DEF JudgedInv, JudgedOK, NoDeadOnArrival
<1> QED BY <1>1, JudgedCorrect, PTL

\* What the steps of the calls do to a row exchanged before.
LEMMA RowGrace ==
  ASSUME TypeInv, IInv, JudgedInv, [Next]_vars, NEW s \in Selectors
  PROVE  GraceStep(s)
<1> SUFFICES ASSUME rows[s].status = "rotated", rows'[s].status = "rotated"
             PROVE  /\ rows'[s].rotatedAt = rows[s].rotatedAt
                    /\ rows'[s].replacedBySelector # rows[s].replacedBySelector =>
                         /\ ReuseGrace > 0
                         /\ rows[s].replacedBySelector \notin Lineage(rows[s].familyId)
  BY DEF GraceStep
<1>1. RowStep(s) /\ rows[s] \in TokenRecord /\ Present(s)
  BY RowSteps, RecordStatus DEF Present, TypeInv, TypeOK
<1>2. CASE rows'[s] = rows[s]
  BY <1>2
<1>3. ASSUME NEW c \in Calls, Marks(c, s)
      PROVE  /\ rows'[s].rotatedAt = rows[s].rotatedAt
             /\ ReuseGrace > 0
             /\ rows[s].replacedBySelector \notin Lineage(rows[s].familyId)
  <2>1. /\ pc[c] = "markRotated" /\ rec[c].status = "rotated" /\ s = arg[c].selector
        /\ rec[c] \in TokenRecord /\ rec[c] # NoRow
    BY <1>3, RecordStatus DEF Marks, TypeInv, LocalsOK, Proved, Presenting
  <2>2. Later(rec[c], s) /\ ReuseGrace > 0
    BY <2>1 DEF JudgedInv, JudgedOK, Proved, Presenting
  <2>3. rows'[s].rotatedAt = rows[s].rotatedAt
    BY <1>1, <1>3, <2>1, <2>2 DEF Marks, RotatedAt, Later, TokenRecord
  <2>4. CopyOf(rec[c], s) /\ RetryOK(c) /\ Retrying(c) /\ Replaced(rows[s])
    BY <1>1, <2>1 DEF IInv, RowsOK, CallsOK, CopyOK, LineOK, Retrying
  <2>5. rows[s].replacedBySelector \notin Lineage(rows[s].familyId)
    <3> SUFFICES ASSUME NEW t, t = rows[s].replacedBySelector, t \in Lineage(rows[s].familyId)
                 PROVE  FALSE
      OBVIOUS
    <3>1. rows[t].generation = rows[s].generation + 1
      BY <2>4 DEF Replaced, SuccessorOf, Lineage, Present
    <3>2. rows[t].generation <= rows[s].generation /\ rows[s].generation \in Nat
      BY <1>1, <2>4 DEF RetryOK, CopyOf, TokenRecord
    <3> QED BY <3>1, <3>2
  <2> QED BY <2>2, <2>3, <2>5
<1> QED BY <1>1, <1>2, <1>3, RecordStatus DEF RowStep, Revoked, Appears, TokenRecord

\* A token exchanged again inside the grace window keeps its first rotation
\* time, whichever of several concurrent retries writes it, and its earlier
\* successor is out of the lineage by then.
THEOREM GraceTheorem == Spec => GraceNotExtended
<1>1. TypeInv /\ IInv /\ JudgedInv /\ [Next]_vars => \A s \in Selectors : GraceStep(s)
  BY RowGrace
<1> QED BY <1>1, EngineCorrect, JudgedCorrect, PTL DEF Spec, GraceNotExtended

\* A call revokes rows of the family it proved a token of, directly or through
\* the successor it read, and no other; an administrator's revocation stays
\* within one user, because a family has one.
THEOREM BlastTheorem == Spec => BlastRadius
<1>1. TypeInv /\ CharterInv /\ IInv /\ [Next]_vars => \A s \in Selectors : RevocationStep(s)
  <2> SUFFICES ASSUME TypeInv, CharterInv, IInv, [Next]_vars, NEW s \in Selectors,
                      rows[s].status \in {"active", "rotated"}, rows'[s].status = "revoked"
               PROVE  \/ \E c \in Calls : /\ pc'[c] # pc[c] /\ rec[c] # NoRow
                                          /\ rec[c].familyId = rows[s].familyId
                      \/ /\ pc' = pc
                         /\ \A t \in Selectors : rows'[t] # rows[t] => rows[t].userId = rows[s].userId
    BY DEF RevocationStep
  <2> DEFINE Within == \E c \in Calls : /\ pc'[c] # pc[c] /\ rec[c] # NoRow
                                        /\ rec[c].familyId = rows[s].familyId
             OfOne  == /\ pc' = pc
                       /\ \A t \in Selectors : rows'[t] # rows[t] => rows[t].userId = rows[s].userId
  <2>1. rows'[s] # rows[s] /\ Present(s)
    BY DEF Present
  <2>2. ASSUME NEW c \in Calls, Consume(c) \/ Compensate(c) PROVE Within
    <3>1. /\ s = nxt[c] /\ pc'[c] # pc[c] /\ rec[c] \in TokenRecord /\ rec[c] # NoRow
          /\ pc[c] = "consume" => rec[c].status = "rotated"
      BY <2>1, <2>2, RecordStatus DEF Consume, Compensate, RevokeIfActive, GoTo, Return, TypeInv, TypeOK,
         LocalsOK, Proved, Presenting
    <3>2. SuccessorOf(s, rec[c])
      BY <2>2, <3>1 DEF Consume, Compensate, IInv, CallsOK, CopyOK, NextOK, Inserted, Replaced
    <3> QED BY <2>1, <3>1, <3>2 DEF SuccessorOf
  <2>3. ASSUME NEW c \in Calls, RevokeFamilyOf(c) PROVE Within
    <3>1. rows[s].familyId = rec[c].familyId
      BY <2>1, <2>3 DEF RevokeFamilyOf, RevokeFamily, RevokeRows, InFamily
    <3>2. pc'[c] # pc[c] /\ rec[c] # NoRow
      BY <2>3, RecordStatus DEF RevokeFamilyOf, Return, TypeInv, TypeOK, LocalsOK, Proved, Presenting
    <3> QED BY <3>1, <3>2
  <2>4. ASSUME NEW f \in Families, AdminRevokeFamily(f) PROVE OfOne
    <3>1. \A t \in Selectors : rows'[t] # rows[t] => InFamily(t, f)
      BY <2>4 DEF AdminRevokeFamily, RevokeFamily, RevokeRows
    <3>2. \A t \in Selectors : InFamily(t, f) => rows[t].userId = charter[f].userId
      BY DEF CharterInv, CharterKept, FromLogin, InFamily
    <3> QED BY <2>1, <2>4, <3>1, <3>2 DEF AdminRevokeFamily, callVars
  <2>5. ASSUME NEW u \in Users, AdminRevokeUser(u) PROVE OfOne
    BY <2>1, <2>5 DEF AdminRevokeUser, RevokeUser, RevokeRows, OfUser, callVars
  <2>6. ASSUME rows' = rows PROVE FALSE
    BY <2>1, <2>6
  <2>7. ASSUME NEW c \in Calls,
               \/ \E a \in IssueArg : BeginIssue(c, a)
               \/ \E a \in PresentArg, kid \in Kids : BeginPresent(c, a, kid)
               \/ RefuseMalformed(c) \/ Find(c) \/ RefuseUnproved(c) \/ CheckRevokeToken(c)
               \/ CheckRotated(c) \/ CheckRevoked(c) \/ CheckActive(c) \/ FindSuccessor(c)
               \/ Abort(c)
        PROVE  FALSE
    BY <2>6, <2>7 DEF BeginIssue, BeginPresent, Begin, RefuseMalformed, Find, RefuseUnproved,
       CheckRevokeToken, CheckRotated, CheckRevoked, CheckActive, FindSuccessor, Abort, storeVars
  <2>8. ASSUME NEW c \in Calls, IssueInsert(c) \/ InsertSuccessor(c) PROVE FALSE
    <3>1. rows'[s].status \in {rows[s].status, "active"}
      BY <2>8 DEF IssueInsert, InsertSuccessor, Insert, Mint, TypeInv, TypeOK
    <3> QED BY <3>1
  <2>9. ASSUME NEW c \in Calls, MarkPredecessor(c) PROVE FALSE
    <3>1. rows[s] \in TokenRecord
      BY <2>1, RecordStatus DEF Present, TypeInv, TypeOK
    <3>2. rows'[s].status \in {rows[s].status, "rotated"}
      <4>1. CASE rows' = rows
        BY <4>1
      <4>2. CASE MarkRotated(arg[c].selector, RotatedAt(rec[c], at[c]), nxt[c])
        BY <3>1, <4>2 DEF MarkRotated, TypeInv, TypeOK, TokenRecord
      <4> QED BY <2>9, <4>1, <4>2 DEF MarkPredecessor
    <3> QED BY <3>2
  <2>10. ASSUME DeleteExpired \/ Tick \/ UNCHANGED vars PROVE FALSE
    BY <2>1, <2>10, RecordStatus DEF DeleteExpired, Tick, vars, storeVars
  <2> HIDE DEF Within, OfOne
  <2>11. Within \/ OfOne
    BY <2>2, <2>3, <2>4, <2>5, <2>7, <2>8, <2>9, <2>10 DEF Next, Progress
  <2> QED BY <2>11 DEF Within, OfOne
<1> QED BY <1>1, EngineCorrect, PTL DEF Spec, BlastRadius

\* Knowing a selector is worth nothing: a call that presented one without its
\* verifier reaches no write of the store, grants nothing and revokes nothing.
THEOREM GuessTheorem == Spec => GuessChangesNothing
<1>1. TypeInv /\ JudgedInv /\ IInv /\ [Next]_vars => \A c \in Calls : GuessStep(c)
  <2> SUFFICES ASSUME TypeInv, JudgedInv, IInv, [Next]_vars, NEW c \in Calls,
                      pc[c] \notin {"idle", "issue"}, arg[c].verifier \in Guesses, pc'[c] # pc[c]
               PROVE  UNCHANGED <<rows, granted, dead>>
    BY DEF GuessStep
  <2>1. Takes(c)
    BY OneMoves DEF Still, Kept
  <2>2. pc[c] \in Presenting
    BY DEF TypeInv, TypeOK, Steps, Presenting
  <2>3. arg[c] \in PresentArg /\ arg[c].selector \in Selectors
    BY <2>2 DEF TypeInv, LocalsOK, PresentArg, RefreshArg, RevokeArg
  <2>4. pc[c] \in {"find", "check"}
    BY <2>2, <2>3, DistinctAssumption DEF JudgedInv, JudgedOK, Proved
  <2>5. CASE Abort(c)
    BY <2>5 DEF Abort, storeVars
  <2>6. CASE Find(c) \/ RefuseUnproved(c) \/ CheckRevokeToken(c) \/ CheckRotated(c) \/ CheckRevoked(c)
             \/ CheckActive(c)
    BY <2>6 DEF Find, RefuseUnproved, CheckRevokeToken, CheckRotated, CheckRevoked, CheckActive,
                storeVars, historyVars
  <2>7. Abort(c) \/ Find(c) \/ RefuseUnproved(c) \/ CheckRevokeToken(c) \/ CheckRotated(c)
        \/ CheckRevoked(c) \/ CheckActive(c)
    BY <2>1, <2>4 DEF Takes, Progress, BeginIssue, BeginPresent, Begin, RefuseMalformed,
       IssueInsert, FindSuccessor, Consume, InsertSuccessor, MarkPredecessor, Compensate,
       RevokeFamilyOf
  <2> QED BY <2>5, <2>6, <2>7
<1> QED BY <1>1, EngineCorrect, JudgedCorrect, PTL DEF Spec, GuessChangesNothing

-----------------------------------------------------------------------------
(* Compensation.                                                            *)

\* While no call has died, an exchangeable row is in a caller's hands, or it is
\* the successor of a call that will hand it out or take it back.
Accounted ==
  aborts = 0 => \A s \in Selectors :
    IsActive(s) => s \in granted \/ \E c \in Calls : Inserted(c) /\ nxt[c] = s

LEMMA StepAccounted == TypeInv /\ IInv /\ Accounted /\ [Next]_vars => Accounted'
<1> SUFFICES ASSUME TypeInv, IInv, Accounted, [Next]_vars, aborts' = 0,
                    NEW s \in Selectors, IsActive(s)'
             PROVE  s \in granted' \/ \E c \in Calls : Inserted(c)' /\ nxt'[c] = s
  BY DEF Accounted
<1>1. aborts = 0 /\ granted \subseteq granted'
  <2>1. ASSUME NEW c \in Calls, Takes(c) PROVE aborts = 0 /\ granted \subseteq granted'
    <3>1. ~ Abort(c)
      BY DEF Abort, TypeInv, TypeOK
    <3> QED BY <2>1, <3>1 DEF Takes, Progress, BeginIssue, BeginPresent, Begin, RefuseMalformed, IssueInsert, Find,
       RefuseUnproved, CheckRevokeToken, CheckRotated, CheckRevoked, CheckActive, FindSuccessor,
       Consume, InsertSuccessor, MarkPredecessor, Compensate, RevokeFamilyOf, historyVars
  <2> QED BY <2>1 DEF Next, Takes, AdminRevokeFamily, AdminRevokeUser, DeleteExpired, Tick, vars,
                      historyVars
<1>2. CASE IsActive(s) /\ s \notin granted
  <2>1. PICK c \in Calls : Inserted(c) /\ nxt[c] = s
    BY <1>1, <1>2 DEF Accounted
  <2>2. CASE Still(c)
    BY <2>1, <2>2 DEF Still, Kept, Inserted
  <2>3. CASE MarkPredecessor(c)
    BY <2>1, <2>3 DEF MarkPredecessor, GoTo, Inserted, TypeInv, TypeOK
  <2>4. CASE Compensate(c)
    <3>1. rows[s] \in TokenRecord
      BY <1>2, RecordStatus DEF IsActive, TypeInv, TypeOK
    <3>2. rows'[s].status = "revoked"
      BY <1>2, <2>1, <2>4, <3>1 DEF Compensate, RevokeIfActive, RevokeIfActiveApplies, Revoked,
         TokenRecord, TypeInv, TypeOK
    <3> QED BY <3>2 DEF IsActive
  <2>5. Still(c) \/ MarkPredecessor(c) \/ Compensate(c)
    <3>1. Takes(c) => MarkPredecessor(c) \/ Compensate(c) \/ Abort(c)
      BY <2>1 DEF Takes, Progress, Inserted, BeginIssue, BeginPresent, Begin, RefuseMalformed,
         IssueInsert, Find, RefuseUnproved, CheckRevokeToken, CheckRotated, CheckRevoked,
         CheckActive, Refreshing, FindSuccessor, Consume, InsertSuccessor, RevokeFamilyOf
    <3>2. ~ Abort(c)
      BY <1>1 DEF Abort
    <3> QED BY <3>1, <3>2, OneMoves
  <2> QED BY <2>2, <2>3, <2>4, <2>5
<1>3. CASE ~ IsActive(s)
  <2>1. ASSUME NEW c \in Calls, IssueInsert(c) PROVE s \in granted'
    BY <1>3, <2>1 DEF IssueInsert, Insert, IsActive, TypeInv, TypeOK
  <2>2. ASSUME NEW c \in Calls, InsertSuccessor(c) PROVE Inserted(c)' /\ nxt'[c] = s
    BY <1>3, <2>2 DEF InsertSuccessor, Insert, GoTo, Inserted, IsActive, TypeInv, TypeOK
  <2>3. CASE Shrinks
    BY <1>3, <2>3, ShrunkRows DEF IsActive
  <2>4. ASSUME NEW c \in Calls, MarkPredecessor(c) PROVE FALSE
    <3>1. arg[c].selector \in Selectors /\ rec[c].status \in {"active", "rotated"}
      BY <2>4 DEF MarkPredecessor, TypeInv, LocalsOK, Proved, Presenting, Rotating, RefreshArg
    <3>2. CASE rows' = rows
      BY <1>3, <3>2 DEF IsActive
    <3>3. CASE /\ MarkRotatedApplies(arg[c].selector, rec[c].status)
               /\ MarkRotated(arg[c].selector, RotatedAt(rec[c], at[c]), nxt[c])
      <4>1. rows[arg[c].selector] \in TokenRecord
        BY <3>1, <3>3, RecordStatus DEF MarkRotatedApplies, TypeInv, TypeOK
      <4> QED BY <1>3, <3>1, <3>3, <4>1 DEF MarkRotated, IsActive, TypeInv, TypeOK, TokenRecord
    <3> QED BY <2>4, <3>2, <3>3 DEF MarkPredecessor
  <2> QED BY <2>1, <2>2, <2>3, <2>4, ShrinkingSteps
<1>4. CASE s \in granted
  BY <1>1, <1>4
<1> QED BY <1>2, <1>3, <1>4

\* Compensation is complete: when nothing is in flight and no call has died,
\* every exchangeable row was handed to a caller; the loser of a race takes
\* back the successor it inserted.
THEOREM OrphanTheorem == Spec => []NoOrphanAtRest
<1>1. Init => Accounted
  BY RecordStatus DEF Init, Accounted, IsActive
<1>2. Accounted => NoOrphanAtRest
  BY DEF Accounted, NoOrphanAtRest, Inserted
<1> QED BY <1>1, <1>2, StepAccounted, IInvCorrect, PTL DEF Spec

=============================================================================
