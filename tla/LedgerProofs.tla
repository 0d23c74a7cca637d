---------------------------- MODULE LedgerProofs ----------------------------
(***************************************************************************)
(* The engine implements the family ledger: LedgerKept, proved.            *)
(***************************************************************************)
EXTENDS EvidenceProofs, EngineLedger

Head   == [f \in Families |-> Heads(f)]
Credit == {f \in Families : Credited(f)}

-----------------------------------------------------------------------------
(* The steps of the ledger, in the terms of the engine.                     *)

\* f gets the token n and no other family's changes.
Granted(f, n) ==
  /\ n \in Selectors \ granted /\ granted' = granted \cup {n}
  /\ Heads(f)' = {n}
  /\ \A g \in Families \ {f} : Heads(g)' = Heads(g)

LEMMA GrantStep ==
  ASSUME NEW f \in Families, NEW n, Granted(f, n)
  PROVE  Ledger!Grant(f)
<1>1. Head' = [Head EXCEPT ![f] = {n}]
  BY DEF Head, Granted
<1> QED BY <1>1 DEF Head, Granted, Ledger!Grant

LEMMA OpenStep ==
  ASSUME NEW f \in Families, NEW n, Granted(f, n), Credited(f), f \notin dead, Heads(f) = {},
         Credit' = Credit \ {f}, dead' = dead
  PROVE  Ledger!LedgerNext
  BY GrantStep DEF Head, Credit, Ledger!Open, Ledger!LedgerNext

LEMMA ExchangeStep ==
  ASSUME NEW f \in Families, NEW n, Granted(f, n), f \notin dead, Heads(f) # {},
         Credit' = Credit, dead' = dead
  PROVE  Ledger!LedgerNext
  BY GrantStep DEF Head, Credit, Ledger!Exchange, Ledger!LedgerNext

LEMMA WithdrawStep ==
  ASSUME NEW f \in Families, Heads(f) # {}, Heads(f)' = {},
         \A g \in Families \ {f} : Heads(g)' = Heads(g),
         Credit' = Credit \cup {f}, UNCHANGED <<granted, dead>>
  PROVE  Ledger!LedgerNext
<1>1. Head' = [Head EXCEPT ![f] = {}]
  BY DEF Head
<1> QED BY <1>1 DEF Head, Credit, Ledger!Withdraw, Ledger!LedgerNext

LEMMA ForfeitStep ==
  ASSUME NEW f \in Families, \A g \in Families : Heads(g)' = Heads(g),
         Credit' = Credit \ {f}, UNCHANGED <<granted, dead>>
  PROVE  Ledger!LedgerNext
<1>1. Head' = Head
  BY DEF Head
<1> QED BY <1>1 DEF Head, Credit, Ledger!Forfeit, Ledger!LedgerNext

LEMMA EmptiedStep ==
  ASSUME NEW F \in SUBSET Families,
         \A f \in Families : Heads(f)' = IF f \in F THEN {} ELSE Heads(f),
         Credit' = Credit, granted' = granted, dead' \in {dead, dead \cup F}
  PROVE  Ledger!LedgerNext
<1>1. Head' = [f \in Families |-> IF f \in F THEN {} ELSE Head[f]]
  BY DEF Head
<1>2. Head' = Ledger!Emptied(F)
  BY <1>1 DEF Head, Ledger!Emptied
<1>3. CASE dead' = dead
  BY <1>2, <1>3 DEF Head, Credit, Ledger!Lapse, Ledger!LedgerNext
<1>4. CASE dead' = dead \cup F
  BY <1>2, <1>4 DEF Head, Credit, Ledger!Close, Ledger!LedgerNext
<1> QED BY <1>3, <1>4

\* Rows are revoked or collected and nobody's claim changes.  A family has one
\* head, so it keeps it or loses it.
LEMMA ShrunkStep ==
  ASSUME TypeInv, IInv, Shrinks, Credit' = Credit, dead' = dead
  PROVE  Ledger!LedgerNext
<1> DEFINE F == {f \in Families : Heads(f)' = {}}
<1>1. \A f \in Families : Heads(f)' = IF f \in F THEN {} ELSE Heads(f)
  BY ShrunkLineage DEF IInv, LineOK, NoFork
<1>2. granted' = granted
  BY DEF Shrinks
<1> QED BY <1>1, <1>2, EmptiedStep

\* A revocation of whole families closes them.
LEMMA CloseStep ==
  ASSUME TypeInv, IInv, DeadOK, CharterInv, Credit' = Credit, granted' = granted,
         NEW S \in SUBSET {s \in Selectors : Present(s)}, RevokeRows(S),
         \A s \in S, t \in Selectors : InFamily(t, rows[s].familyId) => t \in S
  PROVE  Ledger!LedgerNext
<1> DEFINE F == {rows[s].familyId : s \in S}
<1>1. F \in SUBSET Families
  BY RecordStatus DEF Present, TypeInv, TypeOK, TokenRecord
<1>2. ASSUME NEW f \in F PROVE Heads(f)' = {}
  <2>1. \A t \in Selectors : InFamily(t, f) => t \in S
    BY <1>2
  <2>2. ASSUME NEW t \in Selectors, IsActive(t)', rows'[t].familyId = f PROVE FALSE
    <3>1. t \notin S
      BY <2>2, RecordStatus DEF RevokeRows, Revoked, IsActive, Present, TypeInv, TypeOK, TokenRecord
    <3>2. rows'[t] = rows[t]
      BY <3>1 DEF RevokeRows
    <3> QED BY <2>1, <2>2, <3>1, <3>2 DEF InFamily, IsActive, Present
  <2> QED BY <2>2 DEF Heads, TypeInv, TypeOK
<1>3. ASSUME NEW f \in Families, f \notin F PROVE Heads(f)' = Heads(f)
  <2>1. ASSUME NEW t \in Selectors, t \in S
        PROVE  rows[t].familyId # f /\ rows'[t].familyId # f
    <3>1. rows[t] \in TokenRecord
      BY <2>1, RecordStatus DEF Present, TypeInv, TypeOK
    <3> QED BY <1>3, <2>1, <3>1 DEF RevokeRows, Revoked, TokenRecord
  <2>2. \A t \in Selectors : t \notin S => rows'[t] = rows[t]
    BY DEF RevokeRows
  <2> QED BY <2>1, <2>2 DEF Heads, IsActive, TypeInv, TypeOK
<1>4. dead' = dead \cup F
  BY DEF RevokeRows
<1> HIDE DEF F
<1> QED BY <1>1, <1>2, <1>3, <1>4, EmptiedStep

-----------------------------------------------------------------------------
(* Who is owed a token.                                                     *)

Claims(c, f) ==
  \/ pc[c] = "issue" /\ arg[c].familyId = f
  \/ Retrying(c) /\ rec[c].familyId = f

LEMMA CreditedIs == \A f : Credited(f) <=> charter[f] = None \/ \E c \in Calls : Claims(c, f)
  BY DEF Credited, Claims

\* One call at a time has a claim, on a family whose id was drawn.
LEMMA OneClaim ==
  ASSUME TypeInv, IInv, NEW f \in Families, NEW c \in Calls, Claims(c, f)
  PROVE  /\ charter[f] # None
         /\ \A d \in Calls : Claims(d, f) => d = c
<1>1. \A d \in Calls : Retrying(d) => rec[d] # NoRow
  BY RecordStatus DEF Retrying
<1>2. CASE pc[c] = "issue" /\ arg[c].familyId = f
  BY <1>1, <1>2 DEF Claims, IInv, FamiliesOK, Unused
<1>3. CASE Retrying(c) /\ rec[c].familyId = f
  BY <1>1, <1>3 DEF Claims, IInv, FamiliesOK, Unused, LineOK
<1> QED BY <1>2, <1>3 DEF Claims

LEMMA StillClaims ==
  ASSUME NEW d \in Calls, Still(d)
  PROVE  \A f : Claims(d, f)' <=> Claims(d, f)
  BY DEF Still, Kept, Claims, Retrying

LEMMA SameClaims ==
  ASSUME charter' = charter, \A d \in Calls, f \in Families : Claims(d, f)' <=> Claims(d, f)
  PROVE  Credit' = Credit
  BY CreditedIs DEF Credit, Credited, Claims

\* The call that had a claim gives it up.
LEMMA LostClaim ==
  ASSUME TypeInv, IInv, charter' = charter, NEW F \in Families, NEW c \in Calls, Claims(c, F),
         \A f \in Families : ~ Claims(c, f)', \A d \in Calls \ {c} : Still(d)
  PROVE  Credit' = Credit \ {F}
<1>1. charter[F] # None /\ \A d \in Calls : Claims(d, F) => d = c
  BY OneClaim
<1>2. \A d \in Calls \ {c}, f \in Families : Claims(d, f)' <=> Claims(d, f)
  BY StillClaims
<1>3. \A f \in Families : Claims(c, f) => f = F
  BY DEF Claims, Retrying
<1>4. \A f \in Families : Credited(f)' <=> Credited(f) /\ f # F
  <2>1. \A f \in Families : Credited(f)' <=> charter[f] = None \/ \E d \in Calls : Claims(d, f)'
    BY DEF Credited, Claims
  <2>2. \A f \in Families : Credited(f) <=> charter[f] = None \/ \E d \in Calls : Claims(d, f)
    BY CreditedIs
  <2> QED BY <1>1, <1>2, <1>3, <2>1, <2>2
<1> QED BY <1>4 DEF Credit

-----------------------------------------------------------------------------
(* The successor a winner hands out is exchangeable.                        *)

\* While the compare-and-set of call c can still succeed, the row it inserted
\* is active: revocations and collection take a family as a whole.
ReadyOK(c) ==
  pc[c] = "markRotated" /\ rows[arg[c].selector].status \in {"active", "rotated"}
    => IsActive(nxt[c])

Ready == \A c \in Calls : ReadyOK(c)

\* What c knows of the row it presented and of the one it inserted.
LEMMA WinnerRows ==
  ASSUME TypeInv, IInv, NEW c \in Calls, pc[c] = "markRotated"
  PROVE  /\ arg[c].selector \in granted /\ arg[c].selector \in Selectors
         /\ nxt[c] \in Selectors /\ nxt[c] \in minted \ granted
         /\ rec[c] \in TokenRecord /\ rec[c].status \in {"active", "rotated"}
         /\ CopyOf(rec[c], arg[c].selector) /\ SuccessorOf(nxt[c], rec[c])
<1>1. rec[c] \in TokenRecord /\ rec[c] # NoRow /\ rec[c].status \in {"active", "rotated"}
      /\ nxt[c] \in Selectors /\ arg[c].selector \in Selectors
  BY RecordStatus DEF TypeInv, LocalsOK, Proved, Presenting, Rotating, RefreshArg
<1> QED BY <1>1 DEF IInv, CallsOK, CopyOK, HolderOK, NextOK, Inserted, Proved, Presenting

LEMMA StillReady ==
  ASSUME TypeInv, CharterInv, IInv, Ready, [Next]_vars, NEW c \in Calls, Still(c)
  PROVE  ReadyOK(c)'
<1> DEFINE p == arg[c].selector
           n == nxt[c]
<1> SUFFICES ASSUME pc[c] = "markRotated", rows'[p].status \in {"active", "rotated"}
             PROVE  rows'[n].status = "active"
  BY DEF ReadyOK, Still, Kept, IsActive
<1>1. /\ p \in granted /\ p \in Selectors /\ n \in Selectors /\ n \in minted /\ n \notin granted
      /\ p \in minted /\ CopyOf(rec[c], p) /\ SuccessorOf(n, rec[c]) /\ p # n
  BY WinnerRows DEF IInv, RowsOK
<1>2. Present(p) /\ rows[p] \in TokenRecord /\ rows[p].status \in {"active", "rotated"}
  <2>1. Present(p)
    BY <1>1, KnownRow DEF Present
  <2>2. EvidenceStep(p)
    BY <1>1, RowEvidence
  <2> QED BY <1>1, <2>1, <2>2, RecordStatus DEF EvidenceStep, Present, TypeInv, TypeOK, TokenStatus
<1>3. IsActive(n) /\ rows[n] \in TokenRecord /\ Present(n)
  BY <1>1, <1>2, RecordStatus DEF Ready, ReadyOK, IsActive, Present, TypeInv, TypeOK
<1>4. rows[n].familyId = rows[p].familyId
  BY <1>2, <1>3 , <1>1 DEF CopyOf, SuccessorOf
<1> HIDE DEF p, n
<1>5. ASSUME NEW S, RevokeRows(S), p \in S <=> n \in S, S \subseteq Selectors PROVE rows'[n].status = "active"
  <2>1. p \notin S
    <3>1. Revoked(rows[p]).status = "revoked"
      BY <1>2 DEF Revoked, TokenRecord
    <3> QED BY <1>1, <1>5, <3>1 DEF RevokeRows
  <2> QED BY <1>1, <1>3, <1>5, <2>1 DEF RevokeRows, IsActive
<1>6. ASSUME NEW f, RevokeFamily(f) PROVE rows'[n].status = "active"
  BY <1>1, <1>2, <1>3, <1>4, <1>5, <1>6 DEF RevokeFamily, InFamily
<1>7. ASSUME NEW u, RevokeUser(u) PROVE rows'[n].status = "active"
  <2>1. rows[n].userId = rows[p].userId
    BY <1>1, <1>2, <1>3, <1>4 DEF CharterInv, CharterKept, FromLogin
  <2> QED BY <1>1, <1>2, <1>3, <1>5, <1>7, <2>1 DEF RevokeUser, OfUser
<1>8. ASSUME rows'[n] = rows[n] PROVE rows'[n].status = "active"
  BY <1>3, <1>8 DEF IsActive
<1>9. ASSUME DeleteExpired PROVE rows'[n].status = "active"
  <2>1. rows[n].familyExpiresAt = rows[p].familyExpiresAt
    BY <1>1, <1>2, <1>3, <1>4 DEF CharterInv, CharterKept, FromLogin
  <2>2. ~ Expired(rows[p], clock)
    BY <1>1, <1>2, <1>9, RecordStatus DEF DeleteExpired
  <2> QED BY <1>1, <1>8, <1>9, <2>1, <2>2 DEF DeleteExpired, Expired
<1>10. ASSUME NEW d \in Calls, Consume(d) \/ Compensate(d) PROVE rows'[n] = rows[n]
  <2>1. nxt[d] # n
    <3>1. CASE Consume(d)
      <4>1. nxt[d] \in granted
        BY <3>1, RecordStatus DEF Consume, IInv, CallsOK, NextOK, CopyOK, Replaced, TypeInv, LocalsOK
      <4> QED BY <1>1, <4>1
    <3>2. CASE Compensate(d)
      <4>1. d # c /\ Inserted(d) /\ Inserted(c)
        BY <3>2 DEF Compensate, Inserted
      <4> QED BY <4>1 DEF IInv, CallsOK, n
    <3> QED BY <1>10, <3>1, <3>2
  <2> QED BY <1>1, <1>10, <2>1 DEF Consume, Compensate, RevokeIfActive, TypeInv, TypeOK
<1>11. ASSUME NEW d \in Calls, IssueInsert(d) \/ InsertSuccessor(d) PROVE rows'[n] = rows[n]
  BY <1>1, <1>11 DEF IssueInsert, InsertSuccessor, Insert, Fresh, TypeInv, TypeOK
<1>12. ASSUME NEW d \in Calls, MarkPredecessor(d) PROVE rows'[n] = rows[n]
  <2>1. arg[d].selector \in granted
    BY <1>12, WinnerRows DEF MarkPredecessor
  <2> QED BY <1>1, <1>12, <2>1 DEF MarkPredecessor, MarkRotated, TypeInv, TypeOK
<1>13. ASSUME NEW d \in Calls,
              \/ \E a \in IssueArg : BeginIssue(d, a)
              \/ \E a \in PresentArg, kid \in Kids : BeginPresent(d, a, kid)
              \/ RefuseMalformed(d) \/ Find(d) \/ RefuseUnproved(d) \/ CheckRevokeToken(d)
              \/ CheckRotated(d) \/ CheckRevoked(d) \/ CheckActive(d) \/ FindSuccessor(d)
              \/ Abort(d)
       PROVE  rows'[n] = rows[n]
  BY <1>13 DEF BeginIssue, BeginPresent, Begin, RefuseMalformed, Find, RefuseUnproved,
     CheckRevokeToken, CheckRotated, CheckRevoked, CheckActive, FindSuccessor, Abort, storeVars
<1>14. ASSUME Tick \/ UNCHANGED vars PROVE rows'[n] = rows[n]
  BY <1>14 DEF Tick, vars, storeVars
<1> QED
  BY <1>6, <1>7, <1>8, <1>9, <1>10, <1>11, <1>12, <1>13, <1>14
  DEF Next, Progress, RevokeFamilyOf, AdminRevokeFamily, AdminRevokeUser

LEMMA StepReady == TypeInv /\ CharterInv /\ IInv /\ Ready /\ [Next]_vars => Ready'
<1> SUFFICES ASSUME TypeInv, CharterInv, IInv, Ready, [Next]_vars, NEW c \in Calls PROVE ReadyOK(c)'
  BY DEF Ready
<1>1. CASE Still(c)
  BY <1>1, StillReady
<1>2. CASE InsertSuccessor(c)
  BY <1>2 DEF InsertSuccessor, Insert, Mint, ReadyOK, IsActive, Fresh, TypeInv, TypeOK
<1>3. ASSUME NEW code, Return(c, code) PROVE ReadyOK(c)'
  BY <1>3 DEF Return, ReadyOK, TypeInv, TypeOK
<1>4. ASSUME NEW step, step # "markRotated", GoTo(c, step) PROVE ReadyOK(c)'
  BY <1>4 DEF GoTo, ReadyOK, TypeInv, TypeOK
<1>5. ASSUME Takes(c), ~ InsertSuccessor(c) PROVE ReadyOK(c)'
  BY <1>3, <1>4, <1>5 DEF Takes, Progress, BeginIssue, BeginPresent, Begin, RefuseMalformed,
     IssueInsert, Find, RefuseUnproved, CheckRevokeToken, CheckRotated, CheckRevoked, CheckActive,
     FindSuccessor, Consume, MarkPredecessor, Compensate, RevokeFamilyOf, Abort, RevokeThenReturn
<1> QED BY <1>1, <1>2, <1>5, OneMoves

-----------------------------------------------------------------------------
(* Every step of the engine is a step of the ledger, or none.               *)

\* Nothing the ledger sees changes.
LEMMA Stutter ==
  ASSUME \A f \in Families : Heads(f)' = Heads(f), Credit' = Credit, UNCHANGED <<granted, dead>>
  PROVE  UNCHANGED Ledger!ledgerVars
  BY DEF Credit, Ledger!ledgerVars

\* A call ends, or goes on to a step where it has the claim it had.
LEMMA ReturnClaims ==
  ASSUME TypeInv, IInv, NEW c \in Calls, NEW code, Return(c, code), Takes(c), charter' = charter
  PROVE  \/ Credit' = Credit
         \/ \E F \in Families : Claims(c, F) /\ Credit' = Credit \ {F}
<1>1. \A f : ~ Claims(c, f)'
  BY DEF Return, Claims, Retrying, TypeInv, TypeOK
<1>2. \A d \in Calls \ {c} : Still(d)
  BY OthersStill
<1>3. CASE \E F \in Families : Claims(c, F)
  BY <1>1, <1>2, <1>3, LostClaim
<1>4. CASE \A F \in Families : ~ Claims(c, F)
  BY <1>1, <1>2, <1>4, StillClaims, SameClaims
<1> QED BY <1>3, <1>4

LEMMA BeginLedger ==
  ASSUME TypeInv, IInv, NEW c \in Calls, NEW a \in IssueArg, BeginIssue(c, a)
  PROVE  UNCHANGED Ledger!ledgerVars
<1>1. /\ a.familyId \in Families /\ charter[a.familyId] = None
      /\ \A f \in Families \ {a.familyId} : charter'[f] = charter[f]
      /\ pc[c] = "idle" /\ pc'[c] = "issue" /\ arg'[c] = a
      /\ UNCHANGED <<rows, rec, granted, dead>>
  BY DEF BeginIssue, Begin, GoTo, storeVars, IssueArg, TypeInv, TypeOK
<1>2. \A d \in Calls \ {c} : Still(d)
  BY OthersStill DEF Takes
<1>3. \A f \in Families : Heads(f)' = Heads(f)
  BY <1>1 DEF Heads, IsActive
<1>4. \A f \in Families : Claims(c, f)' <=> f = a.familyId
  BY <1>1 DEF Claims, Retrying
<1>5. \A f \in Families : ~ Claims(c, f)
  BY <1>1 DEF Claims, Retrying
<1>6. \A f \in Families : Credited(f)' <=> Credited(f)
  <2>1. \A f \in Families : Credited(f)' <=> charter'[f] = None \/ \E d \in Calls : Claims(d, f)'
    BY DEF Credited, Claims
  <2> QED BY <1>1, <1>2, <1>4, <1>5, <2>1, CreditedIs, StillClaims
<1>7. Credit' = Credit
  BY <1>6 DEF Credit
<1> QED BY <1>1, <1>3, <1>7, Stutter

\* Steps that write nothing, and those that revoke one row nobody was handed.
LEMMA QuietLedger ==
  ASSUME TypeInv, IInv, NEW c \in Calls
  PROVE  /\ \A a \in PresentArg, kid \in Kids :
              BeginPresent(c, a, kid) => [Ledger!LedgerNext]_(Ledger!ledgerVars)
         /\ RefuseMalformed(c) \/ RefuseUnproved(c) \/ CheckRevoked(c) \/ Abort(c)
              => [Ledger!LedgerNext]_(Ledger!ledgerVars)
         /\ Find(c) \/ CheckRevokeToken(c) \/ CheckRotated(c) \/ CheckActive(c) \/ FindSuccessor(c)
              => [Ledger!LedgerNext]_(Ledger!ledgerVars)
<1>1. ASSUME rows' = rows, granted' = granted PROVE \A f \in Families : Heads(f)' = Heads(f)
  BY <1>1 DEF Heads, IsActive
<1>2. ASSUME Takes(c), NEW code, Return(c, code), UNCHANGED <<rows, granted, charter, dead>>
      PROVE  [Ledger!LedgerNext]_(Ledger!ledgerVars)
  BY <1>1, <1>2, ReturnClaims, ForfeitStep, Stutter
<1>3. ASSUME Takes(c), UNCHANGED <<rows, granted, charter, dead>>,
             pc[c] \notin {"issue", "insert", "markRotated"}, pc'[c] \notin {"issue", "markRotated"},
             pc'[c] = "insert" => rec'[c].status # "rotated"
      PROVE  [Ledger!LedgerNext]_(Ledger!ledgerVars)
  <2>1. \A f \in Families : ~ Claims(c, f) /\ ~ Claims(c, f)'
    BY <1>3 DEF Claims, Retrying
  <2>2. Credit' = Credit
    BY <1>3, <2>1, OthersStill, StillClaims, SameClaims
  <2> QED BY <1>1, <1>3, <2>2, Stutter
<1>4. ASSUME NEW a \in PresentArg, NEW kid \in Kids, BeginPresent(c, a, kid)
      PROVE  [Ledger!LedgerNext]_(Ledger!ledgerVars)
  <2>1. Takes(c)
    BY <1>4 DEF Takes
  <2>2. CASE Begin(c, a, "find", 0) /\ UNCHANGED charter
    BY <1>3, <2>1, <2>2 DEF Begin, GoTo, storeVars, TypeInv, TypeOK
  <2> QED BY <1>2, <1>4, <2>1, <2>2 DEF BeginPresent, storeVars, historyVars
<1>5. ASSUME RefuseMalformed(c) \/ RefuseUnproved(c) \/ CheckRevoked(c) \/ Abort(c)
      PROVE  [Ledger!LedgerNext]_(Ledger!ledgerVars)
  <2>1. Takes(c)
    BY <1>5 DEF Takes, Progress
  <2> QED BY <1>2, <1>5, <2>1 DEF RefuseMalformed, RefuseUnproved, CheckRevoked, Abort, storeVars,
                                  historyVars
<1>6. ASSUME Find(c) \/ CheckRevokeToken(c) \/ CheckRotated(c) \/ CheckActive(c) \/ FindSuccessor(c)
      PROVE  [Ledger!LedgerNext]_(Ledger!ledgerVars)
  <2>1. Takes(c)
    BY <1>6 DEF Takes, Progress
  <2>2. /\ UNCHANGED <<rows, granted, charter, dead>>
        /\ pc[c] \in {"find", "check", "findSuccessor"}
        /\ pc'[c] \in {"check", "revokeFamily", "findSuccessor", "consume", "insert"}
        /\ pc'[c] = "insert" => rec'[c].status = "active"
    BY <1>6 DEF Find, CheckRevokeToken, CheckRotated, CheckActive, Refreshing, FindSuccessor,
       RevokeThenReturn, GoTo, storeVars, historyVars, TypeInv, TypeOK
  <2> QED BY <1>3, <2>1, <2>2
<1> QED BY <1>4, <1>5, <1>6

\* issue() opens the account of its family.
LEMMA IssueLedger ==
  ASSUME TypeInv, IInv, DeadOK, NEW c \in Calls, IssueInsert(c)
  PROVE  Ledger!LedgerNext
<1>0. PICK F \in Families : F = arg[c].familyId /\ pc[c] = "issue"
  BY DEF IssueInsert, TypeInv, LocalsOK, IssueArg
<1>1. PICK s \in Fresh :
        /\ \A t \in Selectors \ {s} : rows'[t] = rows[t]
        /\ rows'[s].status = "active" /\ rows'[s].familyId = F
        /\ granted' = granted \cup {s}
  BY <1>0 DEF IssueInsert, Insert, Mint, Fresh, TypeInv, TypeOK
<1>2. s \in Selectors /\ s \notin granted /\ granted \subseteq Selectors
  BY DEF Fresh, IInv, RowsOK, TypeInv, TypeOK
<1>3. Unused(F) /\ Opening(F)
  BY <1>0 DEF IInv, FamiliesOK, Opening
<1>4. Heads(F) = {}
  BY <1>2, <1>3 DEF Unused, Heads, IsActive, Present
<1>5. \A f \in Families \ {F} : Heads(f)' = Heads(f)
  BY <1>1, <1>2 DEF Heads, IsActive
<1>6. Heads(F)' = {s}
  BY <1>1, <1>2, <1>4 DEF Heads, IsActive
<1>7. Claims(c, F) /\ (\A f \in Families : ~ Claims(c, f)') /\ UNCHANGED <<charter, dead>>
  BY <1>0 DEF IssueInsert, Return, Claims, Retrying, TypeInv, TypeOK
<1>8. Credit' = Credit \ {F}
  BY <1>7, OthersStill, LostClaim DEF Takes, Progress
<1>9. Credited(F) /\ F \notin dead
  BY <1>3, <1>7, CreditedIs DEF DeadOK
<1> QED BY <1>1, <1>2, <1>4, <1>5, <1>6, <1>7, <1>8, <1>9, OpenStep DEF Granted

\* revokeIfActive takes the head of the family back and leaves a claim on it,
\* or changes nothing.
LEMMA ConsumeLedger ==
  ASSUME TypeInv, IInv, [Next]_vars, NEW c \in Calls, Consume(c)
  PROVE  Ledger!LedgerNext
<1>0. PICK n \in Selectors, F \in Families :
        /\ n = nxt[c] /\ F = rec[c].familyId /\ rec[c] \in TokenRecord /\ rec[c] # NoRow
        /\ pc[c] = "consume" /\ rec[c].status = "rotated"
  BY RecordStatus DEF Consume, TypeInv, LocalsOK, Proved, Presenting, TokenRecord
<1>1. Shrinks
  BY <1>0 DEF Consume, RevokeIfActive, RevokeIfActiveApplies, IsActive, Present, Shrinks, historyVars,
              TypeInv, TypeOK
<1>2. /\ \A d \in Calls \ {c} : Still(d)
      /\ \A f \in Families : ~ Claims(c, f)
      /\ UNCHANGED <<charter, dead, granted>>
  BY <1>0, OthersStill DEF Takes, Progress, Claims, Retrying, Consume, historyVars
<1>3. CASE Return(c, "CONFLICT")
  <2>1. \A f \in Families : ~ Claims(c, f)'
    BY <1>3 DEF Return, Claims, Retrying, TypeInv, TypeOK
  <2>2. Credit' = Credit
    BY <1>2, <2>1, StillClaims, SameClaims
  <2> QED BY <1>1, <1>2, <2>2, ShrunkStep
<1>4. CASE RevokeIfActiveApplies(n) /\ GoTo(c, "insert") /\ UNCHANGED rec
  <2>1. pc'[c] = "insert" /\ IsActive(n) /\ rows[n] \in TokenRecord
    BY <1>4, RecordStatus DEF GoTo, RevokeIfActiveApplies, IsActive, TypeInv, TypeOK
  <2>2. n \in granted /\ rows[n].familyId = F
    BY <1>0, <2>1 DEF IInv, CallsOK, NextOK, CopyOK, Replaced, SuccessorOf, IsActive, Present
  <2>3. n \in Heads(F)
    BY <2>1, <2>2 DEF Heads
  <2>4. rows'[n].status = "revoked" /\ \A t \in Selectors \ {n} : rows'[t] = rows[t]
    BY <1>0, <1>4, <2>1 DEF Consume, RevokeIfActive, Revoked, TokenRecord, TypeInv, TypeOK
  <2>5. n \notin Heads(F)'
    BY <2>4 DEF Heads, IsActive
  <2>6. Heads(F)' = {}
    BY <1>1, <2>3, <2>5, ShrunkLineage DEF IInv, LineOK, NoFork
  <2>7. ASSUME NEW f \in Families \ {F} PROVE Heads(f)' = Heads(f)
    <3>1. n \notin Heads(f)' /\ n \notin Heads(f)
      BY <2>2, <2>4, <2>7 DEF Heads, IsActive
    <3>2. \A t \in Selectors \ {n} : t \in Heads(f)' <=> t \in Heads(f)
      BY <1>2, <2>4 DEF Heads, IsActive
    <3> QED BY <1>2, <3>1, <3>2 DEF Heads, TypeInv, TypeOK
  <2>8. \A f \in Families : Claims(c, f)' <=> f = F
    BY <1>0, <1>4, <2>1 DEF Claims, Retrying
  <2>9. Credit' = Credit \cup {F}
    <3>1. \A f \in Families : Credited(f)' <=> charter[f] = None \/ \E d \in Calls : Claims(d, f)'
      BY <1>2 DEF Credited, Claims
    <3>2. \A f \in Families : Credited(f)' <=> Credited(f) \/ f = F
      BY <1>2, <2>8, <3>1, CreditedIs, StillClaims
    <3> QED BY <3>2 DEF Credit
  <2> QED BY <1>2, <2>3, <2>6, <2>7, <2>9, WithdrawStep
<1> QED BY <1>0, <1>3, <1>4 DEF Consume

LEMMA InsertLedger ==
  ASSUME TypeInv, IInv, NEW c \in Calls, InsertSuccessor(c)
  PROVE  UNCHANGED Ledger!ledgerVars
<1>1. PICK s \in Fresh : \A t \in Selectors \ {s} : rows'[t] = rows[t]
  BY DEF InsertSuccessor, Insert, Fresh, TypeInv, TypeOK
<1>2. s \notin granted /\ granted \subseteq Selectors
  BY DEF Fresh, IInv, RowsOK, TypeInv, TypeOK
<1>3. /\ pc[c] = "insert" /\ pc'[c] = "markRotated" /\ UNCHANGED <<arg, rec, granted, charter, dead>>
  BY DEF InsertSuccessor, GoTo, TypeInv, TypeOK
<1>4. \A f \in Families : Heads(f)' = Heads(f)
  BY <1>1, <1>2, <1>3 DEF Heads, IsActive
<1>5. \A f \in Families : Claims(c, f)' <=> Claims(c, f)
  BY <1>3 DEF Claims, Retrying
<1>6. Credit' = Credit
  BY <1>3, <1>5, OthersStill, StillClaims, SameClaims DEF Takes, Progress
<1> QED BY <1>3, <1>4, <1>6, Stutter

\* The winner of the compare-and-set exchanges the head, or as a grace retry
\* redeems its claim; the loser of a retry forfeits it.
LEMMA MarkLedger ==
  ASSUME TypeInv, IInv, DeadOK, Ready, NEW c \in Calls, MarkPredecessor(c)
  PROVE  [Ledger!LedgerNext]_(Ledger!ledgerVars)
<1>0. PICK p \in Selectors, n \in Selectors, F \in Families :
        /\ p = arg[c].selector /\ n = nxt[c] /\ F = rec[c].familyId
        /\ pc[c] = "markRotated" /\ rec[c] \in TokenRecord /\ rec[c].status \in {"active", "rotated"}
        /\ p \in granted /\ n \notin granted /\ p # n
        /\ CopyOf(rec[c], p) /\ SuccessorOf(n, rec[c])
  BY WinnerRows DEF MarkPredecessor, TokenRecord
<1>1. /\ \A d \in Calls \ {c} : Still(d)
      /\ UNCHANGED <<charter, dead>>
      /\ \A f \in Families : Claims(c, f) <=> rec[c].status = "rotated" /\ f = F
      /\ \A f \in Families : ~ Claims(c, f)'
  <2>1. pc'[c] \in {"idle", "compensate"}
    BY DEF MarkPredecessor, Return, GoTo, TypeInv, TypeOK
  <2> QED BY <1>0, <2>1, OthersStill DEF Takes, Progress, Claims, Retrying, MarkPredecessor
<1>2. /\ rec[c].status = "active" => Credit' = Credit
      /\ rec[c].status = "rotated" => Credit' = Credit \ {F} /\ Credited(F)
  BY <1>1, StillClaims, SameClaims, LostClaim, CreditedIs
<1>3. CASE UNCHANGED <<rows, granted>>
  <2>1. \A f \in Families : Heads(f)' = Heads(f)
    BY <1>3 DEF Heads, IsActive
  <2> QED BY <1>0, <1>1, <1>2, <1>3, <2>1, ForfeitStep, Stutter
<1>4. CASE /\ MarkRotatedApplies(p, rec[c].status)
           /\ MarkRotated(p, RotatedAt(rec[c], at[c]), n)
           /\ granted' = granted \cup {n}
  <2>1. /\ rows[p].status = rec[c].status /\ rows[p] \in TokenRecord /\ rows[p].familyId = F
        /\ IsActive(n) /\ rows[n].familyId = F
    BY <1>0, <1>4, RecordStatus DEF MarkRotatedApplies, CopyOf, SuccessorOf, Present, IsActive, Ready,
                                    ReadyOK, TypeInv, TypeOK
  <2>2. /\ \A t \in Selectors \ {p} : rows'[t] = rows[t]
        /\ rows'[p].status = "rotated" /\ rows'[p].familyId = F
    BY <1>0, <1>4, <2>1 DEF MarkRotated, TypeInv, TypeOK, TokenRecord
  <2>3. p \in Lineage(F) /\ F \notin dead
    BY <1>0, <2>1 DEF Lineage, DeadOK
  <2>4. Heads(F) = IF rec[c].status = "active" THEN {p} ELSE {}
    <3>1. CASE rec[c].status = "active"
      <4>1. p \in Heads(F)
        BY <1>0, <2>1, <3>1 DEF Heads, IsActive
      <4> QED BY <3>1, <4>1 DEF IInv, LineOK, NoFork
    <3>2. CASE rec[c].status = "rotated"
      <4>1. Retrying(c)
        BY <1>0, <3>2 DEF Retrying
      <4> QED BY <1>0, <3>2, <4>1 DEF IInv, LineOK, RetryOK
    <3> QED BY <1>0, <3>1, <3>2
  <2>5. Heads(F)' = {n}
    <3>1. \A t \in granted \ {p} : t \in Heads(F)' => t \in Heads(F)
      BY <2>2 DEF Heads, IsActive, TypeInv, TypeOK
    <3>2. p \notin Heads(F)' /\ n \in Heads(F)'
      BY <1>0, <1>4, <2>1, <2>2 DEF Heads, IsActive
    <3> QED BY <1>4, <2>4, <3>1, <3>2 DEF Heads
  <2>6. ASSUME NEW f \in Families \ {F} PROVE Heads(f)' = Heads(f)
    <3>1. n \notin Heads(f)' /\ p \notin Heads(f)' /\ p \notin Heads(f)
      BY <1>0, <2>1, <2>2, <2>6 DEF Heads, IsActive
    <3>2. \A t \in granted \ {p} : t \in Heads(f)' <=> t \in Heads(f)
      BY <1>4, <2>2 DEF Heads, IsActive, TypeInv, TypeOK
    <3> QED BY <1>4, <3>1, <3>2 DEF Heads
  <2>7. Granted(F, n)
    BY <1>0, <1>4, <2>5, <2>6 DEF Granted
  <2> QED BY <1>0, <1>1, <1>2, <2>3, <2>4, <2>7, OpenStep, ExchangeStep
<1> QED BY <1>0, <1>3, <1>4 DEF MarkPredecessor

\* Revocations and collection.
LEMMA ShrinkLedger ==
  ASSUME TypeInv, CharterInv, IInv, DeadOK, [Next]_vars
  PROVE  /\ \A c \in Calls : Compensate(c) \/ RevokeFamilyOf(c) => Ledger!LedgerNext
         /\ \A f \in Families : AdminRevokeFamily(f) => Ledger!LedgerNext
         /\ \A u \in Users : AdminRevokeUser(u) => Ledger!LedgerNext
         /\ DeleteExpired \/ Tick => Ledger!LedgerNext
<1>1. ASSUME UNCHANGED callVars, charter' = charter PROVE Credit' = Credit
  <2>1. \A d \in Calls : Still(d)
    BY <1>1 DEF callVars, Still, Kept
  <2> QED BY <1>1, <2>1, StillClaims, SameClaims
<1>2. ASSUME NEW c \in Calls, Compensate(c) \/ RevokeFamilyOf(c) PROVE Credit' = Credit
  <2>1. Takes(c) /\ charter' = charter
    BY <1>2 DEF Takes, Progress, Compensate, RevokeFamilyOf, historyVars
  <2>2. \A f \in Families : ~ Claims(c, f) /\ ~ Claims(c, f)'
    BY <1>2 DEF Compensate, RevokeFamilyOf, Return, Claims, Retrying, TypeInv, TypeOK
  <2> QED BY <2>1, <2>2, OthersStill, StillClaims, SameClaims
<1>3. ASSUME NEW f, RevokeFamily(f), Credit' = Credit, granted' = granted PROVE Ledger!LedgerNext
  <2> DEFINE S == {s \in Selectors : InFamily(s, f)}
  <2>1. S \in SUBSET {s \in Selectors : Present(s)} /\ RevokeRows(S)
    BY <1>3 DEF RevokeFamily, InFamily
  <2>2. \A s \in S, t \in Selectors : InFamily(t, rows[s].familyId) => t \in S
    BY DEF InFamily
  <2> HIDE DEF S
  <2> QED BY <1>3, <2>1, <2>2, CloseStep
<1>4. ASSUME NEW u, RevokeUser(u), Credit' = Credit, granted' = granted PROVE Ledger!LedgerNext
  <2> DEFINE S == {s \in Selectors : OfUser(s, u)}
  <2>1. S \in SUBSET {s \in Selectors : Present(s)} /\ RevokeRows(S)
    BY <1>4 DEF RevokeUser, OfUser
  <2>2. \A s \in S, t \in Selectors : InFamily(t, rows[s].familyId) => t \in S
    BY DEF CharterInv, CharterKept, FromLogin, InFamily, OfUser
  <2> HIDE DEF S
  <2> QED BY <1>4, <2>1, <2>2, CloseStep
<1>5. ASSUME NEW c \in Calls, Compensate(c) PROVE Ledger!LedgerNext
  <2>1. nxt[c] \in Selectors
    BY <1>5 DEF Compensate, TypeInv, LocalsOK
  <2>2. Shrinks /\ dead' = dead
    BY <1>5, <2>1 DEF Compensate, RevokeIfActive, RevokeIfActiveApplies, IsActive, Present,
                      Shrinks, historyVars, TypeInv, TypeOK
  <2> QED BY <1>2, <1>5, <2>2, ShrunkStep
<1>6. ASSUME NEW c \in Calls, RevokeFamilyOf(c) PROVE Ledger!LedgerNext
  BY <1>2, <1>3, <1>6 DEF RevokeFamilyOf
<1>7. ASSUME NEW f \in Families, AdminRevokeFamily(f) PROVE Ledger!LedgerNext
  BY <1>1, <1>3, <1>7 DEF AdminRevokeFamily
<1>8. ASSUME NEW u \in Users, AdminRevokeUser(u) PROVE Ledger!LedgerNext
  BY <1>1, <1>4, <1>8 DEF AdminRevokeUser
<1>9. ASSUME DeleteExpired \/ Tick PROVE Ledger!LedgerNext
  <2>1. Shrinks /\ dead' = dead /\ charter' = charter /\ UNCHANGED callVars
    BY <1>9 DEF DeleteExpired, Tick, Shrinks, historyVars
  <2> QED BY <1>1, <2>1, ShrunkStep
<1> QED BY <1>5, <1>6, <1>7, <1>8, <1>9

LEMMA StepLedger ==
  TypeInv /\ CharterInv /\ IInv /\ DeadOK /\ Ready /\ [Next]_vars
    => [Ledger!LedgerNext]_(Ledger!ledgerVars)
<1> SUFFICES ASSUME TypeInv, CharterInv, IInv, DeadOK, Ready, [Next]_vars
             PROVE  [Ledger!LedgerNext]_(Ledger!ledgerVars)
  OBVIOUS
<1>1. CASE UNCHANGED vars
  <2>1. \A f \in Families : Heads(f)' = Heads(f)
    BY <1>1 DEF Heads, IsActive, vars, storeVars, historyVars
  <2>2. Credit' = Credit
    BY <1>1 DEF Credit, Credited, Retrying, vars, callVars, historyVars
  <2> QED BY <1>1, <2>1, <2>2, Stutter DEF vars, historyVars
<1>2. ASSUME NEW c \in Calls, Takes(c) PROVE [Ledger!LedgerNext]_(Ledger!ledgerVars)
  <2>1. CASE \E a \in IssueArg : BeginIssue(c, a)
    BY <2>1, BeginLedger
  <2>2. CASE IssueInsert(c) \/ Consume(c) \/ Compensate(c) \/ RevokeFamilyOf(c)
    BY <2>2, IssueLedger, ConsumeLedger, ShrinkLedger
  <2>3. CASE InsertSuccessor(c) \/ MarkPredecessor(c)
    BY <2>3, InsertLedger, MarkLedger
  <2> QED BY <1>2, <2>1, <2>2, <2>3, QuietLedger DEF Takes, Progress
<1>3. ASSUME \/ \E f \in Families : AdminRevokeFamily(f)
             \/ \E u \in Users : AdminRevokeUser(u)
             \/ DeleteExpired \/ Tick
      PROVE  [Ledger!LedgerNext]_(Ledger!ledgerVars)
  BY <1>3, ShrinkLedger
<1> QED BY <1>1, <1>2, <1>3 DEF Next, Takes

\* The engine implements the ledger: every exchange, grace retry, revocation
\* and collection, in any interleaving and with calls dying between any two
\* store calls, is one step of an account that holds at most one token per
\* family, gives one token for one token and stays closed once closed.
THEOREM LedgerTheorem == Spec => LedgerKept
<1>1. Init => Ledger!LedgerInit
  <2> SUFFICES ASSUME Init PROVE Ledger!LedgerInit
    OBVIOUS
  <2>1. \A f \in Families : Heads(f) = {} /\ Credited(f)
    BY DEF Init, Heads, Credited
  <2> QED BY <2>1 DEF Init, Ledger!LedgerInit
<1>2. Init => Ready
  BY DEF Init, Ready, ReadyOK
<1>3. Spec => []Ready
  BY <1>2, StepReady, EngineCorrect, PTL DEF Spec
<1> QED BY <1>1, <1>3, StepLedger, EngineCorrect, PTL DEF Spec, LedgerKept, Ledger!LedgerSpec

=============================================================================
