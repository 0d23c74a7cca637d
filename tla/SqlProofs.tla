------------------------------ MODULE SqlProofs ------------------------------
(***************************************************************************)
(* The engine over the transactional store of postgres-store.ts: NoFork,   *)
(* LinearLineage, NoOrphanCommitted, SuccessorIntact, CommittedRevoked,    *)
(* EvidenceKept and SqlLedgerKept of SqlSpec, proved.                      *)
(*                                                                         *)
(* What replaces the atomic steps of the in-memory store is the row lock:  *)
(* a row an open transaction has written keeps the committed version the   *)
(* transaction saw, so what it decided is still true when it commits.      *)
(***************************************************************************)
EXTENDS SqlStore, NebulaEngineProofs

-----------------------------------------------------------------------------
(* The inductive invariant: types.                                          *)

SqlType ==
  /\ rows \in [Selectors -> TokenRecord \cup {NoRow}]
  /\ clock \in Nat
  /\ pc \in [Calls -> Steps \cup {"commit"}]
  /\ arg \in [Calls -> IssueArg \cup PresentArg \cup {None}]
  /\ rec \in [Calls -> TokenRecord \cup {NoRow}]
  /\ at \in [Calls -> Nat]
  /\ nxt \in [Calls -> Selectors \cup {None}]
  /\ verdict \in [Calls -> Codes \cup {None}]
  /\ minted \subseteq Selectors
  /\ granted \subseteq minted
  /\ charter \in [Families -> Login \cup {None}]
  /\ writes \in [Calls -> [Selectors -> TokenRecord \cup {NoRow, Untouched}]]
  /\ stmt \in [Calls -> Statement \cup {None}]
  /\ settled \subseteq minted

Inside == {"insert", "markRotated", "compensate", "commit"}

CallType(c) ==
  /\ pc[c] = "issue" => arg[c] \in IssueArg
  /\ pc[c] \in {"find", "check"} => arg[c] \in PresentArg
  /\ pc[c] \in {"findSuccessor", "consume"} \cup Inside =>
       arg[c] \in RefreshArg /\ rec[c] \in TokenRecord
  /\ pc[c] = "revokeFamily" => rec[c] \in TokenRecord
  /\ pc[c] \in {"findSuccessor", "consume"} => rec[c].status = "rotated"
  /\ pc[c] \in Inside => rec[c].status \in {"active", "rotated"}
  /\ pc[c] = "consume" => nxt[c] = rec[c].replacedBySelector
  /\ pc[c] = "commit" => verdict[c] \in {"OK", "CONFLICT"}
  /\ stmt[c] # None => pc[c] \in {"idle", "revokeFamily"}

-----------------------------------------------------------------------------
(* The committed table.                                                     *)

Gone(s) == rows[s].status \in {"revoked", "absent"}

\* Row t, while it is there, is one generation after r.
Heir(t, r) ==
  Present(t) => /\ rows[t].familyId = r.familyId
                /\ rows[t].generation = r.generation + 1
                /\ rows[t].familyExpiresAt = r.familyExpiresAt

Linked(r) ==
  /\ r.status = "rotated" => r.replacedBySelector # None /\ r.rotatedAt # None
  /\ r.replacedBySelector # None =>
       r.replacedBySelector \in granted /\ Heir(r.replacedBySelector, r)

TableOK ==
  /\ \A s \in Selectors : Present(s) => s \in minted /\ Linked(rows[s])
  /\ \A s \in Selectors : rows[s].status \in {"active", "rotated"} => s \in granted
  /\ \A s, t \in Selectors :
       Present(s) /\ Present(t) /\ rows[s].replacedBySelector # None
       /\ rows[s].replacedBySelector = rows[t].replacedBySelector => s = t
  /\ NoFork
  /\ LinearLineage
  /\ SuccessorIntact

-----------------------------------------------------------------------------
(* Open transactions.                                                       *)

\* The call has inserted a successor that nobody else sees.
New(c) == pc[c] \in {"markRotated", "compensate"}
          \/ (pc[c] = "commit" /\ nxt[c] \in Selectors /\ Holds(c, nxt[c]))

Pending(s) == \E c \in Calls : New(c) /\ nxt[c] = s

\* A grace retry that has consumed the successor of its token.
Retry(c) == rec[c].status = "rotated" /\ (pc[c] = "insert" \/ New(c))

Marked(c) == pc[c] = "commit" /\ verdict[c] = "OK"

\* What a call knows of the row it has read.
KnownOK(c) ==
  /\ pc[c] \in {"idle", "issue", "find"} => rec[c] = NoRow
  /\ rec[c] # NoRow =>
       /\ arg[c].selector \in minted
       /\ ~ Pending(arg[c].selector)
       /\ Present(arg[c].selector) =>
            /\ rows[arg[c].selector].familyId = rec[c].familyId
            /\ rows[arg[c].selector].generation = rec[c].generation
            /\ rows[arg[c].selector].familyExpiresAt = rec[c].familyExpiresAt
       /\ rec[c].status = "rotated" => ~ IsActive(arg[c].selector)
       /\ Linked(rec[c])
       /\ \A s \in Selectors :
            Present(s) /\ rec[c].replacedBySelector # None
            /\ rows[s].replacedBySelector = rec[c].replacedBySelector => s = arg[c].selector

LocksOK == \A c, d \in Calls, s \in Selectors : Holds(c, s) /\ Holds(d, s) => c = d

\* What a rotation has written, and the locks that keep it true.
RotationOK(c) ==
  /\ stmt[c] = None =>
       \A s \in Selectors : Holds(c, s) =>
         \/ New(c) /\ s = nxt[c]
         \/ Retry(c) /\ s = rec[c].replacedBySelector
         \/ Marked(c) /\ s = arg[c].selector
  /\ New(c) =>
       /\ nxt[c] \in minted \ granted
       /\ Holds(c, nxt[c])
       /\ ~ Present(nxt[c])
       /\ writes[c][nxt[c]] \in TokenRecord
       /\ writes[c][nxt[c]].status = IF pc[c] = "commit" /\ ~ Marked(c) THEN "revoked" ELSE "active"
       /\ writes[c][nxt[c]].familyId = rec[c].familyId
       /\ writes[c][nxt[c]].generation = rec[c].generation + 1
       /\ writes[c][nxt[c]].familyExpiresAt = rec[c].familyExpiresAt
       /\ writes[c][nxt[c]].replacedBySelector = None
  /\ Retry(c) =>
       /\ Holds(c, rec[c].replacedBySelector)
       /\ IsActive(rec[c].replacedBySelector)
       /\ writes[c][rec[c].replacedBySelector] = Revoked(rows[rec[c].replacedBySelector])
  /\ Marked(c) =>
       /\ New(c)
       /\ Holds(c, arg[c].selector)
       /\ rows[arg[c].selector].status = rec[c].status
       /\ writes[c][arg[c].selector] =
            [rows[arg[c].selector] EXCEPT !.status = "rotated",
                                          !.rotatedAt = RotatedAt(rec[c], at[c]),
                                          !.replacedBySelector = nxt[c]]
  /\ New(c) /\ ~ Marked(c) /\ pc[c] # "markRotated" =>
       rows[arg[c].selector].status # rec[c].status

\* The rows a statement has come to or will come to.
Reach(c) == stmt[c].todo \cup {s \in Selectors : Holds(c, s)}

StatementOK(c) ==
  stmt[c] # None =>
    /\ stmt[c].todo \cup stmt[c].settles \subseteq minted
    /\ \A s \in stmt[c].todo \cup stmt[c].settles : ~ Pending(s)
    /\ \A s \in Selectors : Holds(c, s) =>
         /\ Present(s)
         /\ writes[c][s] = Effect(rows[s], stmt[c].by)
    /\ stmt[c].by.op # "deleteExpired" =>
         /\ Reach(c) \subseteq stmt[c].settles
         /\ \A s \in stmt[c].settles :
              /\ s \in Reach(c) \/ Gone(s)
              /\ Present(s) => Covers(rows[s], stmt[c].by) /\ rows[s].familyId \in stmt[c].doomed
    /\ stmt[c].by.op = "deleteExpired" =>
         /\ stmt[c].settles = {}
         /\ \A s \in stmt[c].todo : Present(s) => Hit(rows[s], stmt[c].by)
         /\ \A s \in Selectors :
              rows[s].status = "rotated" /\ rows[s].replacedBySelector \in Reach(c) => s \in Reach(c)

CallOK(c) == CallType(c) /\ KnownOK(c) /\ RotationOK(c) /\ StatementOK(c)

-----------------------------------------------------------------------------
(* Families, and finished revocations.                                      *)

Unused(f) ==
  /\ \A s \in Selectors : Present(s) => rows[s].familyId # f
  /\ \A c \in Calls : rec[c] # NoRow => rec[c].familyId # f

FamiliesOK ==
  /\ \A f \in Families : charter[f] = None => Unused(f)
  /\ \A c \in Calls : pc[c] = "issue" => charter[arg[c].familyId] # None
                                         /\ Unused(arg[c].familyId)
  /\ \A c, d \in Calls : pc[c] = "issue" /\ pc[d] = "issue"
                         /\ arg[c].familyId = arg[d].familyId => c = d

SettledOK == CommittedRevoked /\ \A s \in settled : ~ Pending(s)

SqlInv ==
  /\ SqlType
  /\ TableOK
  /\ LocksOK
  /\ \A c \in Calls : CallOK(c)
  /\ FamiliesOK
  /\ SettledOK

LEMMA SqlStart == SqlInit => SqlInv
<1> SUFFICES ASSUME SqlInit PROVE SqlInv
  OBVIOUS
<1> USE DEF SqlInit, Init, Present, NoRow, Holds, NoWrites, Untouched
<1>1. SqlType
  BY DEF SqlType, Steps
<1>2. TableOK
  BY DEF TableOK, NoFork, LinearLineage, Heads, Lineage, SuccessorIntact
<1>3. \A c \in Calls : CallOK(c)
  BY DEF CallOK, CallType, KnownOK, RotationOK, StatementOK, New, Retry, Marked, Inside
<1>4. LocksOK /\ FamiliesOK /\ SettledOK
  BY DEF LocksOK, FamiliesOK, Unused, SettledOK, CommittedRevoked
<1> QED BY <1>1, <1>2, <1>3, <1>4 DEF SqlInv

-----------------------------------------------------------------------------
(* What the steps of one call leave true for the others.                    *)

\* A committed row, from one state to the next.
Forward(s) ==
  /\ Present(s)' => /\ Present(s)
                    /\ rows'[s].familyId = rows[s].familyId
                    /\ rows'[s].userId = rows[s].userId
                    /\ rows'[s].generation = rows[s].generation
                    /\ rows'[s].familyExpiresAt = rows[s].familyExpiresAt
                    /\ \/ rows'[s].replacedBySelector = rows[s].replacedBySelector
                       \/ Pending(rows'[s].replacedBySelector)
  /\ Gone(s) => Gone(s)'
  /\ rows[s].status = "rotated" => rows'[s].status # "active"
  /\ rows'[s].status = "rotated" =>
       rows[s].status = "rotated" \/ Pending(rows'[s].replacedBySelector)

Steady ==
  /\ minted \subseteq minted' /\ granted \subseteq granted'
  /\ \A s \in minted : Pending(s)' => Pending(s)
  /\ \A s \in minted : Pending(s) \/ Forward(s)
  /\ \A s \in Selectors : Present(s)' =>
       \/ s \in minted /\ ~ Pending(s)
       \/ rows'[s].replacedBySelector = None /\ rows'[s].status # "rotated"

\* Call d does nothing, and nobody touches what it has locked.
Stays(d) ==
  /\ pc'[d] = pc[d] /\ arg'[d] = arg[d] /\ rec'[d] = rec[d] /\ at'[d] = at[d]
  /\ nxt'[d] = nxt[d] /\ verdict'[d] = verdict[d]
  /\ writes'[d] = writes[d] /\ stmt'[d] = stmt[d]

LocksKept(d) ==
  \A s \in Selectors : Holds(d, s) => rows'[s] = rows[s] /\ (s \in granted' => s \in granted)

\* A selector that was handed out is in nobody's open transaction.
LEMMA GrantedKnown ==
  ASSUME SqlInv, NEW s \in granted
  PROVE  s \in Selectors /\ s \in minted /\ ~ Pending(s)
  BY DEF SqlInv, SqlType, Pending, CallOK, RotationOK

\* Nor is a row of the committed table.
LEMMA PresentKnown ==
  ASSUME SqlInv, NEW s \in Selectors, Present(s)
  PROVE  s \in minted /\ ~ Pending(s)
<1>1. \A c \in Calls : New(c) => ~ Present(nxt[c])
  BY DEF SqlInv, CallOK, RotationOK
<1> QED BY <1>1 DEF Pending, SqlInv, TableOK

\* A row somebody may point at.
LEMMA HeirKept ==
  ASSUME SqlInv, Steady, NEW t \in granted, NEW r, Heir(t, r)
  PROVE  Heir(t, r)'
<1>1. Forward(t)
  BY GrantedKnown DEF Steady
<1> QED BY <1>1 DEF Forward, Heir

LEMMA LinkedKept ==
  ASSUME SqlInv, Steady, NEW r, Linked(r)
  PROVE  Linked(r)'
  BY HeirKept DEF Linked, Steady

\* What a call knows stays true, whatever the others do.
LEMMA KnownKept ==
  ASSUME SqlInv, Steady, NEW d \in Calls, arg'[d] = arg[d], rec'[d] = rec[d],
         pc'[d] \in {"idle", "issue", "find"} => rec[d] = NoRow
  PROVE  KnownOK(d)'
<1>1. KnownOK(d)
  BY DEF SqlInv, CallOK
<1>2. CASE rec[d] = NoRow
  BY <1>2 DEF KnownOK
<1>3. CASE rec[d] # NoRow
  <2> DEFINE p == arg[d].selector
             q == rec[d].replacedBySelector
  <2>1. p \in minted /\ ~ Pending(p) /\ Forward(p) /\ ~ Pending(p)'
    BY <1>1, <1>3 DEF KnownOK, Steady
  <2>2. Linked(rec[d])'
    <3>1. PICK r : r = rec[d]
      OBVIOUS
    <3>2. Linked(r)'
      BY <1>1, <1>3, <3>1, LinkedKept DEF KnownOK
    <3> QED BY <3>1, <3>2 DEF Linked, Heir, Present
  <2>3. q # None => ~ Pending(q)
    BY <1>1, <1>3, GrantedKnown DEF KnownOK, Linked
  <2>4. ASSUME NEW s \in Selectors, Present(s)', q # None, rows'[s].replacedBySelector = q
        PROVE  s = p
    <3>1. Forward(s)
      BY <2>4 DEF Steady
    <3> QED BY <1>1, <1>3, <2>3, <2>4, <3>1 DEF Forward, KnownOK
  <2>5. rec[d].status = "rotated" => ~ IsActive(p)'
    <3>1. ~ IsActive(p) => ~ IsActive(p)'
      <4>1. rows[p] \in TokenRecord \cup {NoRow}
        BY <2>1 DEF SqlInv, SqlType
      <4>2. rows[p].status \in {"active", "rotated"} \/ Gone(p)
        BY <4>1, RecordStatus DEF Gone, TokenStatus
      <4> QED BY <2>1, <4>2 DEF Forward, IsActive, Gone
    <3> QED BY <1>1, <1>3, <3>1 DEF KnownOK
  <2>6. p \in minted' /\ ~ Pending(p)'
    BY <2>1 DEF Steady
  <2>7. Present(p)' => /\ rows'[p].familyId = rec[d].familyId
                       /\ rows'[p].generation = rec[d].generation
                       /\ rows'[p].familyExpiresAt = rec[d].familyExpiresAt
    BY <1>1, <1>3, <2>1 DEF Forward, KnownOK
  <2> QED BY <2>2, <2>4, <2>5, <2>6, <2>7 DEF KnownOK
<1> QED BY <1>2, <1>3

\* The predicates of a call that does nothing read the same.
LEMMA StaysSame ==
  ASSUME NEW d \in Calls, Stays(d)
  PROVE  /\ New(d)' = New(d) /\ Retry(d)' = Retry(d) /\ Marked(d)' = Marked(d)
         /\ Reach(d)' = Reach(d)
         /\ \A s : Holds(d, s)' = Holds(d, s)
  BY DEF Stays, New, Retry, Marked, Holds, Reach

\* A status that a rotation's compare-and-set has missed does not come back.
LEMMA MissedKept ==
  ASSUME SqlInv, NEW p \in Selectors, Forward(p), NEW st \in {"active", "rotated"},
         st = "rotated" => ~ IsActive(p), rows[p].status # st
  PROVE  rows'[p].status # st
<1>1. rows[p] \in TokenRecord \cup {NoRow}
  BY DEF SqlInv, SqlType
<1>2. rows[p].status \in {"active", "rotated"} \/ Gone(p)
  BY <1>1, RecordStatus DEF Gone, TokenStatus
<1> QED BY <1>2 DEF Forward, IsActive, Gone

LEMMA StaysRotation ==
  ASSUME SqlInv, Steady, NEW d \in Calls, Stays(d), LocksKept(d)
  PROVE  RotationOK(d)'
<1>1. RotationOK(d) /\ CallType(d) /\ KnownOK(d)
  BY DEF SqlInv, CallOK
<1>2. /\ New(d)' = New(d) /\ Retry(d)' = Retry(d) /\ Marked(d)' = Marked(d)
      /\ \A s : Holds(d, s)' = Holds(d, s)
  BY StaysSame
<1>3. New(d) => nxt[d] \in minted' \ granted' /\ rows'[nxt[d]] = rows[nxt[d]]
  BY <1>1 DEF RotationOK, LocksKept, Steady, SqlInv, SqlType
<1>4. ASSUME Retry(d) PROVE LET n == rec[d].replacedBySelector IN rows'[n] = rows[n]
  <2>1. rec[d] \in TokenRecord /\ rec[d].status = "rotated" /\ rec[d] # NoRow
    BY <1>1, <1>4, RecordStatus DEF Retry, New, CallType, Inside
  <2>2. rec[d].replacedBySelector \in Selectors
    BY <1>1, <2>1 DEF KnownOK, Linked, TokenRecord
  <2> QED BY <1>1, <1>4, <2>2 DEF RotationOK, LocksKept
<1>5. ASSUME Marked(d) PROVE rows'[arg[d].selector] = rows[arg[d].selector]
  <2>1. arg[d].selector \in Selectors
    BY <1>1, <1>5 DEF Marked, CallType, Inside, RefreshArg
  <2> QED BY <1>1, <1>5, <2>1 DEF RotationOK, LocksKept
<1>6. ASSUME New(d), ~ Marked(d), pc[d] # "markRotated"
      PROVE  rows'[arg[d].selector].status # rec[d].status
  <2>1. rec[d] # NoRow /\ rec[d].status \in {"active", "rotated"}
    BY <1>1, <1>6, RecordStatus DEF New, CallType, Inside
  <2>2. arg[d].selector \in Selectors /\ Forward(arg[d].selector)
    BY <1>1, <2>1 DEF KnownOK, Steady, SqlInv, SqlType
  <2> QED BY <1>1, <1>6, <2>1, <2>2, MissedKept DEF RotationOK, KnownOK
<1> QED BY <1>1, <1>2, <1>3, <1>4, <1>5, <1>6 DEF RotationOK, Stays, Present, IsActive

LEMMA StaysStatement ==
  ASSUME SqlInv, Steady, NEW d \in Calls, Stays(d), LocksKept(d)
  PROVE  StatementOK(d)'
<1> SUFFICES ASSUME stmt[d] # None PROVE StatementOK(d)'
  BY DEF StatementOK, Stays
<1>1. StatementOK(d) /\ stmt[d] \in Statement
  BY DEF SqlInv, CallOK, SqlType
<1>2. PICK w \in Statement : w = stmt[d]
  BY <1>1
<1>3. stmt'[d] = w
  BY <1>2 DEF Stays
<1>4. Reach(d)' = Reach(d) /\ \A s : Holds(d, s)' = Holds(d, s)
  BY StaysSame
<1>5. \A s \in w.todo \cup w.settles : s \in minted /\ s \in minted' /\ Forward(s) /\ ~ Pending(s)'
  BY <1>1, <1>2 DEF StatementOK, Steady
<1>6. \A s \in Selectors : Holds(d, s) => Present(s)' /\ writes'[d][s] = Effect(rows'[s], w.by)
  BY <1>1, <1>2 DEF StatementOK, LocksKept, Stays, Present
<1>7. ASSUME w.by.op # "deleteExpired", NEW s \in w.settles
      PROVE  /\ s \in Reach(d) \/ Gone(s)'
             /\ Present(s)' => Covers(rows'[s], w.by) /\ rows'[s].familyId \in w.doomed
  <2>1. Present(s)' => rows'[s] # NoRow
    BY DEF Present, NoRow
  <2> QED BY <1>1, <1>2, <1>5, <1>7, <2>1 DEF StatementOK, Forward, Covers
<1>8. ASSUME w.by.op = "deleteExpired", NEW s \in w.todo, Present(s)'
      PROVE  Hit(rows'[s], w.by)
  <2>1. Present(s)' => rows'[s] # NoRow
    BY DEF Present, NoRow
  <2> QED BY <1>1, <1>2, <1>5, <1>8, <2>1 DEF StatementOK, Forward, Hit, Covers
<1>9. ASSUME w.by.op = "deleteExpired", NEW s \in Selectors,
             rows'[s].status = "rotated", rows'[s].replacedBySelector \in Reach(d)
      PROVE  s \in Reach(d)
  <2>1. Present(s)'
    BY <1>9 DEF Present
  <2>2. s \in minted /\ ~ Pending(s) /\ Forward(s)
    BY <1>9, <2>1 DEF Steady
  <2>3. ~ Pending(rows'[s].replacedBySelector)
    <3>1. ASSUME NEW u \in Reach(d) PROVE ~ Pending(u)
      <4>1. CASE u \in stmt[d].todo
        BY <1>1, <4>1 DEF StatementOK
      <4>2. CASE u \in Selectors /\ Holds(d, u)
        <5>1. ASSUME NEW c \in Calls, New(c), nxt[c] = u PROVE FALSE
          <6>1. Holds(c, u) /\ ~ Present(u)
            BY <5>1 DEF SqlInv, CallOK, RotationOK
          <6> QED BY <1>1, <4>2, <6>1 DEF StatementOK
        <5> QED BY <5>1 DEF Pending
      <4> QED BY <4>1, <4>2 DEF Reach
    <3> QED BY <1>9, <3>1
  <2>4. rows[s].status = "rotated" /\ rows[s].replacedBySelector = rows'[s].replacedBySelector
    BY <1>9, <2>1, <2>2, <2>3 DEF Forward
  <2> QED BY <1>1, <1>2, <1>9, <2>4 DEF StatementOK
<1>10. /\ w.by.op # "deleteExpired" => Reach(d) \subseteq w.settles
       /\ w.by.op = "deleteExpired" => w.settles = {}
  BY <1>1, <1>2 DEF StatementOK
<1> QED BY <1>3, <1>4, <1>5, <1>6, <1>7, <1>8, <1>9, <1>10 DEF StatementOK

LEMMA StaysCall ==
  ASSUME SqlInv, Steady, NEW d \in Calls, Stays(d), LocksKept(d)
  PROVE  CallOK(d)'
<1>1. CallType(d)'
  BY DEF SqlInv, CallOK, CallType, Stays
<1>2. KnownOK(d)'
  BY KnownKept DEF SqlInv, CallOK, KnownOK, Stays
<1> QED BY <1>1, <1>2, StaysRotation, StaysStatement DEF CallOK


-----------------------------------------------------------------------------
(* Steps of one call that commit nothing.                                   *)

LEMMA FamiliesKept ==
  ASSUME SqlInv, charter' = charter, NEW c \in Calls, \A d \in Calls \ {c} : Stays(d),
         pc'[c] # "issue" \/ (pc'[c] = pc[c] /\ arg'[c] = arg[c]),
         rec'[c] \in {rec[c], NoRow} \/ \E s \in Selectors : rec'[c] = rows[s],
         \A s \in Selectors : Present(s)' =>
           \/ \E t \in Selectors : Present(t) /\ rows[t].familyId = rows'[s].familyId
           \/ \E d \in Calls : rec[d] # NoRow /\ rec[d].familyId = rows'[s].familyId
  PROVE  FamiliesOK'
<1>1. ASSUME NEW f, Unused(f) PROVE Unused(f)'
  <2>1. \A s \in Selectors : Present(s)' => rows'[s].familyId # f
    BY <1>1 DEF Unused
  <2>2. \A d \in Calls : rec'[d] # NoRow => rec'[d].familyId # f
    <3>1. \A s \in Selectors : rows[s] # NoRow => Present(s)
      BY RecordStatus DEF Present, SqlInv, SqlType
    <3> QED BY <1>1, <3>1 DEF Unused, Stays
  <2> QED BY <2>1, <2>2 DEF Unused
<1>2. \A d \in Calls : pc'[d] = "issue" => pc[d] = "issue" /\ arg'[d] = arg[d]
  BY DEF Stays
<1> QED BY <1>1, <1>2 DEF SqlInv, FamiliesOK

\* Nothing is committed and nothing granted.
LEMMA TableKept ==
  ASSUME SqlInv, UNCHANGED <<rows, granted, dead, settled>>, minted \subseteq minted',
         \A s \in minted : Pending(s)' => Pending(s)
  PROVE  Steady /\ TableOK' /\ SettledOK'
<1>1. Steady
  <2>1. \A s \in Selectors : Present(s) => s \in minted /\ ~ Pending(s)
    BY PresentKnown
  <2>2. \A s \in Selectors : Forward(s)
    BY DEF Forward, Present, Gone
  <2> QED BY <2>1, <2>2 DEF Steady, Present, SqlInv, SqlType
<1>2. TableOK'
  <2>1. NoFork' /\ LinearLineage' /\ SuccessorIntact'
    BY DEF SqlInv, TableOK, NoFork, LinearLineage, SuccessorIntact, Heads, Lineage, IsActive
  <2>2. \A s \in Selectors : Linked(rows[s])' = Linked(rows[s]) /\ Present(s)' = Present(s)
    BY DEF Linked, Heir, Present
  <2> QED BY <2>1, <2>2 DEF SqlInv, TableOK
<1>3. SettledOK'
  BY DEF SqlInv, SettledOK, CommittedRevoked, SqlType
<1> QED BY <1>1, <1>2, <1>3

LEMMA LocalStep ==
  ASSUME SqlInv, SqlType', FamiliesOK', UNCHANGED <<rows, granted, dead, settled>>,
         minted \subseteq minted', NEW c \in Calls, \A d \in Calls \ {c} : Stays(d),
         New(c)' => (New(c) /\ nxt'[c] = nxt[c]) \/ nxt'[c] \notin minted,
         \A s \in Selectors : Holds(c, s)' => Holds(c, s) \/ ~ Locked(c, s),
         Steady => CallOK(c)'
  PROVE  SqlInv'
<1>1. \A d \in Calls \ {c} : New(d)' = New(d) /\ nxt'[d] = nxt[d] /\ \A s : Holds(d, s)' = Holds(d, s)
  BY StaysSame DEF Stays
<1>2. \A s \in minted : Pending(s)' => Pending(s)
  BY <1>1 DEF Pending
<1>3. Steady /\ TableOK' /\ SettledOK'
  BY <1>2, TableKept
<1>4. \A d \in Calls : CallOK(d)'
  BY <1>3, StaysCall DEF LocksKept
<1>5. LocksOK'
  BY <1>1 DEF SqlInv, LocksOK, Locked
<1> QED BY <1>3, <1>4, <1>5 DEF SqlInv

\* Time passes, or nothing at all happens.
LEMMA IdleStep ==
  ASSUME SqlInv, clock' \in Nat,
         UNCHANGED <<rows, callVars, historyVars, writes, stmt, settled>>
  PROVE  SqlInv'
<1>1. \A d \in Calls : Stays(d)
  BY DEF Stays, callVars
<1>2. Steady /\ TableOK' /\ SettledOK'
  BY TableKept DEF historyVars, callVars, Pending, New, Holds
<1>3. \A d \in Calls : CallOK(d)'
  BY <1>1, <1>2, StaysCall DEF LocksKept, historyVars
<1>4. SqlType' /\ LocksOK' /\ FamiliesOK'
  BY DEF SqlInv, SqlType, LocksOK, Holds, FamiliesOK, Unused, Present, callVars, historyVars
<1> QED BY <1>2, <1>3, <1>4 DEF SqlInv

\* A call that ends, its transaction with it, has nothing more to keep.
LEMMA EndedCall ==
  ASSUME SqlType', NEW c \in Calls, pc'[c] = "idle", rec'[c] = NoRow, stmt'[c] = None,
         \A s \in Selectors : ~ Holds(c, s)'
  PROVE  CallOK(c)' /\ ~ New(c)'
<1>1. ~ New(c)' /\ ~ Marked(c)'
  BY DEF New, Marked
<1>2. ~ Retry(c)'
  BY RecordStatus, <1>1 DEF Retry
<1> QED BY <1>1, <1>2 DEF CallOK, CallType, KnownOK, RotationOK, StatementOK, Inside

\* A call outside a rotation and without a statement: its locals are all.
LEMMA ReadingCall ==
  ASSUME NEW c \in Calls, CallType(c)', KnownOK(c)', stmt'[c] = None, pc'[c] # "commit",
         pc'[c] \notin {"markRotated", "compensate"},
         pc'[c] = "insert" => rec'[c].status = "active",
         \A s \in Selectors : ~ Holds(c, s)'
  PROVE  CallOK(c)' /\ ~ New(c)'
<1>1. ~ New(c)' /\ ~ Marked(c)' /\ ~ Retry(c)'
  BY DEF New, Marked, Retry
<1> QED BY <1>1 DEF CallOK, RotationOK, StatementOK


-----------------------------------------------------------------------------
(* Steps that only read.                                                    *)

Outside == {"idle", "issue", "find", "check", "findSuccessor", "consume", "revokeFamily"}

\* Outside a rotation and without a statement a call has written nothing.
LEMMA NoLocks ==
  ASSUME SqlInv, NEW c \in Calls, stmt[c] = None, pc[c] \in Outside
  PROVE  ~ New(c) /\ \A s \in Selectors : ~ Holds(c, s)
<1>1. ~ New(c) /\ ~ Retry(c) /\ ~ Marked(c)
  BY DEF Outside, New, Retry, Marked
<1> QED BY <1>1 DEF SqlInv, CallOK, RotationOK

LEMMA ReadStep ==
  ASSUME SqlInv, SqlType', NEW c \in Calls, stmt[c] = None, pc[c] \in Outside,
         UNCHANGED <<rows, minted, granted, charter, dead, writes, stmt, settled>>,
         \A d \in Calls \ {c} : Stays(d),
         \/ pc'[c] \in Outside \ {"issue"}
         \/ pc'[c] = "insert" /\ rec'[c].status = "active",
         CallType(c)',
         \/ rec'[c] = NoRow
         \/ rec'[c] = rec[c] /\ arg'[c] = arg[c] /\ pc'[c] \notin {"idle", "issue", "find"}
         \/ rec'[c] = rows[arg[c].selector] /\ arg'[c] = arg[c] /\ arg[c].selector \in Selectors
            /\ pc'[c] \notin {"idle", "issue", "find"}
  PROVE  SqlInv'
<1>1. (\A s \in Selectors : ~ Holds(c, s)') /\ ~ New(c)
  BY NoLocks DEF Holds
<1>2. FamiliesOK'
  <2>1. pc'[c] # "issue"
    BY DEF Outside
  <2>2. rec'[c] \in {rec[c], NoRow} \/ \E s \in Selectors : rec'[c] = rows[s]
    OBVIOUS
  <2> QED BY <2>1, <2>2, FamiliesKept DEF Present
<1>3. ASSUME Steady PROVE KnownOK(c)'
  <2>1. CASE rec'[c] = NoRow
    BY <2>1 DEF KnownOK
  <2>2. CASE rec'[c] = rec[c] /\ arg'[c] = arg[c] /\ pc'[c] \notin {"idle", "issue", "find"}
    BY <1>3, <2>2, KnownKept
  <2>3. CASE /\ rec'[c] = rows[arg[c].selector] /\ arg'[c] = arg[c] /\ arg[c].selector \in Selectors
             /\ pc'[c] \notin {"idle", "issue", "find"} /\ rec'[c] # NoRow
    <3>1. PICK p \in Selectors : p = arg[c].selector
      BY <2>3
    <3>2. Present(p) /\ p \in minted /\ Linked(rows[p])
      BY <2>3, <3>1, RecordStatus DEF Present, SqlInv, SqlType, TableOK
    <3>3. ~ Pending(p)'
      BY <1>3, <3>2, PresentKnown DEF Steady
    <3>4. Linked(rec[c])'
      BY <2>3, <3>1, <3>2 DEF Linked, Heir, Present
    <3>5. \A s \in Selectors : Present(s) /\ rows[p].replacedBySelector # None
             /\ rows[s].replacedBySelector = rows[p].replacedBySelector => s = p
      BY <3>2 DEF SqlInv, TableOK
    <3> QED BY <2>3, <3>1, <3>2, <3>3, <3>4, <3>5 DEF KnownOK, Present, IsActive
  <2> QED BY <2>1, <2>2, <2>3
<1>4. Steady => CallOK(c)'
  BY <1>1, <1>3, ReadingCall DEF Outside
<1>5. ~ New(c)'
  BY <1>1 DEF New, Outside
<1> QED BY <1>1, <1>2, <1>4, <1>5, LocalStep


\* A call that ends without COMMIT or ROLLBACK having anything to do.
LEMMA ReturnCall ==
  ASSUME SqlInv, NEW c \in Calls, NEW code \in Codes, Return(c, code),
         UNCHANGED <<writes, stmt>>
  PROVE  /\ pc'[c] = "idle" /\ rec'[c] = NoRow /\ CallType(c)'
         /\ \A d \in Calls \ {c} : Stays(d)
         /\ pc' \in [Calls -> Steps \cup {"commit"}]
         /\ arg' \in [Calls -> IssueArg \cup PresentArg \cup {None}]
         /\ rec' \in [Calls -> TokenRecord \cup {NoRow}]
         /\ at' \in [Calls -> Nat]
         /\ nxt' \in [Calls -> Selectors \cup {None}]
         /\ verdict' \in [Calls -> Codes \cup {None}]
<1>1. pc'[c] = "idle" /\ rec'[c] = NoRow
  BY DEF Return, SqlInv, SqlType
<1>2. CallType(c)'
  BY <1>1 DEF CallType, Inside
<1> QED BY <1>1, <1>2 DEF Return, SqlInv, SqlType, Stays, Steps

LEMMA ReturnStep ==
  ASSUME SqlInv, NEW c \in Calls, NEW code \in Codes, Return(c, code), stmt[c] = None,
         pc[c] \in Outside, UNCHANGED <<storeVars, historyVars, writes, stmt, settled>>
  PROVE  SqlInv'
<1>1. SqlType'
  BY ReturnCall DEF SqlInv, SqlType, storeVars, historyVars
<1> QED BY <1>1, ReturnCall, ReadStep DEF Outside, storeVars, historyVars

LEMMA ReadingSteps ==
  ASSUME SqlInv, NEW c \in Calls, stmt[c] = None, UNCHANGED <<writes, stmt, settled>>,
         \/ \E a \in PresentArg, kid \in Kids : BeginPresent(c, a, kid)
         \/ Find(c) \/ RefuseUnproved(c) \/ CheckRevokeToken(c)
         \/ CheckRotated(c) \/ CheckRevoked(c) \/ CheckActive(c) \/ FindSuccessor(c)
  PROVE  SqlInv'
<1>0. SqlType /\ CallType(c) /\ KnownOK(c)
  BY DEF SqlInv, CallOK
<1>1. ASSUME NEW a \in PresentArg, NEW kid \in Kids, BeginPresent(c, a, kid) PROVE SqlInv'
  <2>1. CASE Begin(c, a, "find", 0) /\ UNCHANGED charter
    <3>1. /\ pc[c] = "idle" /\ rec[c] = NoRow /\ pc'[c] = "find" /\ arg'[c] = a /\ rec' = rec
          /\ UNCHANGED <<storeVars, nxt, verdict, minted, granted, dead, aborts, charter>>
          /\ \A d \in Calls \ {c} : Stays(d)
      BY <1>0, <2>1 DEF Begin, GoTo, SqlType, KnownOK, Stays
    <3>2. SqlType'
      BY <1>0, <2>1, <3>1 DEF SqlType, Begin, GoTo, Steps, storeVars
    <3>3. CallType(c)'
      BY <3>1 DEF CallType, Inside
    <3> QED BY <3>1, <3>2, <3>3, ReadStep DEF Outside, storeVars
  <2>2. CASE pc[c] = "idle" /\ Return(c, "UNKNOWN_KID") /\ UNCHANGED <<storeVars, historyVars>>
    BY <2>2, ReturnStep DEF Codes, Outside
  <2> QED BY <1>1, <2>1, <2>2 DEF BeginPresent
<1>2. CASE Find(c)
  <2>1. /\ pc[c] = "find" /\ pc'[c] = "check" /\ arg' = arg /\ rec'[c] = rows[arg[c].selector]
        /\ UNCHANGED <<storeVars, historyVars>>
        /\ \A d \in Calls \ {c} : Stays(d)
    BY <1>0, <1>2 DEF Find, GoTo, SqlType, Stays
  <2>2. arg[c] \in PresentArg /\ arg[c].selector \in Selectors
    BY <1>0, <2>1 DEF CallType, PresentArg, RefreshArg, RevokeArg
  <2>3. SqlType'
    BY <1>0, <1>2, <2>2 DEF SqlType, Find, GoTo, Steps, storeVars, historyVars
  <2>4. CallType(c)'
    BY <2>1, <2>2 DEF CallType, Inside
  <2> QED BY <2>1, <2>2, <2>3, <2>4, ReadStep DEF Outside, storeVars, historyVars
<1>3. CASE RefuseUnproved(c)
  <2>1. PICK code \in Codes : Return(c, code) /\ pc[c] = "check" /\ UNCHANGED <<storeVars, historyVars>>
    BY <1>3 DEF RefuseUnproved, Codes
  <2> QED BY <2>1, ReturnStep DEF Outside
<1>4. CASE CheckRevoked(c)
  BY <1>4, ReturnStep DEF CheckRevoked, Refreshing, Codes, Outside
<1>5. ASSUME pc[c] \in {"check", "findSuccessor"}, rec[c] \in TokenRecord,
             NEW step \in {"insert", "findSuccessor", "consume", "revokeFamily"},
             pc' = [pc EXCEPT ![c] = step], UNCHANGED <<arg, rec, storeVars, historyVars>>,
             at' \in [Calls -> Nat], \A d \in Calls \ {c} : at'[d] = at[d],
             \A d \in Calls \ {c} : verdict'[d] = verdict[d] /\ nxt'[d] = nxt[d],
             verdict' \in [Calls -> Codes \cup {None}], nxt' \in [Calls -> Selectors \cup {None}],
             step # "revokeFamily" => arg[c] \in RefreshArg,
             step = "insert" => rec[c].status = "active",
             step \in {"findSuccessor", "consume"} => rec[c].status = "rotated",
             step = "consume" => nxt'[c] = rec[c].replacedBySelector
      PROVE  SqlInv'
  <2>1. pc'[c] = step /\ \A d \in Calls \ {c} : Stays(d)
    BY <1>0, <1>5 DEF SqlType, Stays
  <2>2. SqlType'
    BY <1>0, <1>5 DEF SqlType, Steps, storeVars, historyVars
  <2>3. CallType(c)'
    BY <1>5, <2>1 DEF CallType, Inside
  <2> QED BY <1>5, <2>1, <2>2, <2>3, ReadStep DEF Outside, storeVars, historyVars
<1>6. ASSUME pc[c] = "check", VerifierProved(rec[c], arg[c])
      PROVE  rec[c] \in TokenRecord /\ (arg[c].op = "refresh" => arg[c] \in RefreshArg)
  BY <1>0, <1>6 DEF CallType, VerifierProved, SqlType, PresentArg, RevokeArg
<1>7. CASE CheckRevokeToken(c)
  BY <1>0, <1>5, <1>6, <1>7 DEF CheckRevokeToken, RevokeThenReturn, GoTo, SqlType, Codes
<1>8. CASE CheckRotated(c)
  <2>1. /\ pc[c] = "check" /\ rec[c] \in TokenRecord /\ arg[c] \in RefreshArg
        /\ rec[c].status = "rotated"
    BY <1>6, <1>8 DEF CheckRotated, Refreshing
  <2>2. PICK step \in {"findSuccessor", "revokeFamily"} : pc' = [pc EXCEPT ![c] = step]
    BY <1>8 DEF CheckRotated, RevokeThenReturn, GoTo
  <2>3. /\ verdict' \in [Calls -> Codes \cup {None}]
        /\ \A d \in Calls \ {c} : verdict'[d] = verdict[d] /\ at'[d] = at[d]
        /\ at' \in [Calls -> Nat] /\ UNCHANGED <<storeVars, arg, rec, nxt, historyVars>>
    BY <1>0, <1>8 DEF CheckRotated, RevokeThenReturn, SqlType, Codes
  <2> QED BY <1>0, <1>5, <2>1, <2>2, <2>3 DEF SqlType
<1>9. CASE CheckActive(c)
  <2>1. /\ pc[c] = "check" /\ rec[c] \in TokenRecord /\ arg[c] \in RefreshArg
        /\ rec[c].status = "active"
    BY <1>6, <1>9 DEF CheckActive, Refreshing
  <2>2. PICK step \in {"insert", "revokeFamily"} : pc' = [pc EXCEPT ![c] = step]
    BY <1>9 DEF CheckActive, RevokeThenReturn, GoTo
  <2>3. /\ verdict' \in [Calls -> Codes \cup {None}]
        /\ \A d \in Calls \ {c} : verdict'[d] = verdict[d] /\ at'[d] = at[d]
        /\ at' \in [Calls -> Nat] /\ UNCHANGED <<storeVars, arg, rec, nxt, historyVars>>
    BY <1>0, <1>9 DEF CheckActive, RevokeThenReturn, SqlType, Codes
  <2> QED BY <1>0, <1>5, <2>1, <2>2, <2>3 DEF SqlType
<1>10. CASE FindSuccessor(c)
  <2>1. /\ pc[c] = "findSuccessor" /\ rec[c] \in TokenRecord /\ arg[c] \in RefreshArg
        /\ rec[c].status = "rotated"
    BY <1>0, <1>10 DEF FindSuccessor, CallType
  <2>2. rec[c].replacedBySelector \in Selectors
    BY <1>0, <2>1, RecordStatus DEF KnownOK, Linked, TokenRecord
  <2>3. PICK step \in {"consume", "revokeFamily"} :
          /\ pc' = [pc EXCEPT ![c] = step]
          /\ step = "consume" => nxt' = [nxt EXCEPT ![c] = rec[c].replacedBySelector]
          /\ step = "revokeFamily" => nxt' = nxt
    BY <1>10 DEF FindSuccessor, RevokeThenReturn, GoTo
  <2>4. nxt' \in [Calls -> Selectors \cup {None}] /\ \A d \in Calls \ {c} : nxt'[d] = nxt[d]
    BY <1>0, <2>2, <2>3 DEF SqlType
  <2>5. step = "consume" => nxt'[c] = rec[c].replacedBySelector
    BY <1>0, <2>3 DEF SqlType
  <2>6. /\ verdict' \in [Calls -> Codes \cup {None}]
        /\ \A d \in Calls \ {c} : verdict'[d] = verdict[d]
        /\ UNCHANGED <<storeVars, arg, rec, at, historyVars>>
    BY <1>0, <1>10 DEF FindSuccessor, RevokeThenReturn, SqlType, Codes
  <2> QED BY <1>0, <1>5, <2>1, <2>3, <2>4, <2>5, <2>6 DEF SqlType
<1> QED BY <1>1, <1>2, <1>3, <1>4, <1>7, <1>8, <1>9, <1>10


-----------------------------------------------------------------------------
(* issue, outside any transaction.                                          *)

LEMMA SqlBeginIssue ==
  ASSUME SqlInv, NEW c \in Calls, NEW a \in IssueArg, BeginIssue(c, a), stmt[c] = None,
         UNCHANGED <<writes, stmt, settled>>
  PROVE  SqlInv'
<1>0. SqlType /\ KnownOK(c)
  BY DEF SqlInv, CallOK
<1>1. /\ pc[c] = "idle" /\ rec[c] = NoRow /\ pc'[c] = "issue" /\ arg'[c] = a /\ rec' = rec
      /\ charter[a.familyId] = None /\ a.familyId \in Families
      /\ UNCHANGED <<storeVars, nxt, verdict, minted, granted, dead, aborts>>
      /\ \A d \in Calls \ {c} : Stays(d)
  BY <1>0 DEF BeginIssue, Begin, GoTo, SqlType, KnownOK, Stays, IssueArg
<1>2. PICK login \in Login : charter' = [charter EXCEPT ![a.familyId] = login]
  <2>1. [userId |-> a.userId, deviceId |-> a.deviceId, expiresAt |-> clock + AbsoluteTtl] \in Login
    BY <1>0, ConfigAssumption DEF IssueArg, Login, SqlType
  <2> QED BY <2>1 DEF BeginIssue
<1>3. SqlType'
  BY <1>0, <1>1, <1>2 DEF SqlType, BeginIssue, Begin, GoTo, Steps, storeVars
<1>4. charter'[a.familyId] # None /\ \A f \in Families \ {a.familyId} : charter'[f] = charter[f]
  BY <1>0, <1>1, <1>2, DistinctAssumption DEF SqlType
<1>5. FamiliesOK'
  <2>1. \A f : Unused(f)' = Unused(f)
    BY <1>1 DEF Unused, Present, storeVars
  <2>2. \A d \in Calls \ {c} : pc'[d] = pc[d] /\ arg'[d] = arg[d]
    BY <1>1 DEF Stays
  <2>3. \A d \in Calls : pc[d] = "issue" => arg[d].familyId \in Families
    BY DEF SqlInv, CallOK, CallType, IssueArg
  <2> QED BY <1>1, <1>4, <2>1, <2>2, <2>3 DEF SqlInv, FamiliesOK
<1>6. CallOK(c)' /\ ~ New(c)'
  <2>1. CallType(c)' /\ KnownOK(c)'
    BY <1>1 DEF CallType, KnownOK, Inside
  <2>2. \A s \in Selectors : ~ Holds(c, s)'
    BY <1>1, NoLocks DEF Holds, Outside
  <2> QED BY <1>1, <2>1, <2>2, ReadingCall
<1>7. \A s \in Selectors : Holds(c, s)' => Holds(c, s)
  BY DEF Holds
<1> QED BY <1>1, <1>3, <1>5, <1>6, <1>7, LocalStep DEF storeVars

\* What an open transaction has written was drawn before.
LEMMA HeldKnown ==
  ASSUME SqlInv, NEW d \in Calls, NEW s \in Selectors, Holds(d, s)
  PROVE  s \in minted
<1>1. CallOK(d)
  BY DEF SqlInv
<1>2. CASE stmt[d] # None
  BY <1>1, <1>2, PresentKnown DEF CallOK, StatementOK
<1>3. CASE stmt[d] = None
  <2>1. CASE New(d) /\ s = nxt[d]
    BY <1>1, <2>1 DEF CallOK, RotationOK
  <2>2. CASE Retry(d) /\ s = rec[d].replacedBySelector
    BY <1>1, <2>2, PresentKnown DEF CallOK, RotationOK, IsActive, Present
  <2>3. CASE Marked(d) /\ s = arg[d].selector
    <3>1. rec[d] # NoRow
      BY <1>1, <2>3, RecordStatus DEF CallOK, CallType, Marked, Inside
    <3> QED BY <1>1, <2>3, <3>1 DEF CallOK, KnownOK
  <2> QED BY <1>1, <1>3, <2>1, <2>2, <2>3 DEF CallOK, RotationOK
<1> QED BY <1>2, <1>3

LEMMA SqlIssueInsert ==
  ASSUME SqlInv, NEW c \in Calls, IssueInsert(c), stmt[c] = None,
         UNCHANGED <<writes, stmt, settled>>
  PROVE  SqlInv'
<1>0. SqlType /\ CallType(c) /\ pc[c] = "issue" /\ arg[c] \in IssueArg
  BY DEF SqlInv, CallOK, CallType, IssueInsert
<1>1. PICK s \in Fresh, r \in TokenRecord :
        /\ rows' = [rows EXCEPT ![s] = r]
        /\ r.status = "active" /\ r.familyId = arg[c].familyId /\ r.replacedBySelector = None
        /\ minted' = minted \cup {s} /\ granted' = granted \cup {s}
  <2>1. PICK s \in Fresh, h \in (Kids \X Devices) \cup {None} :
          /\ Insert(s, Mint(arg[c].engine, s, arg[c].familyId, 0, arg[c].userId, h,
                            at[c] + AbsoluteTtl, at[c]))
          /\ minted' = minted \cup {s} /\ granted' = granted \cup {s}
    BY <1>0, ConfigAssumption DEF IssueInsert, IssueArg, Hmac
  <2>2. PICK r : r = Mint(arg[c].engine, s, arg[c].familyId, 0, arg[c].userId, h,
                          at[c] + AbsoluteTtl, at[c])
    OBVIOUS
  <2>3. r \in TokenRecord
    <3>1. /\ arg[c].engine \in Engines /\ arg[c].familyId \in Families /\ arg[c].userId \in Users
          /\ s \in Selectors /\ at[c] \in Nat /\ at[c] + AbsoluteTtl \in Nat
      BY <1>0, ConfigAssumption DEF IssueArg, Fresh, SqlType
    <3> QED BY <2>2, <3>1, MintType
  <2>4. r.status = "active" /\ r.familyId = arg[c].familyId /\ r.replacedBySelector = None
    BY <2>2 DEF Mint
  <2> QED BY <2>1, <2>2, <2>3, <2>4 DEF Insert
<1>2. s \in Selectors /\ s \notin minted /\ s \notin granted /\ ~ Present(s)
  BY PresentKnown DEF Fresh, SqlInv, SqlType
<1>3. rows'[s] = r /\ \A t \in Selectors \ {s} : rows'[t] = rows[t]
  BY <1>0, <1>1, <1>2 DEF SqlType
<1>4. /\ Return(c, "OK") /\ "OK" \in Codes /\ UNCHANGED <<clock, charter, dead, aborts>>
  BY DEF IssueInsert, Codes
<1>5. SqlType'
  BY <1>0, <1>1, <1>2, <1>4, ReturnCall DEF SqlType
<1>6. pc'[c] = "idle" /\ rec'[c] = NoRow /\ \A d \in Calls \ {c} : Stays(d)
  BY <1>4, ReturnCall
<1>7. (\A t \in Selectors : ~ Holds(c, t)') /\ ~ New(c)
  BY <1>0, NoLocks DEF Holds, Outside
<1>8. CallOK(c)' /\ ~ New(c)'
  BY <1>5, <1>6, <1>7, EndedCall
<1>9. \A t : Pending(t)' => Pending(t)
  BY <1>6, <1>8, StaysSame DEF Pending, Stays
<1>10. Steady
  <2>1. \A t \in minted : Forward(t)
    BY <1>2, <1>3 DEF Forward, Present, Gone, SqlInv, SqlType
  <2>2. \A t \in Selectors : Present(t)' =>
          (t \in minted /\ ~ Pending(t)) \/ (rows'[t].replacedBySelector = None /\ rows'[t].status # "rotated")
    BY <1>1, <1>2, <1>3, PresentKnown DEF Present
  <2> QED BY <1>1, <1>9, <2>1, <2>2 DEF Steady
<1>11. \A d \in Calls : CallOK(d)'
  <2>1. \A d \in Calls : LocksKept(d)
    BY <1>1, <1>2, <1>3, HeldKnown DEF LocksKept
  <2> QED BY <1>6, <1>8, <1>10, <2>1, StaysCall
<1>12. Unused(arg[c].familyId)
  BY <1>0 DEF SqlInv, FamiliesOK
<1>13. TableOK'
  <2>1. \A t \in Selectors : Present(t)' => t \in minted' /\ Linked(rows[t])'
    <3>1. ASSUME NEW t \in Selectors \ {s}, Present(t)' PROVE t \in minted' /\ Linked(rows[t])'
      <4>1. PICK q : q = rows[t]
        OBVIOUS
      <4>2. Linked(q)' /\ t \in minted
        BY <1>3, <1>10, <3>1, <4>1, LinkedKept DEF SqlInv, TableOK, Present
      <4> QED BY <1>1, <1>3, <4>1, <4>2 DEF Linked, Heir, Present
    <3>2. Linked(rows[s])'
      BY <1>1, <1>3 DEF Linked
    <3> QED BY <1>1, <3>1, <3>2
  <2>2. \A t \in Selectors : rows'[t].status \in {"active", "rotated"} => t \in granted'
    BY <1>1, <1>3 DEF SqlInv, TableOK
  <2>3. \A t, u \in Selectors :
          Present(t)' /\ Present(u)' /\ rows'[t].replacedBySelector # None
          /\ rows'[t].replacedBySelector = rows'[u].replacedBySelector => t = u
    BY <1>1, <1>3 DEF SqlInv, TableOK, Present
  <2>4. \A f \in Families : /\ f # arg[c].familyId => Lineage(f)' = Lineage(f) /\ Heads(f)' = Heads(f)
                            /\ f = arg[c].familyId => Lineage(f)' \subseteq {s} /\ Heads(f)' \subseteq {s}
    <3>1. granted \subseteq Selectors
      BY <1>0 DEF SqlType
    <3>2. \A t \in granted : rows[t].status \in {"active", "rotated"} => rows[t].familyId # arg[c].familyId
      BY <1>12, <3>1 DEF Unused, Present
    <3> QED BY <1>1, <1>2, <1>3, <3>1, <3>2 DEF Lineage, Heads, IsActive
  <2>5. NoFork'
    BY <2>4 DEF SqlInv, TableOK, NoFork
  <2>6. LinearLineage'
    <3>1. ASSUME NEW f \in Families, NEW t \in Lineage(f)', NEW u \in Lineage(f)'
          PROVE  /\ rows'[t].generation = rows'[u].generation => t = u
                 /\ IsActive(t)' => rows'[u].generation <= rows'[t].generation
      <4>1. CASE f = arg[c].familyId
        BY <1>3, <2>4, <4>1, <3>1, <1>1 DEF TokenRecord
      <4>2. CASE f # arg[c].familyId
        <5>1. t \in Lineage(f) /\ u \in Lineage(f) /\ rows'[t] = rows[t] /\ rows'[u] = rows[u]
          BY <1>2, <1>3, <2>4, <3>1, <4>2 DEF Lineage, SqlInv, SqlType
        <5> QED BY <5>1 DEF SqlInv, TableOK, LinearLineage, IsActive
      <4> QED BY <4>1, <4>2
    <3> QED BY <3>1 DEF LinearLineage
  <2>7. SuccessorIntact'
    <3>1. ASSUME NEW t \in granted', rows'[t].status = "rotated", rows'[t].familyId \notin dead'
          PROVE  rows'[rows'[t].replacedBySelector].status \in {"active", "rotated"}
      <4>1. t # s /\ t \in granted /\ rows'[t] = rows[t] /\ t \in Selectors
        BY <1>0, <1>1, <1>3, <3>1 DEF SqlType
      <4>2. rows[t].replacedBySelector \in granted
        BY <3>1, <4>1 DEF SqlInv, TableOK, Linked, Present
      <4>3. rows'[rows[t].replacedBySelector] = rows[rows[t].replacedBySelector]
        BY <1>0, <1>2, <1>3, <4>2 DEF SqlType
      <4> QED BY <1>4, <3>1, <4>1, <4>3 DEF SqlInv, TableOK, SuccessorIntact
    <3> QED BY <3>1 DEF SuccessorIntact
  <2> QED BY <2>1, <2>2, <2>3, <2>5, <2>6, <2>7 DEF TableOK
<1>14. LocksOK'
  BY DEF SqlInv, LocksOK, Holds
<1>15. FamiliesOK'
  <2>1. \A f : f # arg[c].familyId /\ Unused(f) => Unused(f)'
    BY <1>1, <1>3, <1>6 DEF Unused, Present, Stays
  <2>2. \A d \in Calls : pc'[d] = "issue" => d # c /\ pc[d] = "issue" /\ arg'[d] = arg[d]
    BY <1>6 DEF Stays
  <2>3. charter[arg[c].familyId] # None
    BY <1>0 DEF SqlInv, FamiliesOK
  <2>4. \A d \in Calls \ {c} : pc[d] = "issue" => arg[d].familyId # arg[c].familyId
    BY <1>0 DEF SqlInv, FamiliesOK
  <2> QED BY <1>4, <2>1, <2>2, <2>3, <2>4 DEF SqlInv, FamiliesOK
<1>16. SettledOK'
  <2>1. \A t \in settled : Forward(t) /\ ~ Pending(t)'
    BY <1>9, <1>10 DEF SqlInv, SqlType, SettledOK, Steady
  <2> QED BY <2>1 DEF SqlInv, SettledOK, CommittedRevoked, Forward, Gone
<1> QED BY <1>5, <1>11, <1>13, <1>14, <1>15, <1>16 DEF SqlInv


-----------------------------------------------------------------------------
(* The writes of a rotation.                                                *)

\* The token, its successor and the successor to be are three rows.
LEMMA ThreeRows ==
  ASSUME SqlInv, NEW c \in Calls, pc[c] \in Inside
  PROVE  /\ stmt[c] = None /\ rec[c] \in TokenRecord /\ rec[c] # NoRow
         /\ rec[c].generation \in Nat /\ arg[c] \in RefreshArg
         /\ arg[c].selector \in Selectors /\ arg[c].selector \in minted
         /\ New(c) => nxt[c] \in Selectors /\ arg[c].selector # nxt[c]
         /\ Retry(c) => /\ rec[c].replacedBySelector \in Selectors
                        /\ rec[c].replacedBySelector \in granted
                        /\ arg[c].selector # rec[c].replacedBySelector
         /\ New(c) /\ Retry(c) => nxt[c] # rec[c].replacedBySelector
<1>0. SqlType /\ CallType(c) /\ KnownOK(c) /\ RotationOK(c)
  BY DEF SqlInv, CallOK
<1>1. /\ stmt[c] = None /\ rec[c] \in TokenRecord /\ arg[c] \in RefreshArg
  BY <1>0 DEF CallType, Inside
<1>2. rec[c] # NoRow /\ rec[c].generation \in Nat
  BY <1>1, RecordStatus DEF TokenRecord
<1>3. arg[c].selector \in Selectors /\ arg[c].selector \in minted /\ ~ Pending(arg[c].selector)
  BY <1>0, <1>1, <1>2 DEF KnownOK, RefreshArg
<1>4. New(c) => nxt[c] \in Selectors /\ arg[c].selector # nxt[c]
  BY <1>0, <1>3 DEF RotationOK, Pending, SqlType
<1>5. ASSUME Retry(c)
      PROVE  /\ rec[c].replacedBySelector \in Selectors /\ rec[c].replacedBySelector \in granted
             /\ arg[c].selector # rec[c].replacedBySelector
  <2>1. rec[c].replacedBySelector \in granted /\ Heir(rec[c].replacedBySelector, rec[c])
    BY <1>0, <1>2, <1>5 DEF KnownOK, Linked, Retry
  <2>2. Present(rec[c].replacedBySelector)
    BY <1>0, <1>5 DEF RotationOK, IsActive, Present
  <2> QED BY <1>0, <1>2, <2>1, <2>2 DEF Heir, KnownOK, SqlType
<1>6. New(c) /\ Retry(c) => nxt[c] # rec[c].replacedBySelector
  BY <1>0, <1>5 DEF RotationOK
<1> QED BY <1>1, <1>2, <1>3, <1>4, <1>5, <1>6

\* Steps inside one rotation, from what they leave of the call itself.
LEMMA RotateStep ==
  ASSUME SqlInv, SqlType', NEW c \in Calls, \A d \in Calls \ {c} : Stays(d),
         UNCHANGED <<rows, granted, charter, dead, settled>>, minted \subseteq minted',
         arg'[c] = arg[c], rec'[c] = rec[c], stmt'[c] = None, pc'[c] \in Inside,
         New(c)' => (New(c) /\ nxt'[c] = nxt[c]) \/ nxt'[c] \notin minted,
         \A s \in Selectors : Holds(c, s)' => Holds(c, s) \/ ~ Locked(c, s),
         CallType(c)', RotationOK(c)'
  PROVE  SqlInv'
<1>1. FamiliesOK'
  <2>1. pc'[c] # "issue" /\ rec'[c] \in {rec[c], NoRow}
    BY DEF Inside
  <2> QED BY <2>1, FamiliesKept DEF Present
<1>2. ASSUME Steady PROVE CallOK(c)'
  BY <1>2, KnownKept DEF CallOK, StatementOK, Inside
<1> QED BY <1>1, <1>2, LocalStep

LEMMA ConsumeStep ==
  ASSUME SqlInv, NEW c \in Calls, SqlConsume(c)
  PROVE  SqlInv'
<1>0. SqlType /\ CallType(c) /\ KnownOK(c)
  BY DEF SqlInv, CallOK
<1>1. /\ pc[c] = "consume" /\ stmt[c] = None /\ stmt' = stmt /\ rec[c] \in TokenRecord /\ rec[c] # NoRow
      /\ rec[c].status = "rotated" /\ arg[c] \in RefreshArg /\ nxt[c] = rec[c].replacedBySelector
      /\ UNCHANGED <<storeVars, arg, rec, at, historyVars, settled>>
  BY <1>0, RecordStatus DEF SqlConsume, CallType
<1>2. PICK n \in Selectors : n = nxt[c]
  BY <1>0, <1>1 DEF KnownOK, Linked, TokenRecord
<1>3. ~ New(c) /\ \A s \in Selectors : ~ Holds(c, s)
  BY <1>1, NoLocks DEF Outside
<1>4. CASE /\ Matched(c, n, "active") /\ ~ Locked(c, n)
           /\ Write(c, n, Revoked(Seen(c, n))) /\ GoTo(c, "insert")
           /\ nxt' = [nxt EXCEPT ![c] = None] /\ UNCHANGED verdict
  <2>1. Seen(c, n) = rows[n] /\ IsActive(n)
    BY <1>3, <1>4 DEF Seen, Matched, IsActive
  <2>2. PICK r \in TokenRecord : r = Revoked(rows[n])
    BY <1>0, <2>1, RevokedType, RecordStatus DEF SqlType, IsActive
  <2>3. writes' = [writes EXCEPT ![c][n] = r]
    BY <1>4, <2>1, <2>2 DEF Write
  <2>4. SqlType'
    BY <1>0, <1>1, <1>4, <2>3 DEF SqlType, GoTo, Steps, storeVars, historyVars
  <2>5. /\ pc'[c] = "insert" /\ writes'[c][n] = r /\ \A s \in Selectors \ {n} : ~ Holds(c, s)'
        /\ \A d \in Calls \ {c} : Stays(d)
    BY <1>0, <1>1, <1>3, <1>4, <2>3 DEF SqlType, GoTo, Stays, Holds
  <2>6. r # Untouched
    BY <2>2 DEF Untouched, TokenRecord, TokenStatus
  <2>7. CallType(c)'
    BY <1>1, <2>5 DEF CallType, Inside
  <2>8. RotationOK(c)'
    <3>1. ~ New(c)' /\ ~ Marked(c)' /\ Retry(c)'
      BY <1>1, <2>5 DEF New, Marked, Retry
    <3>2. Holds(c, n)' /\ IsActive(n)' /\ writes'[c][n] = Revoked(rows'[n])
      BY <1>1, <2>1, <2>2, <2>5, <2>6 DEF Holds, IsActive, storeVars
    <3> QED BY <1>1, <1>2, <2>5, <3>1, <3>2 DEF RotationOK
  <2>9. ~ New(c)' /\ \A s \in Selectors : Holds(c, s)' => ~ Locked(c, s)
    BY <1>4, <2>5 DEF New
  <2> QED BY <1>1, <2>4, <2>5, <2>7, <2>8, <2>9, RotateStep DEF Inside, storeVars, historyVars
<1>5. CASE Finish(c, "CONFLICT") /\ UNCHANGED <<nxt, writes>>
  <2>1. SqlType'
    BY <1>0, <1>1, <1>5 DEF SqlType, Finish, GoTo, Codes, storeVars, historyVars
  <2>2. /\ pc'[c] = "commit" /\ verdict'[c] = "CONFLICT" /\ \A s \in Selectors : ~ Holds(c, s)'
        /\ \A d \in Calls \ {c} : Stays(d)
    BY <1>0, <1>1, <1>3, <1>5 DEF SqlType, Finish, GoTo, Stays, Holds
  <2>3. ~ New(c)' /\ ~ Marked(c)' /\ ~ Retry(c)'
    BY <2>2 DEF New, Marked, Retry
  <2>4. CallType(c)' /\ RotationOK(c)'
    BY <1>1, <2>2, <2>3 DEF CallType, RotationOK, Inside
  <2> QED BY <1>1, <2>1, <2>2, <2>3, <2>4, RotateStep DEF Inside, storeVars, historyVars
<1> QED BY <1>2, <1>4, <1>5 DEF SqlConsume


LEMMA InsertStep ==
  ASSUME SqlInv, NEW c \in Calls, SqlInsert(c)
  PROVE  SqlInv'
<1>0. SqlType /\ CallType(c) /\ KnownOK(c) /\ RotationOK(c)
  BY DEF SqlInv, CallOK
<1>1. /\ pc[c] = "insert" /\ pc[c] \in Inside
      /\ UNCHANGED <<storeVars, arg, rec, at, verdict, granted, charter, dead, aborts, stmt, settled>>
  BY DEF SqlInsert, Inside
<1>2. /\ stmt[c] = None /\ rec[c] \in TokenRecord /\ rec[c] # NoRow
      /\ rec[c].generation \in Nat /\ arg[c] \in RefreshArg
      /\ Retry(c) => /\ rec[c].replacedBySelector \in Selectors
                     /\ rec[c].replacedBySelector \in granted
  BY <1>1, ThreeRows
<1>3. PICK s \in Fresh : \E r :
        /\ r = Mint(arg[c].engine, s, rec[c].familyId, rec[c].generation + 1,
                    rec[c].userId, NextDeviceIdHash(rec[c], arg[c]),
                    NextFamilyExpiresAt(rec[c], at[c]), at[c])
        /\ Write(c, s, r)
        /\ minted' = minted \cup {s} /\ nxt' = [nxt EXCEPT ![c] = s]
  BY DEF SqlInsert
<1>3A. PICK r :
        /\ r = Mint(arg[c].engine, s, rec[c].familyId, rec[c].generation + 1,
                    rec[c].userId, NextDeviceIdHash(rec[c], arg[c]),
                    NextFamilyExpiresAt(rec[c], at[c]), at[c])
        /\ Write(c, s, r)
        /\ minted' = minted \cup {s} /\ nxt' = [nxt EXCEPT ![c] = s]
  BY <1>3
<1>4. r \in TokenRecord
  <2>1. NextDeviceIdHash(rec[c], arg[c]) \in (Kids \X Devices) \cup {None}
    BY <1>2, NextDeviceIdHashType
  <2>2. /\ arg[c].engine \in Engines /\ s \in Selectors /\ rec[c].familyId \in Families
        /\ rec[c].generation + 1 \in Nat /\ rec[c].userId \in Users
        /\ NextFamilyExpiresAt(rec[c], at[c]) \in Nat /\ at[c] \in Nat
    BY <1>0, <1>2 DEF RefreshArg, TokenRecord, NextFamilyExpiresAt, SqlType, Fresh
  <2> QED BY <1>3A, <2>1, <2>2, MintType
<1>5. /\ r.status = "active" /\ r.familyId = rec[c].familyId /\ r.generation = rec[c].generation + 1
      /\ r.familyExpiresAt = rec[c].familyExpiresAt /\ r.replacedBySelector = None
  BY <1>3A DEF Mint, NextFamilyExpiresAt
<1>6. s \in Selectors /\ s \notin minted /\ s \notin granted /\ ~ Present(s)
      /\ \A d \in Calls : ~ Holds(d, s)
  BY PresentKnown, HeldKnown DEF Fresh, SqlInv, SqlType
<1>7. SqlType'
  BY <1>0, <1>1, <1>3A, <1>4, <1>6 DEF SqlType, SqlInsert, GoTo, Write, Steps, storeVars
<1>8. /\ pc'[c] = "markRotated" /\ nxt'[c] = s /\ writes'[c][s] = r
      /\ \A t \in Selectors \ {s} : writes'[c][t] = writes[c][t]
      /\ \A d \in Calls \ {c} : Stays(d)
  BY <1>0, <1>1, <1>3A, <1>6 DEF SqlType, SqlInsert, GoTo, Write, Stays
<1>9. New(c)' /\ ~ Marked(c)' /\ Retry(c)' = Retry(c) /\ ~ New(c) /\ ~ Marked(c)
  BY <1>1, <1>8 DEF New, Marked, Retry
<1>10. Holds(c, s)' /\ \A t \in Selectors \ {s} : Holds(c, t)' = Holds(c, t)
  BY <1>4, <1>8 DEF Holds, Untouched, TokenRecord, TokenStatus
<1>11. RotationOK(c)'
  <2>1. \A t \in Selectors : Holds(c, t)' => t = s \/ (Retry(c)' /\ t = rec[c].replacedBySelector)
    BY <1>0, <1>2, <1>9, <1>10 DEF RotationOK
  <2>2. /\ nxt'[c] \in minted' \ granted' /\ ~ Present(s)'
    BY <1>1, <1>3A, <1>6, <1>8 DEF Present, storeVars
  <2>3. ASSUME Retry(c) PROVE LET n == rec[c].replacedBySelector
                              IN  Holds(c, n)' /\ IsActive(n)' /\ writes'[c][n] = Revoked(rows'[n])
    <3>1. rec[c].replacedBySelector # s
      BY <1>0, <2>3, <1>6 DEF RotationOK, IsActive, Present
    <3> QED BY <1>0, <1>1, <1>2, <1>8, <1>10, <2>3, <3>1 DEF RotationOK, IsActive, storeVars
  <2> QED BY <1>1, <1>4, <1>5, <1>8, <1>9, <1>10, <2>1, <2>2, <2>3 DEF RotationOK
<1>12. CallType(c)'
  BY <1>0, <1>1, <1>2, <1>8 DEF CallType, Inside
<1>13. \A t \in Selectors : Holds(c, t)' => Holds(c, t) \/ ~ Locked(c, t)
  BY <1>6, <1>10 DEF Locked
<1> QED BY <1>1, <1>2, <1>3A, <1>6, <1>7, <1>8, <1>11, <1>12, <1>13, RotateStep DEF Inside, storeVars

LEMMA MarkStep ==
  ASSUME SqlInv, NEW c \in Calls, SqlMarkRotated(c)
  PROVE  SqlInv'
<1>0. SqlType /\ CallType(c) /\ KnownOK(c) /\ RotationOK(c)
  BY DEF SqlInv, CallOK
<1>1. /\ pc[c] = "markRotated" /\ pc[c] \in Inside /\ New(c) /\ ~ Marked(c)
      /\ UNCHANGED <<storeVars, arg, rec, at, nxt, historyVars, stmt, settled>>
  BY DEF SqlMarkRotated, Inside, New, Marked
<1>2. /\ stmt[c] = None /\ rec[c] \in TokenRecord /\ rec[c] # NoRow
      /\ arg[c] \in RefreshArg /\ nxt[c] \in Selectors /\ arg[c].selector # nxt[c]
      /\ Retry(c) => /\ rec[c].replacedBySelector \in Selectors
                     /\ arg[c].selector # rec[c].replacedBySelector
  BY <1>1, ThreeRows
<1>3. PICK p \in Selectors : p = arg[c].selector
  BY <1>1, ThreeRows
<1>4. ~ Holds(c, p) /\ Seen(c, p) = rows[p]
  BY <1>0, <1>1, <1>2, <1>3 DEF RotationOK, Seen
<1>5. CASE /\ Matched(c, p, rec[c].status) /\ ~ Locked(c, p)
           /\ Write(c, p, [Seen(c, p) EXCEPT !.status = "rotated",
                                             !.rotatedAt = RotatedAt(rec[c], at[c]),
                                             !.replacedBySelector = nxt[c]])
           /\ Finish(c, "OK")
  <2>1. rows[p].status = rec[c].status /\ rec[c].status \in {"active", "rotated"}
    BY <1>0, <1>1, <1>4, <1>5 DEF Matched, CallType
  <2>2. RotatedAt(rec[c], at[c]) \in Nat
    BY <1>0, <1>2 DEF RotatedAt, KnownOK, Linked, SqlType, TokenRecord
  <2>3. PICK r \in TokenRecord :
          r = [rows[p] EXCEPT !.status = "rotated", !.rotatedAt = RotatedAt(rec[c], at[c]),
                              !.replacedBySelector = nxt[c]]
    <3>1. rows[p] \in TokenRecord
      BY <1>0, <2>1, RecordStatus DEF SqlType
    <3> QED BY <1>2, <2>2, <3>1, MarkedType
  <2>4. writes' = [writes EXCEPT ![c][p] = r]
    BY <1>4, <1>5, <2>3 DEF Write
  <2>5. SqlType'
    BY <1>0, <1>1, <1>5, <2>4 DEF SqlType, Finish, GoTo, Codes, storeVars, historyVars
  <2>6. /\ pc'[c] = "commit" /\ verdict'[c] = "OK" /\ writes'[c][p] = r
        /\ \A t \in Selectors \ {p} : writes'[c][t] = writes[c][t]
        /\ \A d \in Calls \ {c} : Stays(d)
    BY <1>0, <1>1, <1>5, <2>4 DEF SqlType, Finish, GoTo, Stays
  <2>7. Holds(c, p)' /\ \A t \in Selectors \ {p} : Holds(c, t)' = Holds(c, t)
    BY <2>3, <2>6 DEF Holds, Untouched, TokenRecord, TokenStatus
  <2>8. New(c)' /\ Marked(c)' /\ Retry(c)' = Retry(c)
    BY <1>0, <1>1, <1>2, <1>3, <2>6, <2>7 DEF New, Marked, Retry, RotationOK
  <2>9. RotationOK(c)'
    <3>1. \A t \in Selectors : Holds(c, t)' =>
            t = nxt[c] \/ t = p \/ (Retry(c)' /\ t = rec[c].replacedBySelector)
      BY <1>0, <1>1, <1>2, <2>7, <2>8 DEF RotationOK
    <3>2. /\ nxt[c] \in minted' \ granted' /\ ~ Present(nxt[c])' /\ Holds(c, nxt[c])'
          /\ writes'[c][nxt[c]] = writes[c][nxt[c]]
      BY <1>0, <1>1, <1>2, <1>3, <2>6, <2>7 DEF RotationOK, Present, storeVars, historyVars
    <3>3. Retry(c) => LET n == rec[c].replacedBySelector
                      IN  Holds(c, n)' /\ IsActive(n)' /\ writes'[c][n] = Revoked(rows'[n])
      BY <1>0, <1>1, <1>2, <1>3, <2>6, <2>7 DEF RotationOK, IsActive, storeVars
    <3> QED BY <1>0, <1>1, <1>3, <2>1, <2>3, <2>6, <2>7, <2>8, <3>1, <3>2, <3>3 DEF RotationOK, storeVars
  <2>10. CallType(c)'
    BY <1>0, <1>1, <1>2, <2>6 DEF CallType, Inside
  <2>11. \A t \in Selectors : Holds(c, t)' => Holds(c, t) \/ ~ Locked(c, t)
    BY <1>5, <2>7
  <2> QED BY <1>1, <1>2, <2>5, <2>6, <2>9, <2>10, <2>11, RotateStep DEF Inside, storeVars, historyVars
<1>6. CASE /\ ~ Matched(c, p, rec[c].status)
           /\ GoTo(c, "compensate") /\ UNCHANGED <<verdict, writes>>
  <2>1. rows[p].status # rec[c].status
    BY <1>4, <1>6 DEF Matched
  <2>2. SqlType'
    BY <1>0, <1>1, <1>6 DEF SqlType, GoTo, Steps, storeVars, historyVars
  <2>3. /\ pc'[c] = "compensate" /\ \A d \in Calls \ {c} : Stays(d)
        /\ \A t : Holds(c, t)' = Holds(c, t)
    BY <1>0, <1>1, <1>6 DEF SqlType, GoTo, Stays, Holds
  <2>4. New(c)' /\ ~ Marked(c)' /\ Retry(c)' = Retry(c)
    BY <1>1, <2>3 DEF New, Marked, Retry
  <2>5. CallType(c)'
    BY <1>0, <1>1, <1>2, <2>3 DEF CallType, Inside
  <2>6. RotationOK(c)'
    BY <1>0, <1>1, <1>2, <1>3, <1>6, <2>1, <2>3, <2>4
    DEF RotationOK, Present, IsActive, storeVars, historyVars
  <2> QED BY <1>1, <1>2, <2>2, <2>3, <2>5, <2>6, RotateStep DEF Inside, storeVars, historyVars
<1> QED BY <1>3, <1>5, <1>6 DEF SqlMarkRotated

LEMMA CompensateStep ==
  ASSUME SqlInv, NEW c \in Calls, SqlCompensate(c)
  PROVE  SqlInv'
<1>0. SqlType /\ CallType(c) /\ KnownOK(c) /\ RotationOK(c)
  BY DEF SqlInv, CallOK
<1>1. /\ pc[c] = "compensate" /\ pc[c] \in Inside /\ New(c) /\ ~ Marked(c)
      /\ UNCHANGED <<storeVars, arg, rec, at, nxt, historyVars, stmt, settled>>
  BY DEF SqlCompensate, Inside, New, Marked
<1>2. /\ stmt[c] = None /\ rec[c] \in TokenRecord
      /\ arg[c] \in RefreshArg /\ nxt[c] \in Selectors
      /\ Retry(c) => /\ rec[c].replacedBySelector \in Selectors
                     /\ nxt[c] # rec[c].replacedBySelector
  BY <1>1, ThreeRows
<1>3. PICK n \in Selectors : n = nxt[c]
  BY <1>2
<1>4. PICK r \in TokenRecord : r = Revoked(writes[c][n])
  BY <1>0, <1>1, <1>3, RevokedType DEF RotationOK
<1>5. writes' = [writes EXCEPT ![c][n] = r] /\ Finish(c, "CONFLICT")
  BY <1>0, <1>1, <1>3, <1>4 DEF SqlCompensate, Write, Seen, RotationOK
<1>6. SqlType'
  BY <1>0, <1>1, <1>5 DEF SqlType, Finish, GoTo, Codes, storeVars, historyVars
<1>7. /\ pc'[c] = "commit" /\ verdict'[c] = "CONFLICT" /\ writes'[c][n] = r
      /\ \A t \in Selectors \ {n} : writes'[c][t] = writes[c][t]
      /\ \A d \in Calls \ {c} : Stays(d)
  BY <1>0, <1>1, <1>5 DEF SqlType, Finish, GoTo, Stays
<1>8. \A t \in Selectors : Holds(c, t)' = Holds(c, t)
  BY <1>0, <1>1, <1>3, <1>4, <1>7 DEF RotationOK, Holds, Untouched, TokenRecord, TokenStatus
<1>9. New(c)' /\ ~ Marked(c)' /\ Retry(c)' = Retry(c)
  BY <1>0, <1>1, <1>3, <1>7, <1>8 DEF New, Marked, Retry, RotationOK
<1>10. /\ r.status = "revoked" /\ r.familyId = rec[c].familyId /\ r.generation = rec[c].generation + 1
       /\ r.familyExpiresAt = rec[c].familyExpiresAt /\ r.replacedBySelector = None
  BY <1>0, <1>1, <1>3, <1>4 DEF RotationOK, Revoked, TokenRecord
<1>11. RotationOK(c)'
  <2>1. \A t \in Selectors : Holds(c, t)' => t = n \/ (Retry(c)' /\ t = rec[c].replacedBySelector)
    BY <1>0, <1>1, <1>2, <1>3, <1>8, <1>9 DEF RotationOK
  <2>2. n \in minted' \ granted' /\ ~ Present(n)' /\ Holds(c, n)'
    BY <1>0, <1>1, <1>3, <1>8 DEF RotationOK, Present, storeVars, historyVars
  <2>3. Retry(c) => LET m == rec[c].replacedBySelector
                    IN  Holds(c, m)' /\ IsActive(m)' /\ writes'[c][m] = Revoked(rows'[m])
    BY <1>0, <1>1, <1>2, <1>3, <1>7, <1>8 DEF RotationOK, IsActive, storeVars
  <2>4. rows'[arg[c].selector].status # rec[c].status
    BY <1>0, <1>1 DEF RotationOK, storeVars
  <2> QED BY <1>1, <1>3, <1>7, <1>9, <1>10, <2>1, <2>2, <2>3, <2>4 DEF RotationOK
<1>12. CallType(c)'
  BY <1>0, <1>1, <1>2, <1>7 DEF CallType, Inside
<1> QED BY <1>1, <1>2, <1>6, <1>7, <1>8, <1>11, <1>12, RotateStep DEF Inside, storeVars, historyVars


-----------------------------------------------------------------------------
(* Statements over many rows.                                               *)

LEMMA StartStep ==
  ASSUME SqlInv, NEW c \in Calls, pc[c] \in {"idle", "revokeFamily"},
         NEW by, StartStatement(c, by),
         by \in Predicate
  PROVE  SqlInv'
<1>0. SqlType /\ CallType(c) /\ TableOK
  BY DEF SqlInv, CallOK
<1>1. /\ stmt[c] = None
      /\ UNCHANGED <<storeVars, callVars, historyVars, writes, settled>>
  BY DEF StartStatement
<1>2. ~ New(c) /\ ~ Retry(c) /\ ~ Marked(c) /\ (\A s \in Selectors : ~ Holds(c, s))
  BY <1>1, NoLocks DEF Outside, Retry, Marked
<1>3. \A s \in Selectors : Seen(c, s) = rows[s]
  BY <1>2 DEF Seen
<1>4. PICK w : w = [by      |-> by,
                    todo    |-> {s \in Selectors : Hit(rows[s], by)},
                    settles |-> {s \in Selectors : Covers(rows[s], by)},
                    doomed  |-> {rows[s].familyId : s \in {t \in Selectors : Covers(rows[t], by)}}]
  OBVIOUS
<1>5. stmt' = [stmt EXCEPT ![c] = w]
  <2>1. /\ {s \in Selectors : Hit(Seen(c, s), by)} = {s \in Selectors : Hit(rows[s], by)}
        /\ {s \in Selectors : Covers(Seen(c, s), by)} = {s \in Selectors : Covers(rows[s], by)}
        /\ \A S \in SUBSET Selectors : {Seen(c, s).familyId : s \in S} = {rows[s].familyId : s \in S}
    BY <1>3
  <2>2. {s \in Selectors : Covers(rows[s], by)} \in SUBSET Selectors
    OBVIOUS
  <2> QED BY <1>4, <2>1, <2>2 DEF StartStatement
<1>6. \A s \in Selectors : Hit(rows[s], by) \/ Covers(rows[s], by) =>
        rows[s] \in TokenRecord /\ Present(s) /\ s \in minted /\ ~ Pending(s)
  <2>1. \A s \in Selectors : rows[s] # NoRow => rows[s] \in TokenRecord /\ Present(s)
    BY <1>0, RecordStatus DEF SqlType, Present
  <2> QED BY <2>1, PresentKnown DEF Hit, Covers
<1>7. w \in Statement
  BY <1>4, <1>6 DEF Statement, TokenRecord
<1>8. SqlType'
  BY <1>0, <1>1, <1>5, <1>7 DEF SqlType, storeVars, callVars, historyVars
<1>9. /\ stmt'[c] = w
      /\ \A d \in Calls \ {c} : Stays(d)
      /\ \A s : Holds(c, s)' = Holds(c, s)
  BY <1>0, <1>1, <1>5 DEF SqlType, Stays, callVars, Holds
<1>10. ~ New(c)' /\ ~ Retry(c)' /\ ~ Marked(c)'
  BY <1>1, <1>2, <1>9 DEF New, Retry, Marked, callVars
<1>11. FamiliesOK'
  BY <1>1, <1>9, FamiliesKept DEF Present, storeVars, callVars, historyVars
<1>12. ASSUME Steady PROVE CallOK(c)'
  <2>1. CallType(c)'
    BY <1>0, <1>1, <1>9 DEF CallType, callVars, Inside
  <2>2. KnownOK(c)'
    BY <1>1, <1>12, KnownKept DEF callVars, SqlInv, CallOK, KnownOK
  <2>3. RotationOK(c)'
    BY <1>2, <1>9, <1>10 DEF RotationOK
  <2>4. StatementOK(c)'
    <3>1. Reach(c)' = w.todo
      BY <1>2, <1>9 DEF Reach
    <3>2. /\ w.todo \cup w.settles \subseteq minted'
          /\ \A s \in w.todo \cup w.settles : ~ Pending(s)'
      BY <1>1, <1>4, <1>6, <1>12 DEF Steady, historyVars
    <3>3. ASSUME by.op # "deleteExpired"
          PROVE  /\ w.todo \subseteq w.settles
                 /\ \A s \in w.settles : /\ s \in w.todo \/ Gone(s)
                                         /\ Covers(rows[s], by) /\ rows[s].familyId \in w.doomed
      BY <1>4, <3>3 DEF Hit, Gone
    <3>4. ASSUME by.op = "deleteExpired"
          PROVE  /\ w.settles = {}
                 /\ \A s \in w.todo : Hit(rows[s], by)
                 /\ \A s \in Selectors :
                      rows[s].status = "rotated" /\ rows[s].replacedBySelector \in w.todo => s \in w.todo
      <4>1. w.settles = {} /\ \A s \in w.todo : Hit(rows[s], by)
        BY <1>4, <3>4 DEF Covers
      <4>2. ASSUME NEW s \in Selectors, rows[s].status = "rotated",
                   rows[s].replacedBySelector \in w.todo
            PROVE  s \in w.todo
        <5>1. Present(s) /\ rows[s] # NoRow
          BY <4>2 DEF Present, NoRow
        <5>2. Heir(rows[s].replacedBySelector, rows[s]) /\ Present(rows[s].replacedBySelector)
          BY <1>0, <1>4, <1>6, <4>2, <5>1, DistinctAssumption DEF TableOK, Linked
        <5>3. rows[rows[s].replacedBySelector].familyExpiresAt < by.of
          BY <1>4, <3>4, <4>2 DEF Hit, Covers
        <5> QED BY <1>4, <3>4, <5>1, <5>2, <5>3 DEF Heir, Hit
      <4> QED BY <4>1, <4>2
    <3>5. w.by = by
      BY <1>4
    <3> QED BY <1>1, <1>2, <1>9, <3>1, <3>2, <3>3, <3>4, <3>5 DEF StatementOK, Gone, storeVars
  <2> QED BY <2>1, <2>2, <2>3, <2>4 DEF CallOK
<1> QED BY <1>1, <1>8, <1>9, <1>10, <1>11, <1>12, LocalStep DEF storeVars, historyVars

LEMMA RowStep ==
  ASSUME SqlInv, NEW c \in Calls, StatementRow(c)
  PROVE  SqlInv'
<1>0. SqlType /\ CallType(c) /\ StatementOK(c)
  BY DEF SqlInv, CallOK
<1>1. /\ stmt[c] # None /\ pc[c] \in {"idle", "revokeFamily"}
      /\ UNCHANGED <<storeVars, callVars, historyVars, settled>>
  BY <1>0 DEF StatementRow, CallType
<1>2. PICK w \in Statement : w = stmt[c]
  BY <1>0, <1>1 DEF SqlType
<1>3. PICK s \in w.todo :
        /\ ~ Locked(c, s)
        /\ IF Hit(Seen(c, s), w.by) THEN Write(c, s, Effect(Seen(c, s), w.by)) ELSE UNCHANGED writes
        /\ stmt' = [stmt EXCEPT ![c].todo = @ \ {s}]
  BY <1>2 DEF StatementRow
<1>4. s \in Selectors /\ rows[s] \in TokenRecord \cup {NoRow}
  BY <1>0, <1>2 DEF Statement, SqlType
<1>5. PICK v \in Statement :
        /\ v.by = w.by /\ v.settles = w.settles /\ v.doomed = w.doomed /\ v.todo = w.todo \ {s}
        /\ stmt' = [stmt EXCEPT ![c] = v]
  <2>1. PICK v : v = [w EXCEPT !.todo = @ \ {s}]
    OBVIOUS
  <2>2. /\ v \in Statement
        /\ v.by = w.by /\ v.settles = w.settles /\ v.doomed = w.doomed /\ v.todo = w.todo \ {s}
    BY <2>1 DEF Statement
  <2> QED BY <1>0, <1>2, <1>3, <2>1, <2>2 DEF SqlType
<1>6. Holds(c, s) => ~ Hit(Seen(c, s), w.by)
  <2>1. Holds(c, s) => Present(s) /\ Seen(c, s) = Effect(rows[s], w.by)
    BY <1>0, <1>1, <1>2, <1>4 DEF StatementOK, Seen
  <2>2. Present(s) => rows[s] \in TokenRecord
    BY <1>4, RecordStatus DEF Present
  <2>3. rows[s] \in TokenRecord => Revoked(rows[s]).status = "revoked"
    BY DEF Revoked, TokenRecord
  <2> QED BY <2>1, <2>2, <2>3 DEF Effect, Hit, Covers
<1>7. ~ Holds(c, s) => Seen(c, s) = rows[s]
  BY DEF Seen
<1>8. Hit(rows[s], w.by) => Present(s) /\ rows[s] \in TokenRecord
                            /\ Effect(rows[s], w.by) \in TokenRecord \cup {NoRow}
  BY <1>4, RecordStatus, RevokedType DEF Hit, Covers, Present, Effect
<1>9. \/ Hit(rows[s], w.by) /\ ~ Holds(c, s) /\ writes' = [writes EXCEPT ![c][s] = Effect(rows[s], w.by)]
      \/ (Holds(c, s) \/ ~ Hit(rows[s], w.by)) /\ writes' = writes
  BY <1>3, <1>6, <1>7 DEF Write
<1>10. SqlType'
  <2>1. writes' \in [Calls -> [Selectors -> TokenRecord \cup {NoRow, Untouched}]]
    <3>1. CASE writes' = writes
      BY <1>0, <3>1 DEF SqlType
    <3>2. CASE Hit(rows[s], w.by) /\ writes' = [writes EXCEPT ![c][s] = Effect(rows[s], w.by)]
      <4>1. PICK e \in TokenRecord \cup {NoRow} : writes' = [writes EXCEPT ![c][s] = e]
        BY <1>8, <3>2
      <4> QED BY <1>0, <1>4, <4>1 DEF SqlType
    <3> QED BY <1>9, <3>1, <3>2
  <2>2. stmt' \in [Calls -> Statement \cup {None}]
    BY <1>0, <1>5 DEF SqlType
  <2> QED BY <1>0, <1>1, <2>1, <2>2 DEF SqlType, storeVars, callVars, historyVars
<1>11. /\ stmt'[c] = v
       /\ \A d \in Calls \ {c} : Stays(d)
       /\ \A t \in Selectors \ {s} : writes'[c][t] = writes[c][t] /\ Holds(c, t)' = Holds(c, t)
  BY <1>0, <1>1, <1>4, <1>5, <1>9 DEF SqlType, Stays, callVars, Holds
<1>12. \/ Hit(rows[s], w.by) /\ Holds(c, s)' /\ writes'[c][s] = Effect(rows[s], w.by)
       \/ /\ Holds(c, s) \/ ~ Hit(rows[s], w.by)
          /\ writes'[c][s] = writes[c][s] /\ Holds(c, s)' = Holds(c, s)
  <2>1. \A r \in TokenRecord \cup {NoRow} : r # Untouched
    BY DEF TokenRecord, TokenStatus, NoRow, Untouched
  <2> QED BY <1>0, <1>4, <1>8, <1>9, <2>1 DEF Holds, SqlType
<1>13. ~ New(c)' /\ ~ Retry(c)' /\ ~ Marked(c)'
  BY <1>1 DEF New, Retry, Marked, callVars
<1>14. FamiliesOK'
  BY <1>1, <1>11, FamiliesKept DEF Present, storeVars, callVars, historyVars
<1>15. ASSUME Steady PROVE CallOK(c)'
  <2>1. CallType(c)'
    BY <1>0, <1>1, <1>11 DEF CallType, callVars, Inside
  <2>2. KnownOK(c)'
    BY <1>1, <1>15, KnownKept DEF callVars, SqlInv, CallOK, KnownOK
  <2>3. StatementOK(c)'
    <3>1. /\ Reach(c)' \subseteq Reach(c) /\ Reach(c) \subseteq Reach(c)' \cup {s}
          /\ s \notin Reach(c)' => ~ Holds(c, s) /\ ~ Hit(rows[s], w.by)
      BY <1>2, <1>4, <1>5, <1>11, <1>12 DEF Reach
    <3>2. /\ v.todo \cup v.settles \subseteq minted'
          /\ \A t \in v.todo \cup v.settles : ~ Pending(t)'
      BY <1>0, <1>1, <1>2, <1>5, <1>15 DEF StatementOK, Steady, historyVars
    <3>3. \A t \in Selectors : Holds(c, t)' => Present(t)' /\ writes'[c][t] = Effect(rows'[t], v.by)
      BY <1>0, <1>1, <1>2, <1>5, <1>8, <1>11, <1>12 DEF StatementOK, Present, storeVars
    <3>4. ASSUME v.by.op # "deleteExpired"
          PROVE  /\ Reach(c)' \subseteq v.settles
                 /\ \A t \in v.settles :
                      /\ t \in Reach(c)' \/ Gone(t)'
                      /\ Present(t)' => Covers(rows'[t], v.by) /\ rows'[t].familyId \in v.doomed
      <4>1. s \notin Reach(c)' => Gone(s)
        BY <1>0, <1>1, <1>2, <1>4, <1>5, <3>1, <3>4, RecordStatus
        DEF StatementOK, Reach, Hit, Present, Gone, TokenStatus
      <4> QED BY <1>0, <1>1, <1>2, <1>5, <3>1, <3>4, <4>1 DEF StatementOK, Gone, Present, storeVars
    <3>5. ASSUME v.by.op = "deleteExpired"
          PROVE  /\ v.settles = {}
                 /\ \A t \in v.todo : Present(t)' => Hit(rows'[t], v.by)
                 /\ \A t \in Selectors :
                      rows'[t].status = "rotated" /\ rows'[t].replacedBySelector \in Reach(c)'
                        => t \in Reach(c)'
      <4>1. s \notin Reach(c)' => ~ Present(s)
        BY <1>0, <1>1, <1>2, <1>5, <3>1, <3>5 DEF StatementOK
      <4> QED BY <1>0, <1>1, <1>2, <1>5, <3>1, <3>5, <4>1 DEF StatementOK, Present, storeVars
    <3> QED BY <1>11, <3>2, <3>3, <3>4, <3>5 DEF StatementOK
  <2>4. RotationOK(c)'
    BY <1>5, <1>11, <1>13, StatementAssumption DEF RotationOK
  <2> QED BY <2>1, <2>2, <2>3, <2>4 DEF CallOK
<1> QED BY <1>1, <1>3, <1>4, <1>10, <1>11, <1>13, <1>14, <1>15, LocalStep DEF storeVars, historyVars


-----------------------------------------------------------------------------
(* ROLLBACK and COMMIT.                                                     *)

\* The call has ended and its transaction with it.
Ended(c) ==
  /\ pc'[c] = "idle" /\ rec'[c] = NoRow /\ stmt'[c] = None
  /\ (\A s \in Selectors : ~ Holds(c, s)')
  /\ \A d \in Calls \ {c} : Stays(d)

LEMMA TransactionEnds ==
  ASSUME SqlInv, NEW c \in Calls, EndTransaction(c),
         \/ \E code : Return(c, code)
         \/ pc[c] = "idle" /\ UNCHANGED callVars
  PROVE  /\ Ended(c)
         /\ pc' \in [Calls -> Steps \cup {"commit"}]
         /\ arg' \in [Calls -> IssueArg \cup PresentArg \cup {None}]
         /\ rec' \in [Calls -> TokenRecord \cup {NoRow}]
         /\ at' \in [Calls -> Nat]
         /\ nxt' \in [Calls -> Selectors \cup {None}]
         /\ verdict' \in [Calls -> Codes \cup {None}]
         /\ writes' \in [Calls -> [Selectors -> TokenRecord \cup {NoRow, Untouched}]]
         /\ stmt' \in [Calls -> Statement \cup {None}]
<1>0. SqlType /\ KnownOK(c)
  BY DEF SqlInv, CallOK
<1>1. /\ writes' \in [Calls -> [Selectors -> TokenRecord \cup {NoRow, Untouched}]]
      /\ stmt' \in [Calls -> Statement \cup {None}]
      /\ stmt'[c] = None /\ (\A s \in Selectors : ~ Holds(c, s)')
      /\ \A d \in Calls \ {c} : writes'[d] = writes[d] /\ stmt'[d] = stmt[d]
  BY <1>0 DEF EndTransaction, SqlType, NoWrites, Holds
<1>2. CASE \E code : Return(c, code)
  BY <1>0, <1>1, <1>2 DEF Return, SqlType, Ended, Stays, Steps
<1>3. CASE pc[c] = "idle" /\ UNCHANGED callVars
  BY <1>0, <1>1, <1>3 DEF KnownOK, SqlType, Ended, Stays, callVars
<1> QED BY <1>2, <1>3

LEMMA RollbackStep ==
  ASSUME SqlInv, NEW c \in Calls, Rollback(c)
  PROVE  SqlInv'
<1>1. /\ EndTransaction(c) /\ Return(c, "THROWN")
      /\ UNCHANGED <<storeVars, minted, granted, charter, dead, settled>>
  BY DEF Rollback
<1>2. Ended(c) /\ SqlType'
  BY <1>1, TransactionEnds DEF SqlInv, SqlType, storeVars
<1>3. CallOK(c)' /\ ~ New(c)'
  BY <1>2, EndedCall DEF Ended
<1>4. FamiliesOK'
  BY <1>1, <1>2, FamiliesKept DEF Ended, Present, storeVars
<1> QED BY <1>1, <1>2, <1>3, <1>4, LocalStep DEF Ended, storeVars

\* One row of a commit.
LEMMA CommitRows ==
  ASSUME SqlInv, NEW c \in Calls, NEW s \in Selectors, rows'[s] = Seen(c, s)
  PROVE  \/ rows'[s] = rows[s] /\ ~ Holds(c, s)
         \/ /\ Present(s) /\ Holds(c, s)
            /\ stmt[c] # None
            /\ rows'[s] = Effect(rows[s], stmt[c].by)
         \/ /\ IsActive(s) /\ stmt[c] = None /\ Retry(c) /\ s = rec[c].replacedBySelector
            /\ rows'[s] = Revoked(rows[s])
         \/ New(c) /\ stmt[c] = None /\ s = nxt[c] /\ rows'[s] = writes[c][s]
         \/ Marked(c) /\ stmt[c] = None /\ s = arg[c].selector /\ rows'[s] = writes[c][s]
<1>1. RotationOK(c) /\ StatementOK(c)
  BY DEF SqlInv, CallOK
<1>2. CASE ~ Holds(c, s)
  BY <1>2 DEF Seen
<1>3. CASE Holds(c, s) /\ stmt[c] # None
  BY <1>1, <1>3 DEF Seen, StatementOK
<1>4. CASE Holds(c, s) /\ stmt[c] = None
  BY <1>1, <1>4 DEF Seen, RotationOK
<1> QED BY <1>2, <1>3, <1>4


\* Whatever is committed, the table moves forward.
LEMMA CommitSteady ==
  ASSUME SqlInv, NEW c \in Calls, \A s \in Selectors : rows'[s] = Seen(c, s),
         Ended(c), minted' = minted, granted \subseteq granted'
  PROVE  Steady
<1>0. SqlType /\ CallType(c) /\ RotationOK(c)
  BY DEF SqlInv, CallOK
<1>1. \A s \in minted : Pending(s)' => Pending(s)
  <2>1. ~ New(c)'
    BY DEF Ended, New
  <2> QED BY <2>1, StaysSame DEF Pending, Ended, Stays
<1>2. ASSUME NEW s \in Selectors, ~ Pending(s) PROVE Forward(s)
  <2>1. rows[s] \in TokenRecord \cup {NoRow}
    BY <1>0 DEF SqlType
  <2>2. CASE rows'[s] = rows[s]
    BY <2>2 DEF Forward, Present, Gone
  <2>3. CASE Present(s) /\ (rows'[s] = NoRow \/ rows'[s] = Revoked(rows[s]))
    BY <2>1, <2>3, RecordStatus DEF Forward, Present, Gone, Revoked, TokenRecord
  <2>4. CASE Marked(c) /\ s = arg[c].selector /\ rows'[s] = writes[c][s]
    <3>1. rec[c].status \in {"active", "rotated"} /\ rows[s].status = rec[c].status
      BY <1>0, <2>4 DEF Marked, CallType, RotationOK, Inside
    <3>2. rows[s] \in TokenRecord
      BY <2>1, <3>1, RecordStatus
    <3>3. /\ rows'[s] = [rows[s] EXCEPT !.status = "rotated",
                                        !.rotatedAt = RotatedAt(rec[c], at[c]),
                                        !.replacedBySelector = nxt[c]]
          /\ Pending(nxt[c])
      BY <1>0, <2>4 DEF RotationOK, Pending
    <3> QED BY <3>1, <3>2, <3>3 DEF Forward, Present, Gone, TokenRecord
  <2>5. CASE New(c) /\ s = nxt[c]
    BY <1>2, <2>5 DEF Pending
  <2> QED BY <2>2, <2>3, <2>4, <2>5, CommitRows DEF Effect, IsActive, Present
<1>3. ASSUME NEW s \in Selectors, Present(s)'
      PROVE  \/ s \in minted /\ ~ Pending(s)
             \/ rows'[s].replacedBySelector = None /\ rows'[s].status # "rotated"
  <2>1. CASE Present(s)
    BY <2>1, PresentKnown
  <2>2. CASE ~ Present(s)
    <3>1. ~ (Marked(c) /\ s = arg[c].selector)
      BY <1>0, <2>2 DEF Marked, CallType, RotationOK, Inside, Present
    <3>2. New(c) /\ s = nxt[c] /\ rows'[s] = writes[c][s]
      BY <1>3, <2>2, <3>1, CommitRows DEF Present, IsActive
    <3> QED BY <1>0, <3>2 DEF RotationOK
  <2> QED BY <2>1, <2>2
<1> QED BY <1>0, <1>1, <1>2, <1>3 DEF Steady, SqlType

LEMMA CommitFrame ==
  ASSUME SqlInv, SqlType', NEW c \in Calls, \A s \in Selectors : rows'[s] = Seen(c, s),
         Ended(c), UNCHANGED <<minted, charter>>, granted \subseteq granted',
         \A s \in granted' \ granted : Holds(c, s),
         Steady => TableOK' /\ CommittedRevoked' /\ (\A s \in settled' : ~ Pending(s))
  PROVE  SqlInv'
<1>0. SqlType /\ CallType(c) /\ RotationOK(c)
  BY DEF SqlInv, CallOK
<1>1. Steady
  BY CommitSteady
<1>2. \A d \in Calls \ {c} : LocksKept(d)
  BY DEF SqlInv, LocksOK, LocksKept, Seen
<1>3. \A d \in Calls : CallOK(d)'
  BY <1>1, <1>2, EndedCall, StaysCall DEF Ended
<1>4. LocksOK'
  BY StaysSame DEF SqlInv, LocksOK, Ended
<1>5. FamiliesOK'
  <2>1. ASSUME NEW s \in Selectors, Present(s)'
        PROVE  \/ \E t \in Selectors : Present(t) /\ rows[t].familyId = rows'[s].familyId
               \/ \E d \in Calls : rec[d] # NoRow /\ rec[d].familyId = rows'[s].familyId
    <3>1. CASE s \in minted /\ ~ Pending(s)
      BY <1>1, <2>1, <3>1 DEF Steady, Forward
    <3>2. CASE ~ Present(s)
      <4>1. ~ (Marked(c) /\ s = arg[c].selector)
        BY <1>0, <3>2 DEF Marked, CallType, RotationOK, Inside, Present
      <4>2. New(c) /\ s = nxt[c] /\ rows'[s] = writes[c][s]
        BY <2>1, <3>2, <4>1, CommitRows DEF Present, IsActive
      <4>3. rec[c] # NoRow
        BY <1>0, <4>2, RecordStatus DEF New, CallType, Inside
      <4> QED BY <1>0, <4>2, <4>3 DEF RotationOK
    <3> QED BY <3>1, <3>2, PresentKnown
  <2> QED BY <2>1, FamiliesKept DEF Ended
<1>6. SettledOK'
  BY <1>1 DEF SettledOK, Steady, SqlType
<1> QED BY <1>1, <1>3, <1>4, <1>5, <1>6 DEF SqlInv


\* Links of rows that are still there.
LEMMA LinksKept ==
  ASSUME SqlInv, Steady, NEW s \in Selectors, Present(s), Present(s)',
         rows'[s] = rows[s] \/ rows'[s] = Revoked(rows[s])
  PROVE  /\ Linked(rows[s])'
         /\ rows'[s].replacedBySelector = rows[s].replacedBySelector
<1>1. rows[s] \in TokenRecord /\ Linked(rows[s])
  BY RecordStatus DEF SqlInv, SqlType, TableOK, Present
<1>2. PICK r \in TokenRecord : r = rows[s]
  BY <1>1
<1>3. Linked(r)'
  BY <1>1, <1>2, LinkedKept
<1>4. /\ rows'[s].replacedBySelector = r.replacedBySelector /\ rows'[s].rotatedAt = r.rotatedAt
      /\ rows'[s].familyId = r.familyId /\ rows'[s].generation = r.generation
      /\ rows'[s].familyExpiresAt = r.familyExpiresAt
      /\ rows'[s].status = "rotated" => r.status = "rotated"
  BY <1>2 DEF Revoked, TokenRecord
<1> QED BY <1>2, <1>3, <1>4 DEF Linked, Heir

\* A commit that hands nothing out.
LEMMA TableShrinks ==
  ASSUME SqlInv, Steady, UNCHANGED <<minted, granted>>,
         \A s \in Selectors :
           \/ rows'[s] = rows[s]
           \/ Present(s) /\ (rows'[s] = NoRow \/ rows'[s] = Revoked(rows[s]))
           \/ /\ s \in minted /\ ~ Present(s)
              /\ rows'[s].status = "revoked" /\ rows'[s].replacedBySelector = None,
         SuccessorIntact'
  PROVE  TableOK'
<1>0. SqlType /\ TableOK
  BY DEF SqlInv
<1>1. \A s \in Selectors : Present(s) => rows[s] \in TokenRecord
  BY <1>0, RecordStatus DEF SqlType, Present
<1>2. \A s \in Selectors : rows'[s].status \in {"active", "rotated"} => rows'[s] = rows[s]
  BY <1>1, RecordStatus DEF Revoked, TokenRecord
<1>3. ASSUME NEW s \in Selectors, Present(s)' PROVE s \in minted' /\ Linked(rows[s])'
  <2>1. CASE Present(s)
    BY <1>0, <1>3, <2>1, LinksKept, RecordStatus DEF TableOK, Present
  <2>2. CASE ~ Present(s)
    BY <1>0, <1>3, <2>2 DEF Present, Linked, TableOK
  <2> QED BY <2>1, <2>2
<1>4. ASSUME NEW s \in Selectors, Present(s)', rows'[s].replacedBySelector # None
      PROVE  Present(s) /\ rows'[s].replacedBySelector = rows[s].replacedBySelector
  BY <1>4, LinksKept, RecordStatus DEF Present
<1>5. \A s, t \in Selectors :
        Present(s)' /\ Present(t)' /\ rows'[s].replacedBySelector # None
        /\ rows'[s].replacedBySelector = rows'[t].replacedBySelector => s = t
  BY <1>0, <1>4 DEF TableOK
<1>6. \A f : /\ Heads(f)' \subseteq Heads(f) /\ Lineage(f)' \subseteq Lineage(f)
             /\ \A s \in Lineage(f)' : rows'[s] = rows[s]
  BY <1>0, <1>2 DEF Heads, Lineage, IsActive, SqlType
<1>7. NoFork'
  BY <1>0, <1>6 DEF TableOK, NoFork
<1>8. LinearLineage'
  BY <1>0, <1>6 DEF TableOK, LinearLineage, IsActive
<1> QED BY <1>0, <1>2, <1>3, <1>5, <1>7, <1>8 DEF TableOK

\* COMMIT of a bulk statement.
LEMMA CommitStatement ==
  ASSUME SqlInv, NEW c \in Calls, Commit(c), stmt[c] # None
  PROVE  SqlInv'
<1>0. SqlType /\ CallType(c) /\ StatementOK(c) /\ TableOK
  BY DEF SqlInv, CallOK
<1>1. PICK w \in Statement : w = stmt[c]
  BY <1>0 DEF SqlType
<1>2. /\ w.todo = {} /\ dead' = dead \cup w.doomed /\ settled' = settled \cup w.settles
      /\ EndTransaction(c) /\ UNCHANGED <<clock, minted, granted, charter>>
      /\ \A s \in Selectors : rows'[s] = Seen(c, s)
  BY <1>0, <1>1 DEF Commit, CallType
<1>3. Ended(c) /\ SqlType'
  <2>1. \/ \E code : Return(c, code)
        \/ pc[c] = "idle" /\ UNCHANGED callVars
    BY DEF Commit
  <2>2. rows' \in [Selectors -> TokenRecord \cup {NoRow}]
    <3>1. \A s \in Selectors : Seen(c, s) \in TokenRecord \cup {NoRow}
      BY <1>0 DEF SqlType, Seen, Holds
    <3> QED BY <3>1 DEF Commit
  <2>3. settled' \subseteq minted'
    BY <1>0, <1>1, <1>2 DEF SqlType, StatementOK
  <2> QED BY <1>0, <1>2, <2>1, <2>2, <2>3, TransactionEnds DEF SqlType
<1>4. \A s \in Selectors :
        \/ rows'[s] = rows[s] /\ ~ Holds(c, s)
        \/ /\ Present(s) /\ Holds(c, s) /\ rows[s] \in TokenRecord
           /\ rows'[s] = Effect(rows[s], w.by)
  <2>1. \A s \in Selectors : Present(s) => rows[s] \in TokenRecord
    BY <1>0, RecordStatus DEF SqlType, Present
  <2> QED BY <1>1, <1>2, <2>1, CommitRows
<1>5. Reach(c) = {s \in Selectors : Holds(c, s)}
  BY <1>1, <1>2 DEF Reach
<1>6. ASSUME Steady PROVE TableOK'
  <2>1. ASSUME NEW s \in granted', rows'[s].status = "rotated", rows'[s].familyId \notin dead'
        PROVE  rows'[rows'[s].replacedBySelector].status \in {"active", "rotated"}
    <3>1. s \in granted /\ s \in Selectors
      BY <1>0, <1>2 DEF SqlType
    <3>2. rows'[s] = rows[s] /\ ~ Holds(c, s)
      BY <1>4, <2>1, <3>1, RecordStatus DEF Effect, Revoked, TokenRecord
    <3>3. PICK n \in Selectors : n = rows[s].replacedBySelector /\ n \in granted /\ Heir(n, rows[s])
      BY <1>0, <2>1, <3>1, <3>2 DEF TableOK, Linked, Present, SqlType
    <3>4. rows[n].status \in {"active", "rotated"} /\ rows[n].familyId = rows[s].familyId
      BY <1>0, <1>2, <2>1, <3>1, <3>2, <3>3 DEF TableOK, SuccessorIntact, Heir, Present
    <3>5. ~ Holds(c, n)
      <4>1. CASE w.by.op = "deleteExpired"
        BY <1>0, <1>1, <1>5, <2>1, <3>1, <3>2, <3>3, <4>1 DEF StatementOK
      <4>2. CASE w.by.op # "deleteExpired"
        <5>1. Holds(c, n) => rows[n].familyId \in w.doomed
          BY <1>0, <1>1, <1>5, <3>4, <4>2 DEF StatementOK, Present
        <5> QED BY <1>2, <2>1, <3>2, <3>4, <5>1
      <4> QED BY <4>1, <4>2
    <3> QED BY <1>4, <3>2, <3>3, <3>4, <3>5
  <2>2. SuccessorIntact'
    BY <2>1 DEF SuccessorIntact
  <2>3. \A s \in Selectors :
          \/ rows'[s] = rows[s]
          \/ Present(s) /\ (rows'[s] = NoRow \/ rows'[s] = Revoked(rows[s]))
    BY <1>4 DEF Effect
  <2> QED BY <1>2, <1>6, <2>2, <2>3, TableShrinks
<1>7. ASSUME Steady PROVE CommittedRevoked' /\ \A s \in settled' : ~ Pending(s)
  <2>1. ASSUME NEW s \in settled PROVE Gone(s)' /\ ~ Pending(s)
    BY <1>0, <1>7 DEF SqlInv, SettledOK, CommittedRevoked, Steady, Forward, Gone, SqlType
  <2>2. ASSUME NEW s \in w.settles PROVE Gone(s)' /\ ~ Pending(s)
    <3>1. s \in Selectors /\ s \in minted /\ ~ Pending(s) /\ w.by.op # "deleteExpired"
      BY <1>0, <1>1, <2>2 DEF StatementOK, Statement
    <3>2. Gone(s) \/ Holds(c, s)
      BY <1>0, <1>1, <1>5, <2>2, <3>1 DEF StatementOK
    <3>3. CASE Holds(c, s)
      BY <1>4, <3>1, <3>3 DEF Effect, Revoked, TokenRecord, Gone
    <3>4. CASE Gone(s)
      BY <1>7, <3>1, <3>4 DEF Steady, Forward
    <3> QED BY <3>1, <3>2, <3>3, <3>4
  <2> QED BY <1>2, <2>1, <2>2 DEF CommittedRevoked, Gone
<1> QED BY <1>2, <1>3, <1>6, <1>7, CommitFrame


\* What every COMMIT of a refresh has in common.
LEMMA CommitRefresh ==
  ASSUME SqlInv, NEW c \in Calls, Commit(c), stmt[c] = None
  PROVE  /\ pc[c] = "commit" /\ Ended(c) /\ SqlType'
         /\ UNCHANGED <<clock, minted, charter, dead, settled>>
         /\ granted' = IF Marked(c) THEN granted \cup {nxt[c]} ELSE granted
         /\ \A s \in Selectors : rows'[s] = Seen(c, s)
         /\ \A s \in settled : ~ Pending(s)
         /\ Steady => CommittedRevoked'
<1>0. SqlType /\ RotationOK(c) /\ SettledOK
  BY DEF SqlInv, CallOK
<1>1. /\ pc[c] = "commit" /\ EndTransaction(c) /\ UNCHANGED <<clock, minted, charter, dead, settled>>
      /\ granted' = IF Marked(c) THEN granted \cup {nxt[c]} ELSE granted
      /\ \A s \in Selectors : rows'[s] = Seen(c, s)
      /\ \E code : Return(c, code)
  BY DEF Commit, Marked
<1>2. rows' \in [Selectors -> TokenRecord \cup {NoRow}]
  <2>1. \A s \in Selectors : Seen(c, s) \in TokenRecord \cup {NoRow}
    BY <1>0 DEF SqlType, Seen, Holds
  <2> QED BY <2>1 DEF Commit
<1>3. granted' \subseteq minted'
  BY <1>0, <1>1 DEF SqlType, RotationOK
<1>4. Ended(c) /\ SqlType'
  BY <1>0, <1>1, <1>2, <1>3, TransactionEnds DEF SqlType
<1>5. Steady => CommittedRevoked'
  BY <1>0, <1>1 DEF SettledOK, CommittedRevoked, Steady, Forward, Gone, SqlType
<1> QED BY <1>0, <1>1, <1>4, <1>5 DEF SettledOK

\* COMMIT of a refresh that lost: what it consumed and what it minted are
\* revoked together, and the presented row is not the one it read.
LEMMA CommitConflict ==
  ASSUME SqlInv, NEW c \in Calls, Commit(c), stmt[c] = None, ~ Marked(c)
  PROVE  SqlInv'
<1>0. SqlType /\ TableOK /\ CallType(c) /\ KnownOK(c) /\ RotationOK(c)
  BY DEF SqlInv, CallOK
<1>1. /\ pc[c] = "commit" /\ pc[c] \in Inside /\ Ended(c) /\ SqlType'
      /\ UNCHANGED <<clock, minted, charter, dead, settled, granted>>
      /\ \A s \in Selectors : rows'[s] = Seen(c, s)
      /\ (\A s \in settled : ~ Pending(s)) /\ (Steady => CommittedRevoked')
  BY CommitRefresh DEF Inside
<1>2. /\ rec[c] \in TokenRecord /\ rec[c] # NoRow /\ arg[c].selector \in Selectors
      /\ New(c) => nxt[c] \in Selectors
  BY <1>1, ThreeRows
<1>3. \A s \in Selectors :
        \/ rows'[s] = rows[s]
        \/ /\ IsActive(s) /\ Retry(c) /\ New(c) /\ s = rec[c].replacedBySelector
           /\ rows'[s] = Revoked(rows[s])
        \/ New(c) /\ s = nxt[c] /\ rows'[s] = writes[c][s]
  BY <1>1, CommitRows DEF Retry
<1>4. New(c) => /\ nxt[c] \in minted \ granted /\ ~ Present(nxt[c])
                /\ writes[c][nxt[c]].status = "revoked"
                /\ writes[c][nxt[c]].replacedBySelector = None
                /\ rows[arg[c].selector].status # rec[c].status
  BY <1>0, <1>1 DEF RotationOK
<1>5. ASSUME Steady PROVE TableOK'
  <2>1. ASSUME NEW s \in granted', rows'[s].status = "rotated", rows'[s].familyId \notin dead'
        PROVE  rows'[rows'[s].replacedBySelector].status \in {"active", "rotated"}
    <3>1. s \in granted /\ s \in Selectors /\ rows[s] \in TokenRecord \cup {NoRow}
      BY <1>0, <1>1 DEF SqlType
    <3>2. rows'[s] = rows[s]
      BY <1>3, <1>4, <2>1, <3>1, RecordStatus DEF Revoked, TokenRecord, IsActive
    <3>3. PICK n \in Selectors : n = rows[s].replacedBySelector /\ n \in granted
      BY <1>0, <2>1, <3>1, <3>2 DEF TableOK, Linked, Present, SqlType
    <3>4. rows[n].status \in {"active", "rotated"}
      BY <1>0, <1>1, <2>1, <3>1, <3>2, <3>3 DEF TableOK, SuccessorIntact
    <3>5. ~ (Retry(c) /\ New(c) /\ n = rec[c].replacedBySelector)
      <4>1. SUFFICES ASSUME Retry(c), New(c), n = rec[c].replacedBySelector PROVE FALSE
        OBVIOUS
      <4>2. rec[c].replacedBySelector # None
        BY <1>0, <1>2, <4>1 DEF KnownOK, Linked, Retry
      <4>3. s = arg[c].selector
        BY <1>0, <1>2, <2>1, <3>1, <3>2, <3>3, <4>1, <4>2 DEF KnownOK, Present
      <4> QED BY <1>4, <2>1, <3>2, <4>1, <4>3 DEF Retry
    <3> QED BY <1>3, <1>4, <3>2, <3>3, <3>4, <3>5
  <2>2. SuccessorIntact'
    BY <2>1 DEF SuccessorIntact
  <2>3. \A s \in Selectors :
          \/ rows'[s] = rows[s]
          \/ Present(s) /\ (rows'[s] = NoRow \/ rows'[s] = Revoked(rows[s]))
          \/ /\ s \in minted /\ ~ Present(s)
             /\ rows'[s].status = "revoked" /\ rows'[s].replacedBySelector = None
    BY <1>3, <1>4 DEF IsActive, Present
  <2> QED BY <1>1, <1>5, <2>2, <2>3, TableShrinks
<1> QED BY <1>1, <1>5, CommitFrame


\* What the COMMIT of a rotation does to the table: the presented row p points
\* at the successor x, and a grace retry has revoked the successor it replaces.
LEMMA RotationRows ==
  ASSUME SqlInv, NEW c \in Calls, Commit(c), stmt[c] = None, Marked(c),
         NEW p, p = arg[c].selector, NEW x, x = nxt[c], NEW g, g = rec[c].generation,
         NEW f, f = rec[c].familyId
  PROVE  /\ p \in granted /\ x \in Selectors /\ x \in minted \ granted /\ ~ Present(x)
         /\ g \in Nat /\ f \in Families
         /\ rows[p] \in TokenRecord /\ rows[p].status \in {"active", "rotated"}
         /\ rows[p].status = "active" => ~ Retry(c)
         /\ rows[p].familyId = f /\ rows[p].generation = g
         /\ rows'[p].status = "rotated" /\ rows'[p].replacedBySelector = x
         /\ rows'[p].rotatedAt # None
         /\ rows'[p].familyId = f /\ rows'[p].generation = g
         /\ rows'[p].familyExpiresAt = rows'[x].familyExpiresAt
         /\ rows'[x].status = "active" /\ rows'[x].replacedBySelector = None
         /\ rows'[x].familyId = f /\ rows'[x].generation = g + 1
         /\ \A s \in Selectors \ {p, x} :
              \/ rows'[s] = rows[s] /\ ~ (Retry(c) /\ s = rec[c].replacedBySelector)
              \/ /\ Retry(c) /\ s = rec[c].replacedBySelector
                 /\ IsActive(s) /\ s \in granted /\ rows[s] \in TokenRecord
                 /\ rows[s].familyId = f /\ rows[s].generation = g + 1
                 /\ rows'[s] = Revoked(rows[s])
         /\ Retry(c) => rec[c].replacedBySelector \in Selectors \ {p, x}
         /\ ~ Retry(c) => rows[p].status = "active"
<1>0. SqlType /\ TableOK /\ CallType(c) /\ KnownOK(c) /\ RotationOK(c)
  BY DEF SqlInv, CallOK
<1>1. pc[c] = "commit" /\ pc[c] \in Inside /\ New(c) /\ \A s \in Selectors : rows'[s] = Seen(c, s)
  BY <1>0, CommitRefresh DEF Inside, RotationOK
<1>2. /\ rec[c] \in TokenRecord /\ rec[c] # NoRow /\ g \in Nat /\ f \in Families
      /\ p \in Selectors /\ p \in minted /\ x \in Selectors /\ p # x
      /\ Retry(c) => /\ rec[c].replacedBySelector \in Selectors
                     /\ rec[c].replacedBySelector \in granted
                     /\ p # rec[c].replacedBySelector
  BY <1>1, ThreeRows DEF TokenRecord
<1>3. rows[p].status = rec[c].status /\ rec[c].status \in {"active", "rotated"}
  BY <1>0, <1>1 DEF RotationOK, CallType
<1>4. rows[p] \in TokenRecord /\ p \in granted /\ Present(p)
  BY <1>0, <1>2, <1>3, RecordStatus DEF SqlType, TableOK, Present
<1>5. /\ rows[p].familyId = f /\ rows[p].generation = g
      /\ rows[p].familyExpiresAt = rec[c].familyExpiresAt
  BY <1>0, <1>2, <1>4 DEF KnownOK
<1>6. RotatedAt(rec[c], at[c]) \in Nat /\ RotatedAt(rec[c], at[c]) # None
  <2>1. None \notin Nat
    BY DistinctAssumption
  <2> QED BY <1>0, <1>2, <2>1 DEF RotatedAt, KnownOK, Linked, SqlType, TokenRecord
<1>7. rows'[p] = [rows[p] EXCEPT !.status = "rotated", !.rotatedAt = RotatedAt(rec[c], at[c]),
                                 !.replacedBySelector = x]
  BY <1>0, <1>1, <1>2 DEF RotationOK, Seen
<1>8. /\ rows'[p].status = "rotated" /\ rows'[p].replacedBySelector = x
      /\ rows'[p].rotatedAt # None
      /\ rows'[p].familyId = f /\ rows'[p].generation = g
      /\ rows'[p].familyExpiresAt = rec[c].familyExpiresAt
  BY <1>4, <1>5, <1>6, <1>7 DEF TokenRecord
<1>9. /\ x \in minted \ granted /\ ~ Present(x)
      /\ rows'[x].status = "active" /\ rows'[x].replacedBySelector = None
      /\ rows'[x].familyId = f /\ rows'[x].generation = g + 1
      /\ rows'[x].familyExpiresAt = rec[c].familyExpiresAt
  BY <1>0, <1>1, <1>2 DEF RotationOK, Seen
<1>10. Retry(c) <=> rec[c].status = "rotated"
  BY <1>1 DEF Retry
<1>11. ASSUME Retry(c), NEW n, n = rec[c].replacedBySelector
       PROVE  /\ n \in Selectors \ {p, x} /\ IsActive(n) /\ n \in granted /\ rows[n] \in TokenRecord
              /\ rows[n].familyId = f /\ rows[n].generation = g + 1 /\ Holds(c, n)
  <2>1. n \in Selectors /\ n \in granted /\ n # p /\ n # x /\ IsActive(n) /\ Holds(c, n)
    BY <1>0, <1>2, <1>9, <1>11 DEF RotationOK
  <2>2. Heir(n, rec[c]) /\ Present(n) /\ rows[n] \in TokenRecord
    BY <1>0, <1>2, <1>10, <1>11, <2>1, RecordStatus DEF KnownOK, Linked, IsActive, Present, SqlType
  <2> QED BY <2>1, <2>2 DEF Heir
<1>12. ASSUME NEW s \in Selectors \ {p, x}
       PROVE  \/ rows'[s] = rows[s] /\ ~ (Retry(c) /\ s = rec[c].replacedBySelector)
              \/ /\ Retry(c) /\ s = rec[c].replacedBySelector
                 /\ rows'[s] = Revoked(rows[s])
  BY <1>1, <1>11, CommitRows
<1> QED BY <1>2, <1>3, <1>4, <1>5, <1>8, <1>9, <1>10, <1>11, <1>12

\* COMMIT of a rotation.
LEMMA CommitRotation ==
  ASSUME SqlInv, NEW c \in Calls, Commit(c), stmt[c] = None, Marked(c)
  PROVE  SqlInv'
<1>0. SqlType /\ TableOK /\ CallType(c) /\ KnownOK(c) /\ RotationOK(c)
  BY DEF SqlInv, CallOK
<1>1. /\ pc[c] = "commit" /\ pc[c] \in Inside /\ Ended(c) /\ SqlType'
      /\ UNCHANGED <<clock, minted, charter, dead, settled>>
      /\ granted' = granted \cup {nxt[c]}
      /\ \A s \in Selectors : rows'[s] = Seen(c, s)
      /\ (\A s \in settled : ~ Pending(s)) /\ (Steady => CommittedRevoked')
  BY CommitRefresh DEF Inside
<1>2. PICK p, x, g, f, n : p = arg[c].selector /\ x = nxt[c] /\ g = rec[c].generation
                           /\ f = rec[c].familyId /\ n = rec[c].replacedBySelector
  OBVIOUS
<1>3. /\ p \in granted /\ x \in Selectors /\ x \in minted \ granted /\ ~ Present(x)
      /\ g \in Nat /\ f \in Families
      /\ rows[p] \in TokenRecord /\ rows[p].status \in {"active", "rotated"}
      /\ rows[p].status = "active" => ~ Retry(c)
      /\ rows[p].familyId = f /\ rows[p].generation = g
      /\ ~ Retry(c) => rows[p].status = "active"
  BY <1>2, RotationRows
<1>4. /\ rows'[p].status = "rotated" /\ rows'[p].replacedBySelector = x
      /\ rows'[p].rotatedAt # None
      /\ rows'[p].familyId = f /\ rows'[p].generation = g
      /\ rows'[p].familyExpiresAt = rows'[x].familyExpiresAt
      /\ rows'[x].status = "active" /\ rows'[x].replacedBySelector = None
      /\ rows'[x].familyId = f /\ rows'[x].generation = g + 1
  BY <1>2, RotationRows
<1>5. /\ \A s \in Selectors \ {p, x} :
           \/ rows'[s] = rows[s] /\ ~ (Retry(c) /\ s = n)
           \/ /\ Retry(c) /\ s = n
              /\ IsActive(s) /\ s \in granted /\ rows[s] \in TokenRecord
              /\ rows[s].familyId = f /\ rows[s].generation = g + 1
              /\ rows'[s] = Revoked(rows[s])
      /\ Retry(c) => n \in Selectors \ {p, x}
  BY <1>2, RotationRows
<1>6. p \in Selectors /\ p # x /\ granted' = granted \cup {x} /\ granted \subseteq Selectors
  BY <1>0, <1>1, <1>2, <1>3 DEF SqlType
<1>7. ASSUME Steady PROVE TableOK'
  <2>1. \A s \in Selectors \ {p, x} : rows'[s].status \in {"active", "rotated"} => rows'[s] = rows[s]
    BY <1>5 DEF Revoked, TokenRecord
  <2>2. ASSUME NEW s \in Selectors \ {p, x}, Present(s)'
        PROVE  /\ Present(s) /\ s \in minted /\ Linked(rows[s])'
               /\ rows'[s].replacedBySelector = rows[s].replacedBySelector
               /\ rows[s].replacedBySelector # None => rows[s].replacedBySelector \in granted
    <3>1. Present(s) /\ (rows'[s] = rows[s] \/ rows'[s] = Revoked(rows[s]))
      BY <1>5, <2>2 DEF Present, IsActive
    <3> QED BY <1>0, <1>7, <2>2, <3>1, LinksKept DEF TableOK, Linked
  <2>3. Linked(rows[p])' /\ Linked(rows[x])'
    <3>1. x \in granted'
      BY <1>6
    <3>2. Heir(x, rows[p])'
      BY <1>4 DEF Heir
    <3>3. Linked(rows[x])'
      BY <1>4 DEF Linked
    <3>4. rows'[p].replacedBySelector \in granted' /\ Heir(rows[p].replacedBySelector, rows[p])'
      BY <1>4, <3>1, <3>2 DEF Heir, Present
    <3>5. x # None
      BY <1>3, DistinctAssumption
    <3> QED BY <1>4, <3>3, <3>4, <3>5 DEF Linked
  <2>4. \A s \in Selectors : Present(s)' => s \in minted' /\ Linked(rows[s])'
    BY <1>0, <1>1, <1>3, <2>2, <2>3 DEF SqlType
  <2>5. \A s \in Selectors : rows'[s].status \in {"active", "rotated"} => s \in granted'
    BY <1>0, <1>3, <1>6, <2>1 DEF TableOK
  <2>6. \A s, t \in Selectors :
          Present(s)' /\ Present(t)' /\ rows'[s].replacedBySelector # None
          /\ rows'[s].replacedBySelector = rows'[t].replacedBySelector => s = t
    BY <1>0, <1>3, <1>4, <1>6, <2>2 DEF TableOK
  <2>7. \A s \in granted \ {p} : rows[s].status \in {"active", "rotated"} /\ rows[s].familyId = f
           => /\ rows[s].generation \in Nat /\ rows[s].generation <= g + 1
              /\ ~ (Retry(c) /\ s = n) => rows[s].generation <= g /\ rows[s].status # "active"
    <3>1. SUFFICES ASSUME NEW s \in granted \ {p}, rows[s].status \in {"active", "rotated"},
                          rows[s].familyId = f
                   PROVE  /\ rows[s].generation \in Nat /\ rows[s].generation <= g + 1
                          /\ ~ (Retry(c) /\ s = n) => rows[s].generation <= g /\ rows[s].status # "active"
      OBVIOUS
    <3>2. rows[s] \in TokenRecord /\ rows[s].generation \in Nat /\ s \in Lineage(f)
      BY <1>0, <1>6, <3>1, RecordStatus DEF SqlType, TokenRecord, Lineage
    <3>3. CASE ~ Retry(c)
      <4>1. p \in Heads(f) /\ p \in Lineage(f) /\ IsActive(p)
        BY <1>3, <3>3 DEF Heads, Lineage, IsActive
      <4>2. rows[s].generation <= g
        BY <1>0, <1>3, <3>2, <4>1 DEF TableOK, LinearLineage
      <4>3. rows[s].status # "active"
        BY <1>0, <1>3, <3>1, <4>1 DEF TableOK, NoFork, Heads, IsActive
      <4> QED BY <1>3, <3>2, <4>2, <4>3
    <3>4. CASE Retry(c)
      <4>1. n \in Heads(f) /\ n \in Lineage(f) /\ IsActive(n) /\ rows[n].generation = g + 1
        BY <1>4, <1>5, <3>4 DEF Heads, Lineage, IsActive, Revoked, TokenRecord
      <4>2. rows[s].generation <= g + 1 /\ (rows[s].generation = g + 1 => s = n)
        BY <1>0, <1>3, <3>2, <4>1 DEF TableOK, LinearLineage
      <4>3. s # n => rows[s].status # "active"
        BY <1>0, <1>3, <3>1, <4>1 DEF TableOK, NoFork, Heads, IsActive
      <4> QED BY <1>3, <3>2, <3>4, <4>2, <4>3
    <3> QED BY <3>3, <3>4
  <2>8. \A h : h # f => /\ Heads(h)' = Heads(h) /\ Lineage(h)' = Lineage(h)
                        /\ \A s \in Lineage(h) : rows'[s] = rows[s]
    BY <1>3, <1>4, <1>5, <1>6, <2>1 DEF Heads, Lineage, IsActive
  <2>9. \A s \in Lineage(f)' : \/ s = x
                               \/ s = p
                               \/ /\ rows'[s] = rows[s] /\ s \in Lineage(f)
                                  /\ rows[s].generation \in Nat /\ rows[s].generation <= g
                                  /\ rows[s].status # "active"
    <3>1. SUFFICES ASSUME NEW s \in Lineage(f)', s # x, s # p
                   PROVE  /\ rows'[s] = rows[s] /\ s \in Lineage(f)
                          /\ rows[s].generation \in Nat /\ rows[s].generation <= g
                          /\ rows[s].status # "active"
      OBVIOUS
    <3>2. s \in granted \ {p} /\ s \in Selectors \ {p, x} /\ rows'[s] = rows[s]
          /\ rows[s].status \in {"active", "rotated"} /\ rows[s].familyId = f
      BY <1>6, <2>1, <3>1 DEF Lineage
    <3>3. ~ (Retry(c) /\ s = n)
      BY <1>5, <3>2 DEF Revoked, TokenRecord
    <3> QED BY <2>7, <3>2, <3>3 DEF Lineage
  <2>10. NoFork'
    <3>1. \A s \in Heads(f)' : s = x
      BY <1>4, <1>6, <2>9 DEF Heads, Lineage, IsActive
    <3> QED BY <1>0, <2>8, <3>1 DEF TableOK, NoFork
  <2>11. LinearLineage'
    <3>1. ASSUME NEW s \in Lineage(f)', NEW t \in Lineage(f)'
          PROVE  /\ rows'[s].generation = rows'[t].generation => s = t
                 /\ IsActive(s)' => rows'[t].generation <= rows'[s].generation
      <4>1. \A v \in Lineage(f)' : v \in {x, p} \/ rows'[v].generation # g
        <5>1. p \in Lineage(f)
          BY <1>3 DEF Lineage
        <5> QED BY <1>0, <1>3, <2>9, <5>1 DEF TableOK, LinearLineage
      <4>2. s \in {x, p} \/ (rows'[s] = rows[s] /\ s \in Lineage(f) /\ rows'[s].generation <= g
                             /\ rows'[s].generation \in Nat /\ rows'[s].status # "active")
        BY <2>9
      <4>3. t \in {x, p} \/ (rows'[t] = rows[t] /\ t \in Lineage(f) /\ rows'[t].generation <= g
                             /\ rows'[t].generation \in Nat)
        BY <2>9
      <4>4. rows'[s].generation = rows'[t].generation => s = t
        BY <1>0, <1>3, <1>4, <3>1, <4>1, <4>2, <4>3 DEF TableOK, LinearLineage
      <4>5. IsActive(s)' => rows'[t].generation <= rows'[s].generation
        BY <1>3, <1>4, <4>2, <4>3 DEF IsActive
      <4> QED BY <4>4, <4>5
    <3>2. ASSUME NEW h \in Families, h # f, NEW s \in Lineage(h)', NEW t \in Lineage(h)'
          PROVE  /\ rows'[s].generation = rows'[t].generation => s = t
                 /\ IsActive(s)' => rows'[t].generation <= rows'[s].generation
      <4>1. s \in Lineage(h) /\ t \in Lineage(h) /\ rows'[s] = rows[s] /\ rows'[t] = rows[t]
        BY <2>8, <3>2
      <4> QED BY <1>0, <4>1 DEF TableOK, LinearLineage, IsActive
    <3> QED BY <3>1, <3>2 DEF LinearLineage
  <2>12. SuccessorIntact'
    <3>1. SUFFICES ASSUME NEW s \in granted', rows'[s].status = "rotated", rows'[s].familyId \notin dead'
                   PROVE  rows'[rows'[s].replacedBySelector].status \in {"active", "rotated"}
      BY DEF SuccessorIntact
    <3>2. CASE s = p
      BY <1>4, <3>2
    <3>3. CASE s # p
      <4>1. s \in granted /\ s \in Selectors \ {p, x} /\ rows'[s] = rows[s]
        BY <1>4, <1>6, <2>1, <3>1, <3>3
      <4>2. PICK q \in Selectors : q = rows[s].replacedBySelector /\ q \in granted
        BY <1>0, <3>1, <4>1 DEF TableOK, Linked, Present, SqlType
      <4>3. rows[q].status \in {"active", "rotated"}
        BY <1>0, <1>1, <3>1, <4>1, <4>2 DEF TableOK, SuccessorIntact
      <4>4. ~ (Retry(c) /\ q = n)
        <5>1. SUFFICES ASSUME Retry(c), q = n PROVE FALSE
          OBVIOUS
        <5>2. n # None /\ rec[c] # NoRow
          BY <1>0, <1>1, <1>2, <5>1, ThreeRows DEF KnownOK, Linked, Retry
        <5> QED BY <1>0, <1>2, <3>1, <3>3, <4>1, <4>2, <5>1, <5>2 DEF KnownOK, Present
      <4> QED BY <1>3, <1>4, <1>5, <4>1, <4>2, <4>3, <4>4
    <3> QED BY <3>2, <3>3
  <2> QED BY <2>4, <2>5, <2>6, <2>10, <2>11, <2>12 DEF TableOK
<1>8. granted \subseteq granted' /\ \A s \in granted' \ granted : Holds(c, s)
  BY <1>0, <1>1 DEF RotationOK
<1> QED BY <1>1, <1>7, <1>8, CommitFrame


-----------------------------------------------------------------------------
(* The theorems.                                                            *)

LEMMA SqlStep == SqlInv /\ [SqlNext]_sqlVars => SqlInv'
<1> SUFFICES ASSUME SqlInv, [SqlNext]_sqlVars PROVE SqlInv'
  OBVIOUS
<1>1. SqlType
  BY DEF SqlInv
<1>2. CASE UNCHANGED sqlVars
  BY <1>1, <1>2, IdleStep DEF sqlVars, vars, storeVars, SqlType
<1>3. CASE Tick /\ UNCHANGED <<writes, stmt, settled>>
  BY <1>1, <1>3, IdleStep DEF Tick, SqlType
<1>4. ASSUME NEW c \in Calls, ReadingStep(c) PROVE SqlInv'
  BY <1>4, SqlBeginIssue, SqlIssueInsert, ReadingSteps DEF ReadingStep
<1>5. ASSUME NEW c \in Calls, SqlConsume(c) \/ SqlInsert(c) \/ SqlMarkRotated(c) \/ SqlCompensate(c)
      PROVE  SqlInv'
  BY <1>5, ConsumeStep, InsertStep, MarkStep, CompensateStep
<1>6. ASSUME NEW c \in Calls, StartRevokeFamily(c) PROVE SqlInv'
  <2>1. ByFamily(rec[c].familyId) \in Predicate
    BY <1>6 DEF SqlInv, CallOK, CallType, StartRevokeFamily, ByFamily, Predicate, TokenRecord
  <2> QED BY <1>6, <2>1, StartStep DEF StartRevokeFamily
<1>7. ASSUME NEW c \in Calls, NEW by \in Predicate, StartAdmin(c, by) PROVE SqlInv'
  BY <1>7, StartStep DEF StartAdmin
<1>8. /\ \A f \in Families : ByFamily(f) \in Predicate
      /\ \A u \in Users : ByUser(u) \in Predicate
      /\ ByTime(clock) \in Predicate
  BY <1>1 DEF ByFamily, ByUser, ByTime, Predicate, SqlType
<1>9. ASSUME NEW c \in Calls, StatementRow(c) PROVE SqlInv'
  BY <1>9, RowStep
<1>10. ASSUME NEW c \in Calls, Commit(c) PROVE SqlInv'
  BY <1>10, CommitStatement, CommitConflict, CommitRotation
<1>11. ASSUME NEW c \in Calls, SqlAbort(c) \/ DeadlockVictim(c) PROVE SqlInv'
  BY <1>11, RollbackStep DEF SqlAbort, DeadlockVictim
<1> QED BY <1>2, <1>3, <1>4, <1>5, <1>6, <1>7, <1>8, <1>9, <1>10, <1>11 DEF SqlNext

\* The inductive invariant holds in every state of the engine over the
\* transactional store of postgres-store.ts.
THEOREM SqlCorrect == SqlSpec => []SqlInv
  BY SqlStart, SqlStep, PTL DEF SqlSpec

\* No fork over PostgreSQL at READ COMMITTED: two refreshes of one token, or a
\* refresh and a grace retry, never both commit, although neither sees what the
\* other has written (the compare-and-set of markRotated and revokeIfActive).
THEOREM SqlNoFork == SqlSpec => []NoFork
<1>1. SqlInv => NoFork
  BY DEF SqlInv, TableOK
<1> QED BY <1>1, SqlCorrect, PTL

\* Over PostgreSQL, too, the generations of a family form one line whose newest
\* token is the one that can be exchanged.
THEOREM SqlLinear == SqlSpec => []LinearLineage
<1>1. SqlInv => LinearLineage
  BY DEF SqlInv, TableOK
<1> QED BY <1>1, SqlCorrect, PTL

\* BEGIN, one engine call, COMMIT: whenever the process dies, the table holds
\* no exchangeable row whose token nobody was handed.
THEOREM SqlNoOrphan == SqlSpec => []NoOrphanCommitted
<1>1. SqlInv => NoOrphanCommitted
  BY DEF SqlInv, TableOK, NoOrphanCommitted, IsActive
<1> QED BY <1>1, SqlCorrect, PTL

\* A grace retry that dies, loses or is rolled back as a deadlock victim leaves
\* the successor it wanted to replace as it was.
THEOREM SqlSuccessor == SqlSpec => []SuccessorIntact
<1>1. SqlInv => SuccessorIntact
  BY DEF SqlInv, TableOK
<1> QED BY <1>1, SqlCorrect, PTL

\* Once revokeFamily or revokeAllForUser has committed, every row its UPDATE
\* found at its start stays revoked, whatever transactions it had to wait for.
THEOREM SqlRevocation == SqlSpec => []CommittedRevoked
<1>1. SqlInv => CommittedRevoked
  BY DEF SqlInv, SettledOK
<1> QED BY <1>1, SqlCorrect, PTL


-----------------------------------------------------------------------------
(* The committed table implements the family ledger.                        *)

Head   == [f \in Families |-> Heads(f)]
Credit == {f \in Families : Opening(f)}

\* f gets the token n and no other family's changes.
Granted(f, n) ==
  /\ n \in Selectors \ granted /\ granted' = granted \cup {n}
  /\ Heads(f)' = {n}
  /\ \A g \in Families \ {f} : Heads(g)' = Heads(g)

LEMMA GrantStep ==
  ASSUME NEW f \in Families, NEW n, Granted(f, n)
  PROVE  Ledger!Grant(f)
<1>1. Head' = [Head EXCEPT ![f] = {n}]
  BY DEF Head, Granted
<1> QED BY <1>1 DEF Head, Granted, Ledger!Grant

LEMMA OpenStep ==
  ASSUME NEW f \in Families, NEW n, Granted(f, n), Opening(f), Heads(f) = {},
         Credit' = Credit \ {f}
  PROVE  Ledger!LedgerNext
  BY GrantStep DEF Head, Credit, Ledger!Open, Ledger!LedgerNext

LEMMA ExchangeStep ==
  ASSUME NEW f \in Families, NEW n, Granted(f, n), Heads(f) # {}, Credit' = Credit
  PROVE  Ledger!LedgerNext
  BY GrantStep DEF Head, Credit, Ledger!Exchange, Ledger!LedgerNext

\* A family has one head, so it keeps it or loses it.
LEMMA LapseStep ==
  ASSUME NoFork, \A f \in Families : Heads(f)' \subseteq Heads(f),
         granted' = granted, Credit' = Credit
  PROVE  Ledger!LedgerNext
<1> DEFINE F == {f \in Families : Heads(f)' = {}}
<1>1. \A f \in Families : Heads(f)' = IF f \in F THEN {} ELSE Heads(f)
  BY DEF NoFork
<1>2. F \in SUBSET Families
  OBVIOUS
<1> HIDE DEF F
<1>3. Head' = [f \in Families |-> IF f \in F THEN {} ELSE Head[f]]
  BY <1>1 DEF Head
<1>4. Head' = Ledger!Emptied(F)
  BY <1>3 DEF Head, Ledger!Emptied
<1> QED BY <1>2, <1>4 DEF Head, Credit, Ledger!Lapse, Ledger!LedgerNext

-----------------------------------------------------------------------------
(* Who may still open a family.                                             *)

LEMMA SameCredit ==
  ASSUME charter' = charter, NEW c \in Calls, \A d \in Calls \ {c} : Stays(d),
         pc[c] # "issue", pc'[c] # "issue"
  PROVE  Credit' = Credit
  BY DEF Credit, Opening, Stays

\* A call that is no login takes a step of its own and commits nothing.
LEMMA LocalLedger ==
  ASSUME SqlInv, NEW c \in Calls, \A d \in Calls \ {c} : Stays(d),
         pc[c] # "issue", pc'[c] # "issue", UNCHANGED <<rows, granted, charter>>
  PROVE  Ledger!LedgerNext
<1>1. \A f \in Families : Heads(f)' \subseteq Heads(f)
  BY DEF Heads, IsActive
<1> QED BY <1>1, SameCredit, LapseStep DEF SqlInv, TableOK

\* Drawing the family id of a login spends nothing yet.
LEMMA SqlBeginLedger ==
  ASSUME SqlInv, NEW c \in Calls, NEW a \in IssueArg, BeginIssue(c, a), UNCHANGED <<writes, stmt>>
  PROVE  Ledger!LedgerNext
<1>0. SqlType
  BY DEF SqlInv
<1>1. /\ pc[c] = "idle" /\ pc'[c] = "issue" /\ arg'[c] = a /\ a.familyId \in Families
      /\ charter[a.familyId] = None
      /\ \A f \in Families \ {a.familyId} : charter'[f] = charter[f]
      /\ UNCHANGED <<rows, granted>>
      /\ \A d \in Calls \ {c} : Stays(d)
  BY <1>0 DEF BeginIssue, Begin, GoTo, SqlType, Stays, IssueArg, storeVars
<1>2. \A f \in Families : Opening(f)' <=> Opening(f)
  <2>1. \A d \in Calls \ {c} : pc'[d] = pc[d] /\ arg'[d] = arg[d]
    BY <1>1 DEF Stays
  <2> QED BY <1>1, <2>1 DEF Opening
<1>3. Credit' = Credit
  BY <1>2 DEF Credit
<1>4. \A f \in Families : Heads(f)' \subseteq Heads(f)
  BY <1>1 DEF Heads, IsActive
<1> QED BY <1>1, <1>3, <1>4, LapseStep DEF SqlInv, TableOK

\* The login's INSERT opens the family.
LEMMA SqlIssueLedger ==
  ASSUME SqlInv, NEW c \in Calls, IssueInsert(c), UNCHANGED <<writes, stmt>>
  PROVE  Ledger!LedgerNext
<1>0. SqlType /\ pc[c] = "issue" /\ arg[c] \in IssueArg
  BY DEF SqlInv, CallOK, CallType, IssueInsert
<1>1. PICK f \in Families : f = arg[c].familyId
  BY <1>0 DEF IssueArg
<1>2. PICK s \in Fresh : \E r : /\ rows' = [rows EXCEPT ![s] = r]
                              /\ r.status = "active" /\ r.familyId = f
                              /\ granted' = granted \cup {s}
  <2>0. PICK h : h = IF arg[c].deviceId = None THEN None
                     ELSE Hmac(ActiveKid[arg[c].engine], arg[c].deviceId)
    OBVIOUS
  <2>1. PICK s \in Fresh : /\ Insert(s, Mint(arg[c].engine, s, arg[c].familyId, 0, arg[c].userId, h,
                                             at[c] + AbsoluteTtl, at[c]))
                          /\ granted' = granted \cup {s}
    BY <2>0 DEF IssueInsert
  <2>2. PICK r : r = Mint(arg[c].engine, s, arg[c].familyId, 0, arg[c].userId, h,
                          at[c] + AbsoluteTtl, at[c])
    OBVIOUS
  <2>3. r.status = "active" /\ r.familyId = f
    BY <1>1, <2>2 DEF Mint
  <2> QED BY <2>1, <2>2, <2>3 DEF Insert
<1>3. rows'[s].status = "active" /\ rows'[s].familyId = f /\ granted' = granted \cup {s}
  BY <1>0, <1>2 DEF SqlType, Fresh
<1>4. s \in Selectors \ granted
  BY <1>0 DEF Fresh, SqlType
<1>5. \A t \in Selectors \ {s} : rows'[t] = rows[t]
  BY <1>0, <1>2, <1>4 DEF SqlType
<1>6. Unused(f) /\ charter[f] # None /\ \A d \in Calls \ {c} : pc[d] = "issue" => arg[d].familyId # f
  BY <1>0, <1>1 DEF SqlInv, FamiliesOK
<1>7. charter' = charter /\ pc'[c] = "idle" /\ \A d \in Calls \ {c} : pc'[d] = pc[d] /\ arg'[d] = arg[d]
  BY <1>0 DEF IssueInsert, Return, SqlType
<1>8. granted \subseteq Selectors
  BY <1>0 DEF SqlType
<1>9. Heads(f) = {} /\ Heads(f)' = {s}
  <2>1. \A t \in granted : ~ (IsActive(t) /\ rows[t].familyId = f)
    BY <1>6, <1>8 DEF Unused, Present, IsActive
  <2> QED BY <1>3, <1>4, <1>5, <1>8, <2>1 DEF Heads, IsActive
<1>10. \A g \in Families \ {f} : Heads(g)' = Heads(g)
  BY <1>3, <1>4, <1>5, <1>8 DEF Heads, IsActive
<1>11. Opening(f) /\ Credit' = Credit \ {f}
  <2>1. Opening(f) /\ ~ Opening(f)'
    BY <1>0, <1>1, <1>6, <1>7 DEF Opening
  <2>2. \A g \in Families \ {f} : Opening(g)' <=> Opening(g)
    BY <1>0, <1>1, <1>7 DEF Opening
  <2> QED BY <2>1, <2>2 DEF Credit
<1>12. Granted(f, s)
  BY <1>3, <1>4, <1>9, <1>10 DEF Granted
<1> QED BY <1>9, <1>11, <1>12, OpenStep

\* COMMIT: a rotation exchanges the head of its family, and every other
\* transaction leaves a head or takes it.
LEMMA CommitLedger ==
  ASSUME SqlInv, NEW c \in Calls, Commit(c)
  PROVE  Ledger!LedgerNext
<1>0. SqlType /\ TableOK /\ CallType(c) /\ NoFork
  BY DEF SqlInv, CallOK, TableOK
<1>1. \A s \in Selectors : rows'[s] = Seen(c, s)
  BY DEF Commit
<1>2. pc[c] # "issue" /\ charter' = charter /\ Ended(c)
  <2>1. \/ \E code : Return(c, code)
        \/ pc[c] = "idle" /\ UNCHANGED callVars
    BY DEF Commit
  <2>2. EndTransaction(c) /\ charter' = charter
    BY DEF Commit
  <2>3. pc[c] # "issue"
    BY <1>0 DEF Commit, CallType
  <2> QED BY <2>1, <2>2, <2>3, TransactionEnds
<1>3. Credit' = Credit
  BY <1>2, SameCredit DEF Ended
<1>4. ASSUME granted' = granted,
             \A s \in granted : rows'[s].status = "active" => rows'[s] = rows[s]
      PROVE  Ledger!LedgerNext
  <2>1. \A f \in Families : Heads(f)' \subseteq Heads(f)
    BY <1>4 DEF Heads, IsActive
  <2> QED BY <1>0, <1>3, <1>4, <2>1, LapseStep
<1>5. \A s \in Selectors : Present(s) => rows[s] \in TokenRecord
  BY <1>0, RecordStatus DEF SqlType, Present
<1>6. CASE stmt[c] # None
  <2>1. granted' = granted
    BY <1>6 DEF Commit
  <2>2. ASSUME NEW s \in granted, rows'[s].status = "active" PROVE rows'[s] = rows[s]
    <3>1. s \in Selectors
      BY <1>0 DEF SqlType
    <3>2. rows'[s] = rows[s] \/ (Present(s) /\ rows'[s] = Effect(rows[s], stmt[c].by))
      BY <1>1, <1>6, <3>1, CommitRows
    <3> QED BY <1>5, <2>2, <3>1, <3>2, RecordStatus DEF Effect, Revoked, TokenRecord
  <2> QED BY <1>4, <2>1, <2>2
<1>7. CASE stmt[c] = None /\ ~ Marked(c)
  <2>1. granted' = granted /\ pc[c] = "commit"
    BY <1>7, CommitRefresh
  <2>2. RotationOK(c)
    BY DEF SqlInv, CallOK
  <2>3. ASSUME NEW s \in granted, rows'[s].status = "active" PROVE rows'[s] = rows[s]
    <3>1. s \in Selectors
      BY <1>0 DEF SqlType
    <3>2. \/ rows'[s] = rows[s]
          \/ IsActive(s) /\ rows'[s] = Revoked(rows[s])
          \/ New(c) /\ s = nxt[c]
      BY <1>1, <1>7, <3>1, CommitRows
    <3>3. ~ (New(c) /\ s = nxt[c])
      BY <2>2, <2>3 DEF RotationOK
    <3> QED BY <1>5, <2>3, <3>1, <3>2, <3>3 DEF Revoked, TokenRecord, IsActive, Present
  <2> QED BY <1>4, <2>1, <2>3
<1>8. CASE stmt[c] = None /\ Marked(c)
  <2>1. PICK p, x, f, n : p = arg[c].selector /\ x = nxt[c] /\ f = rec[c].familyId
                          /\ n = rec[c].replacedBySelector
    OBVIOUS
  <2>2. /\ p \in granted /\ x \in Selectors /\ x \in minted \ granted /\ f \in Families
        /\ rows[p].familyId = f /\ rows'[p].status = "rotated"
        /\ rows'[x].status = "active" /\ rows'[x].familyId = f
        /\ ~ Retry(c) => rows[p].status = "active"
    BY <1>8, <2>1, RotationRows
  <2>3. /\ \A s \in Selectors \ {p, x} :
             \/ rows'[s] = rows[s]
             \/ IsActive(s) /\ rows[s].familyId = f /\ rows'[s] = Revoked(rows[s])
        /\ Retry(c) => n \in Selectors \ {p, x}
    BY <1>8, <2>1, RotationRows
  <2>4. Retry(c) => n \in granted /\ IsActive(n) /\ rows[n].familyId = f
    <3>1. Retry(c) => \/ rows'[n] = rows[n] /\ ~ (Retry(c) /\ n = rec[c].replacedBySelector)
                      \/ n \in granted /\ IsActive(n) /\ rows[n].familyId = f
      BY <1>8, <2>1, <2>3, RotationRows
    <3> QED BY <2>1, <3>1
  <2>5. Heads(f) # {}
    BY <2>2, <2>4 DEF Heads, IsActive
  <2>6. granted' = granted \cup {x} /\ granted \subseteq Selectors
    BY <1>0, <1>8, <2>1, CommitRefresh DEF SqlType
  <2>7. Heads(f)' = {x}
    <3>1. x \in Heads(f)'
      BY <2>2, <2>6 DEF Heads, IsActive
    <3>2. NoFork'
      BY <1>8, CommitRotation DEF SqlInv, TableOK
    <3> QED BY <2>2, <3>1, <3>2 DEF NoFork
  <2>8. ASSUME NEW g \in Families \ {f} PROVE Heads(g)' = Heads(g)
    <3>1. x \notin Heads(g)' /\ p \notin Heads(g) /\ p \notin Heads(g)'
      BY <2>2, <2>8 DEF Heads, IsActive
    <3>2. ASSUME NEW s \in granted \ {p} PROVE s \in Heads(g)' <=> s \in Heads(g)
      <4>1. s \in Selectors \ {p, x}
        BY <2>2, <2>6
      <4>2. CASE rows'[s] = rows[s]
        BY <2>6, <4>2 DEF Heads, IsActive
      <4>3. CASE IsActive(s) /\ rows[s].familyId = f /\ rows'[s] = Revoked(rows[s])
        <5>1. rows'[s].status = "revoked"
          BY <1>5, <4>1, <4>3 DEF IsActive, Present, Revoked, TokenRecord
        <5> QED BY <2>8, <4>3, <5>1 DEF Heads, IsActive
      <4> QED BY <2>3, <4>1, <4>2, <4>3
    <3> QED BY <2>6, <3>1, <3>2 DEF Heads
  <2>9. Granted(f, x)
    BY <2>2, <2>6, <2>7, <2>8 DEF Granted
  <2> QED BY <1>3, <2>2, <2>5, <2>9, ExchangeStep
<1> QED BY <1>6, <1>7, <1>8

LEMMA SqlLedgerStep == SqlInv /\ [SqlNext]_sqlVars => [Ledger!LedgerNext]_(Ledger!ledgerVars)
<1> SUFFICES ASSUME SqlInv, [SqlNext]_sqlVars PROVE Ledger!LedgerNext
  OBVIOUS
<1>0. SqlType /\ NoFork
  BY DEF SqlInv, TableOK
<1>1. ASSUME UNCHANGED <<rows, callVars, granted, charter>> PROVE Ledger!LedgerNext
  <2>1. Credit' = Credit
    BY <1>1 DEF Credit, Opening, callVars
  <2>2. \A f \in Families : Heads(f)' \subseteq Heads(f)
    BY <1>1 DEF Heads, IsActive
  <2> QED BY <1>0, <1>1, <2>1, <2>2, LapseStep
<1>2. CASE UNCHANGED sqlVars \/ Tick
  BY <1>1, <1>2 DEF sqlVars, vars, storeVars, historyVars, Tick
<1>3. ASSUME NEW c \in Calls, ReadingStep(c) PROVE Ledger!LedgerNext
  <2>1. stmt[c] = None /\ UNCHANGED <<writes, stmt>>
    BY <1>3 DEF ReadingStep
  <2>2. CASE \E a \in IssueArg : BeginIssue(c, a)
    BY <2>1, <2>2, SqlBeginLedger
  <2>3. CASE IssueInsert(c)
    BY <2>1, <2>3, SqlIssueLedger
  <2>4. CASE \/ \E a \in PresentArg, kid \in Kids : BeginPresent(c, a, kid)
             \/ Find(c) \/ RefuseUnproved(c) \/ CheckRevokeToken(c)
             \/ CheckRotated(c) \/ CheckRevoked(c) \/ CheckActive(c) \/ FindSuccessor(c)
    <3>1. UNCHANGED <<rows, granted, charter>>
      BY <2>4 DEF BeginPresent, Begin, Find, RefuseUnproved, CheckRevokeToken, CheckRotated,
         CheckRevoked, CheckActive, FindSuccessor, storeVars, historyVars
    <3>2. pc[c] # "issue"
      BY <2>4 DEF BeginPresent, Begin, Find, RefuseUnproved, CheckRevokeToken, CheckRotated,
         CheckRevoked, CheckActive, FindSuccessor, Refreshing
    <3>3. pc'[c] # "issue" /\ \A d \in Calls \ {c} : Stays(d)
      <4>1. ASSUME NEW code, Return(c, code) PROVE pc'[c] # "issue" /\ \A d \in Calls \ {c} : Stays(d)
        BY <1>0, <2>1, <4>1 DEF Return, Stays, SqlType
      <4>2. CASE \E a \in PresentArg, kid \in Kids : BeginPresent(c, a, kid)
        BY <1>0, <2>1, <4>1, <4>2 DEF BeginPresent, Begin, GoTo, Stays, SqlType
      <4>3. CASE Find(c)
        BY <1>0, <2>1, <4>3 DEF Find, GoTo, Stays, SqlType
      <4>4. CASE RefuseUnproved(c) \/ CheckRevoked(c)
        BY <4>1, <4>4 DEF RefuseUnproved, CheckRevoked
      <4>5. CASE CheckRevokeToken(c)
        BY <1>0, <2>1, <4>5 DEF CheckRevokeToken, RevokeThenReturn, GoTo, Stays, SqlType
      <4>6. CASE CheckRotated(c)
        BY <1>0, <2>1, <4>6 DEF CheckRotated, RevokeThenReturn, GoTo, Stays, SqlType
      <4>7. CASE CheckActive(c)
        BY <1>0, <2>1, <4>7 DEF CheckActive, RevokeThenReturn, GoTo, Stays, SqlType
      <4>8. CASE FindSuccessor(c)
        BY <1>0, <2>1, <4>8 DEF FindSuccessor, RevokeThenReturn, GoTo, Stays, SqlType
      <4> QED BY <2>4, <4>2, <4>3, <4>4, <4>5, <4>6, <4>7, <4>8
    <3> QED BY <3>1, <3>2, <3>3, LocalLedger
  <2> QED BY <1>3, <2>2, <2>3, <2>4 DEF ReadingStep
<1>4. ASSUME NEW c \in Calls, SqlConsume(c) \/ SqlInsert(c) \/ SqlMarkRotated(c) \/ SqlCompensate(c)
      PROVE  Ledger!LedgerNext
  <2>1. UNCHANGED <<rows, granted, charter>>
    BY <1>4 DEF SqlConsume, SqlInsert, SqlMarkRotated, SqlCompensate, storeVars, historyVars
  <2>2. pc[c] # "issue" /\ pc'[c] # "issue" /\ \A d \in Calls \ {c} : Stays(d)
    <3>1. CASE SqlConsume(c)
      BY <1>0, <3>1 DEF SqlConsume, Finish, GoTo, Write, Stays, SqlType
    <3>2. CASE SqlInsert(c)
      BY <1>0, <3>2 DEF SqlInsert, GoTo, Write, Stays, SqlType
    <3>3. CASE SqlMarkRotated(c)
      BY <1>0, <3>3 DEF SqlMarkRotated, Finish, GoTo, Write, Stays, SqlType
    <3>4. CASE SqlCompensate(c)
      BY <1>0, <3>4 DEF SqlCompensate, Finish, GoTo, Write, Stays, SqlType
    <3> QED BY <1>4, <3>1, <3>2, <3>3, <3>4
  <2> QED BY <2>1, <2>2, LocalLedger
<1>5. ASSUME NEW c \in Calls, NEW by, StartStatement(c, by) PROVE Ledger!LedgerNext
  BY <1>1, <1>5 DEF StartStatement, storeVars, historyVars
<1>6. ASSUME NEW c \in Calls, StatementRow(c) PROVE Ledger!LedgerNext
  BY <1>1, <1>6 DEF StatementRow, storeVars, historyVars
<1>7. ASSUME NEW c \in Calls, Rollback(c) PROVE Ledger!LedgerNext
  <2>1. UNCHANGED <<rows, granted, charter>>
    BY <1>7 DEF Rollback, storeVars
  <2>2. pc[c] # "issue"
    BY <1>7 DEF Rollback, InTransaction, SqlInv, CallOK, CallType
  <2>3. Ended(c)
    BY <1>7, TransactionEnds DEF Rollback
  <2> QED BY <2>1, <2>2, <2>3, LocalLedger DEF Ended
<1> QED BY <1>2, <1>3, <1>4, <1>5, <1>6, <1>7, CommitLedger
        DEF SqlNext, StartRevokeFamily, StartAdmin, SqlAbort, DeadlockVictim

\* Over PostgreSQL at READ COMMITTED the committed table keeps the accounts of
\* the family ledger: every COMMIT gives one token for one token or takes one,
\* a grace retry is a single exchange, and a family that has lost its token to
\* a revocation or to the collector is never given another.
THEOREM SqlLedgerTheorem == SqlSpec => SqlLedgerKept
<1>1. SqlInit => Ledger!LedgerInit
  <2> SUFFICES ASSUME SqlInit PROVE Ledger!LedgerInit
    OBVIOUS
  <2>1. \A f \in Families : Heads(f) = {} /\ Opening(f)
    BY DEF SqlInit, Init, Heads, Opening
  <2> QED BY <2>1 DEF SqlInit, Init, Ledger!LedgerInit
<1> QED BY <1>1, SqlCorrect, SqlLedgerStep, PTL DEF SqlSpec, SqlLedgerKept, Ledger!LedgerSpec


-----------------------------------------------------------------------------
(* Evidence.                                                                *)

\* What an open deleteExpired has taken had expired when it started.
TimedOK(c) ==
  stmt[c] # None /\ stmt[c].by.op = "deleteExpired" =>
    /\ stmt[c].by.of <= clock
    /\ \A s \in Selectors : Holds(c, s) => rows[s].familyExpiresAt < stmt[c].by.of

TimedInv == \A c \in Calls : TimedOK(c)

\* A statement that does not move.
LEMMA TimedKept ==
  ASSUME SqlInv, NEW d \in Calls, TimedOK(d), UNCHANGED clock \/ clock' = clock + 1,
         writes'[d] = writes[d], stmt'[d] = stmt[d],
         \A s \in Selectors : Present(s) => rows'[s] = rows[s] \/ ~ Holds(d, s)
  PROVE  TimedOK(d)'
<1>1. CASE stmt[d] # None /\ stmt[d].by.op = "deleteExpired"
  <2>1. stmt[d].by.of \in Nat /\ clock \in Nat
    BY <1>1 DEF SqlInv, SqlType, Statement, Predicate
  <2>2. \A s \in Selectors : Holds(d, s) => rows'[s] = rows[s]
    BY <1>1 DEF SqlInv, CallOK, StatementOK
  <2> QED BY <1>1, <2>1, <2>2 DEF TimedOK, Holds
<1>2. CASE ~ (stmt[d] # None /\ stmt[d].by.op = "deleteExpired")
  BY <1>2 DEF TimedOK
<1> QED BY <1>1, <1>2

\* The table changes at an INSERT of issue and at a COMMIT only.
LEMMA TableSteps ==
  ASSUME SqlInv, [SqlNext]_sqlVars
  PROVE  \/ rows' = rows
         \/ \E c \in Calls : IssueInsert(c) /\ UNCHANGED <<clock, writes, stmt>>
         \/ \E c \in Calls : Commit(c)
<1>1. ASSUME NEW c \in Calls, ReadingStep(c)
      PROVE  rows' = rows \/ (IssueInsert(c) /\ UNCHANGED <<clock, writes, stmt>>)
  BY <1>1 DEF ReadingStep, BeginIssue, BeginPresent, Begin, Find, RefuseUnproved, CheckRevokeToken,
     CheckRotated, CheckRevoked, CheckActive, FindSuccessor, storeVars, IssueInsert
<1> QED BY <1>1 DEF SqlNext, SqlConsume, SqlInsert, SqlMarkRotated, SqlCompensate, StartRevokeFamily,
        StartAdmin, StartStatement, StatementRow, SqlAbort, DeadlockVictim, Rollback, Tick,
        sqlVars, vars, storeVars

LEMMA IssueRows ==
  ASSUME SqlInv, NEW c \in Calls, IssueInsert(c), NEW s \in Selectors, Present(s)
  PROVE  rows'[s] = rows[s]
<1>1. s \in minted
  BY PresentKnown
<1> QED BY <1>1 DEF IssueInsert, Insert, Fresh, SqlInv, SqlType

\* A COMMIT leaves alone what others have locked.
LEMMA CommitLocks ==
  ASSUME SqlInv, NEW c \in Calls, Commit(c), NEW d \in Calls, d # c,
         NEW s \in Selectors, Holds(d, s)
  PROVE  rows'[s] = rows[s]
  BY DEF Commit, Seen, SqlInv, LocksOK

LEMMA TimedStart ==
  ASSUME SqlInv, NEW c \in Calls, NEW by, StartStatement(c, by), pc[c] \in Outside,
         by.op = "deleteExpired" => by = ByTime(clock)
  PROVE  TimedOK(c)'
<1>1. /\ stmt'[c].by = by /\ writes' = writes /\ clock' = clock
      /\ stmt[c] = None
  BY DEF StartStatement, storeVars, SqlInv, SqlType
<1>2. \A s \in Selectors : ~ Holds(c, s)'
  BY <1>1, NoLocks DEF Holds
<1>3. by.op = "deleteExpired" => by.of = clock /\ clock \in Nat
  BY DEF ByTime, SqlInv, SqlType
<1> QED BY <1>1, <1>2, <1>3 DEF TimedOK

LEMMA TimedRow ==
  ASSUME SqlInv, NEW c \in Calls, TimedOK(c), StatementRow(c)
  PROVE  TimedOK(c)'
<1>1. PICK s \in stmt[c].todo :
        /\ IF Hit(Seen(c, s), stmt[c].by)
           THEN Write(c, s, Effect(Seen(c, s), stmt[c].by))
           ELSE UNCHANGED writes
        /\ stmt' = [stmt EXCEPT ![c].todo = @ \ {s}]
  BY DEF StatementRow
<1>2. /\ SqlType /\ StatementOK(c) /\ stmt[c] \in Statement /\ s \in Selectors
      /\ rows' = rows /\ clock' = clock
  BY DEF SqlInv, CallOK, SqlType, Statement, StatementRow, storeVars
<1>3. stmt'[c].by = stmt[c].by
  BY <1>1, <1>2 DEF SqlType, Statement
<1>4. ASSUME stmt[c].by.op = "deleteExpired", NEW t \in Selectors, Holds(c, t)'
      PROVE  rows'[t].familyExpiresAt < stmt[c].by.of
  <2>1. CASE Holds(c, t)
    BY <1>2, <1>4, <2>1 DEF TimedOK, StatementRow
  <2>2. CASE ~ Holds(c, t)
    <3>1. t = s /\ Hit(Seen(c, s), stmt[c].by)
      BY <1>1, <1>2, <1>4, <2>2 DEF Write, Holds, SqlType
    <3>2. Seen(c, s) = rows[s]
      BY <2>2, <3>1 DEF Seen
    <3> QED BY <1>2, <1>4, <3>1, <3>2 DEF Hit, Covers
  <2> QED BY <2>1, <2>2
<1> QED BY <1>2, <1>3, <1>4 DEF TimedOK, StatementRow

LEMMA TimedStep == SqlInv /\ TimedInv /\ [SqlNext]_sqlVars => TimedInv'
<1> SUFFICES ASSUME SqlInv, TimedInv, [SqlNext]_sqlVars, NEW d \in Calls PROVE TimedOK(d)'
  BY DEF TimedInv
<1>0. SqlType /\ TimedOK(d)
  BY DEF SqlInv, TimedInv
<1>1. CASE stmt'[d] = None
  BY <1>1 DEF TimedOK
<1>2. CASE UNCHANGED sqlVars \/ (Tick /\ UNCHANGED <<writes, stmt, settled>>)
  BY <1>0, <1>2, TimedKept DEF sqlVars, vars, storeVars, Tick
<1>3. ASSUME NEW c \in Calls, ReadingStep(c) PROVE TimedOK(d)'
  <2>1. clock' = clock /\ writes' = writes /\ stmt' = stmt
    BY <1>3 DEF ReadingStep, BeginIssue, BeginPresent, Begin, Find, RefuseUnproved, CheckRevokeToken,
       CheckRotated, CheckRevoked, CheckActive, FindSuccessor, storeVars, IssueInsert
  <2>2. CASE rows' = rows
    BY <1>0, <2>1, <2>2, TimedKept
  <2>3. CASE IssueInsert(c)
    BY <1>0, <2>1, <2>3, TimedKept, IssueRows
  <2> QED BY <1>3, <2>2, <2>3 DEF ReadingStep, BeginIssue, BeginPresent, Begin, Find, RefuseUnproved,
          CheckRevokeToken, CheckRotated, CheckRevoked, CheckActive, FindSuccessor, storeVars
<1>4. ASSUME NEW c \in Calls, SqlConsume(c) \/ SqlInsert(c) \/ SqlMarkRotated(c) \/ SqlCompensate(c)
      PROVE  TimedOK(d)'
  <2>1. UNCHANGED <<rows, clock, stmt>> /\ stmt[c] = None
    BY <1>4 DEF SqlConsume, SqlInsert, SqlMarkRotated, SqlCompensate, storeVars, SqlInv, CallOK, CallType
  <2>2. d # c => writes'[d] = writes[d]
    BY <1>0, <1>4 DEF SqlConsume, SqlInsert, SqlMarkRotated, SqlCompensate, Write, SqlType
  <2> QED BY <1>0, <1>1, <2>1, <2>2, TimedKept
<1>5. ASSUME NEW c \in Calls, NEW by, StartStatement(c, by), pc[c] \in Outside,
             by.op = "deleteExpired" => by = ByTime(clock)
      PROVE  TimedOK(d)'
  <2>1. d # c => stmt'[d] = stmt[d]
    BY <1>0, <1>5 DEF StartStatement, SqlType
  <2> QED BY <1>0, <1>5, <2>1, TimedStart, TimedKept DEF StartStatement, storeVars
<1>6. ASSUME NEW c \in Calls, StatementRow(c) PROVE TimedOK(d)'
  <2>1. d # c => stmt'[d] = stmt[d] /\ writes'[d] = writes[d]
    BY <1>0, <1>6 DEF StatementRow, Write, SqlType
  <2> QED BY <1>0, <1>6, <2>1, TimedRow, TimedKept DEF StatementRow, storeVars
<1>7. ASSUME NEW c \in Calls, Commit(c) PROVE TimedOK(d)'
  <2>1. /\ clock' = clock
        /\ d = c => stmt'[d] = None
        /\ d # c => stmt'[d] = stmt[d] /\ writes'[d] = writes[d]
    BY <1>0, <1>7 DEF Commit, EndTransaction, SqlType
  <2> QED BY <1>0, <1>1, <1>7, <2>1, CommitLocks, TimedKept
<1>8. ASSUME NEW c \in Calls, Rollback(c) PROVE TimedOK(d)'
  <2>1. /\ UNCHANGED <<rows, clock>>
        /\ d = c => stmt'[d] = None
        /\ d # c => stmt'[d] = stmt[d] /\ writes'[d] = writes[d]
    BY <1>0, <1>8 DEF Rollback, EndTransaction, SqlType, storeVars
  <2> QED BY <1>0, <1>1, <2>1, TimedKept
<1>9. ASSUME NEW c \in Calls,
             \/ StartRevokeFamily(c)
             \/ \E f \in Families : StartAdmin(c, ByFamily(f))
             \/ \E u \in Users : StartAdmin(c, ByUser(u))
             \/ StartAdmin(c, ByTime(clock))
      PROVE  TimedOK(d)'
  <2>1. \A x : ByFamily(x).op # "deleteExpired" /\ ByUser(x).op # "deleteExpired"
    BY DEF ByFamily, ByUser
  <2> QED BY <1>5, <1>9, <2>1 DEF StartRevokeFamily, StartAdmin, Outside
<1> QED BY <1>2, <1>3, <1>4, <1>6, <1>7, <1>8, <1>9 DEF SqlNext, SqlAbort, DeadlockVictim

\* What a COMMIT does to a row.
LEMMA CommitEvidence ==
  ASSUME SqlInv, TimedInv, NEW c \in Calls, Commit(c), NEW s \in Selectors
  PROVE  EvidenceStep(s)
<1>0. SqlType /\ RotationOK(c) /\ StatementOK(c) /\ CallType(c) /\ TimedOK(c)
      /\ rows'[s] = Seen(c, s) /\ rows[s] \in TokenRecord \cup {NoRow}
  BY DEF SqlInv, SqlType, CallOK, Commit, TimedInv
<1>1. CASE rows'[s] = rows[s]
  BY <1>1, <1>0, RecordStatus DEF EvidenceStep, Present
<1>2. CASE Present(s) /\ rows'[s] = Revoked(rows[s])
  <2>1. rows[s] \in TokenRecord
    BY <1>0, <1>2, RecordStatus DEF Present
  <2> QED BY <1>2, <2>1, RecordStatus DEF EvidenceStep, Revoked, TokenRecord
<1>3. CASE /\ Present(s) /\ Holds(c, s) /\ stmt[c] # None
           /\ stmt[c].by.op = "deleteExpired" /\ rows'[s] = NoRow
  <2>1. stmt[c].by.of \in Nat /\ clock \in Nat /\ rows[s] \in TokenRecord
    BY <1>0, <1>3, RecordStatus DEF SqlType, Statement, Predicate, Present
  <2>2. rows[s].familyExpiresAt < stmt[c].by.of /\ stmt[c].by.of <= clock
    BY <1>0, <1>3 DEF TimedOK
  <2>3. clock >= rows[s].familyExpiresAt
    BY <2>1, <2>2 DEF TokenRecord
  <2> QED BY <1>3, <2>3, RecordStatus DEF EvidenceStep
<1>4. CASE New(c) /\ s = nxt[c]
  BY <1>0, <1>4, RecordStatus DEF RotationOK, EvidenceStep, Present
<1>5. CASE Marked(c) /\ s = arg[c].selector /\ rows'[s] = writes[c][s]
  <2>1. rec[c].status \in {"active", "rotated"} /\ rows[s].status = rec[c].status
    BY <1>0, <1>5 DEF Marked, CallType, RotationOK, Inside
  <2>2. rows[s] \in TokenRecord
    BY <1>0, <2>1, RecordStatus
  <2>3. rows'[s] = [rows[s] EXCEPT !.status = "rotated",
                                   !.rotatedAt = RotatedAt(rec[c], at[c]),
                                   !.replacedBySelector = nxt[c]]
    BY <1>0, <1>5 DEF RotationOK
  <2>4. rows'[s].status = "rotated"
    BY <2>2, <2>3 DEF TokenRecord
  <2> QED BY <2>1, <2>4, RecordStatus DEF EvidenceStep
<1> QED BY <1>0, <1>1, <1>2, <1>3, <1>4, <1>5, CommitRows DEF Effect, IsActive, Present

\* The evidence a replay is recognised by survives transactions: no COMMIT
\* writes back a version older than the one it replaces, and the collector
\* deletes a row only past its family's deadline, although its DELETE started
\* from a clock read before it waited for the row.
THEOREM SqlEvidence == SqlSpec => EvidenceKept
<1>1. SqlInit => TimedInv
  BY DEF SqlInit, TimedInv, TimedOK
<1>2. SqlInv /\ TimedInv /\ [SqlNext]_sqlVars => \A s \in Selectors : EvidenceStep(s)
  <2> SUFFICES ASSUME SqlInv, TimedInv, [SqlNext]_sqlVars, NEW s \in Selectors PROVE EvidenceStep(s)
    OBVIOUS
  <2>1. rows[s] \in TokenRecord \cup {NoRow}
    BY DEF SqlInv, SqlType
  <2>2. CASE rows'[s] = rows[s]
    BY <2>1, <2>2, RecordStatus DEF EvidenceStep, Present
  <2>3. ASSUME NEW c \in Calls, IssueInsert(c), ~ Present(s) PROVE EvidenceStep(s)
    BY <2>1, <2>3, RecordStatus DEF EvidenceStep, Present
  <2> QED BY <2>2, <2>3, TableSteps, IssueRows, CommitEvidence
<1> QED BY <1>1, <1>2, SqlCorrect, TimedStep, PTL DEF SqlSpec, EvidenceKept

=============================================================================
