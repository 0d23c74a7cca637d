---------------------------- MODULE LineageProofs ----------------------------
(***************************************************************************)
(* NoFork, LinearLineage and RevocationHolds of NebulaEngine, proved.      *)
(*                                                                         *)
(* None of the three is inductive.  What carries them is an accounting of  *)
(* the right to rotate: a family either has a head, or one grace retry     *)
(* that has consumed the head and not yet put its own successor in its     *)
(* place, or neither; and a revoked family has no lineage left for a       *)
(* compare-and-set to succeed on.                                          *)
(***************************************************************************)
EXTENDS NebulaEngineProofs

-----------------------------------------------------------------------------
(* The inductive invariant.                                                 *)

\* r is what row s is or was.
CopyOf(r, s) ==
  Present(s) => /\ rows[s].familyId = r.familyId
                /\ rows[s].generation = r.generation

\* t is one generation after r.
SuccessorOf(t, r) ==
  Present(t) => /\ rows[t].familyId = r.familyId
                /\ rows[t].generation = r.generation + 1

\* The replacedBySelector of a rotated record was handed out.
Replaced(r) ==
  r.status = "rotated" =>
    r.replacedBySelector \in granted /\ SuccessorOf(r.replacedBySelector, r)

RowsOK ==
  /\ granted \subseteq minted
  /\ \A s \in Selectors : Present(s) =>
       /\ s \in minted
       /\ rows[s].verifierHash = Hmac(rows[s].kid, s)
       /\ Replaced(rows[s])

CopyOK(c) ==
  /\ pc[c] \in {"idle", "issue", "find"} => rec[c] = NoRow
  /\ rec[c] # NoRow =>
       /\ arg[c].selector \in minted
       /\ rec[c].verifierHash = Hmac(rec[c].kid, arg[c].selector)
       /\ CopyOf(rec[c], arg[c].selector)
       /\ Replaced(rec[c])

HolderOK(c) ==
  /\ pc[c] \in Presenting => Presentable(arg[c])
  /\ pc[c] \in Proved => arg[c].selector \in granted

Inserted(c) == pc[c] \in {"markRotated", "compensate"}

NextOK(c) ==
  /\ pc[c] = "consume" => nxt[c] = rec[c].replacedBySelector
  /\ Inserted(c) => nxt[c] \in minted \ granted /\ SuccessorOf(nxt[c], rec[c])

CallsOK ==
  /\ \A c \in Calls : CopyOK(c) /\ HolderOK(c) /\ NextOK(c)
  /\ \A c, d \in Calls : Inserted(c) /\ Inserted(d) /\ nxt[c] = nxt[d] => c = d

\* No trace of a family: its id is drawn, or not even that.
Unused(f) ==
  /\ \A s \in Selectors : Present(s) => rows[s].familyId # f
  /\ \A c \in Calls : rec[c] # NoRow => rec[c].familyId # f

FamiliesOK ==
  /\ \A f \in Families : charter[f] = None => Unused(f)
  /\ \A c \in Calls : pc[c] = "issue" => charter[arg[c].familyId] # None
                                         /\ Unused(arg[c].familyId)
  /\ \A c, d \in Calls : pc[c] = "issue" /\ pc[d] = "issue"
                         /\ arg[c].familyId = arg[d].familyId => c = d

\* A grace retry that consumed the head stands in for it.
RetryOK(c) ==
  Retrying(c) =>
    /\ Heads(rec[c].familyId) = {}
    /\ \A t \in Lineage(rec[c].familyId) : rows[t].generation <= rec[c].generation

LineOK ==
  /\ NoFork
  /\ LinearLineage
  /\ \A c \in Calls : RetryOK(c)
  /\ \A c, d \in Calls : Retrying(c) /\ Retrying(d)
                         /\ rec[c].familyId = rec[d].familyId => c = d

IInv == RowsOK /\ CallsOK /\ FamiliesOK /\ LineOK

\* The id of the family is still to be drawn, or its first token to be inserted.
Opening(f) ==
  charter[f] = None \/ \E c \in Calls : pc[c] = "issue" /\ arg[c].familyId = f

\* A revoked family has no lineage left, and nothing will start one.  (Apart
\* from IInv: it needs a revocation that is one atomic step.)
DeadOK == \A f \in dead : Lineage(f) = {} /\ ~ Opening(f)

LEMMA InitIInv == Init => IInv
  BY DEF Init, IInv, RowsOK, CallsOK, FamiliesOK, LineOK, CopyOK, HolderOK, NextOK,
         Inserted, Unused, NoFork, LinearLineage, RetryOK, Retrying, Heads, Lineage,
         Present, NoRow, Presenting, Proved

-----------------------------------------------------------------------------
(* Steps that insert nothing and hand nothing out: rows are revoked or      *)
(* collected, calls move on or end.                                         *)

Shrinks ==
  /\ \A s \in Selectors : \/ rows'[s] = rows[s]
                          \/ rows'[s] = NoRow
                          \/ Present(s) /\ rows'[s] = Revoked(rows[s])
  /\ UNCHANGED <<minted, granted>>

Kept(d) == pc'[d] = pc[d] /\ arg'[d] = arg[d] /\ rec'[d] = rec[d] /\ nxt'[d] = nxt[d]

\* A call that moves gains neither a successor nor the place of a head.
Moves(d) ==
  /\ CopyOK(d)' /\ HolderOK(d)' /\ NextOK(d)'
  /\ \/ rec'[d] \in {rec[d], NoRow}
     \/ \E s \in Selectors : rec'[d] = rows[s]
  /\ Inserted(d)' => Inserted(d) /\ nxt'[d] = nxt[d]
  /\ pc'[d] # "issue"
  /\ Retrying(d)' => Retrying(d) /\ rec'[d] = rec[d]

Quiet ==
  /\ Shrinks
  /\ UNCHANGED charter
  /\ \A d \in Calls : Kept(d) \/ Moves(d)

\* A row that is still there is the row it was, and was only revoked.
LEMMA ShrunkRows ==
  ASSUME TypeInv, Shrinks, NEW s \in Selectors
  PROVE  /\ Present(s)' => /\ Present(s)
                           /\ rows'[s].familyId = rows[s].familyId
                           /\ rows'[s].generation = rows[s].generation
                           /\ rows'[s].kid = rows[s].kid
                           /\ rows'[s].verifierHash = rows[s].verifierHash
         /\ rows'[s].status \in {"active", "rotated"} => rows'[s] = rows[s]
<1>1. Present(s) => rows[s] \in TokenRecord
  BY RecordStatus DEF TypeInv, TypeOK, Present
<1> QED
  BY <1>1, RecordStatus DEF Shrinks, Present, Revoked, TokenRecord

\* The lineage only loses members.
LEMMA ShrunkLineage ==
  ASSUME TypeInv, Shrinks, NEW f
  PROVE  /\ Heads(f)' \subseteq Heads(f)
         /\ Lineage(f)' \subseteq Lineage(f)
         /\ \A s \in Lineage(f)' : rows'[s] = rows[s]
<1>1. granted' = granted /\ granted \subseteq Selectors
  BY DEF Shrinks, TypeInv, TypeOK
<1> QED
  BY <1>1, ShrunkRows DEF Heads, Lineage, IsActive

LEMMA QuietRows ==
  ASSUME TypeInv, IInv, Shrinks
  PROVE  RowsOK' /\ NoFork' /\ LinearLineage'
<1>1. RowsOK'
  <2>1. granted' = granted /\ minted' = minted
    BY DEF Shrinks
  <2>2. ASSUME NEW s \in Selectors, rows'[s].status = "rotated"
        PROVE  Replaced(rows[s])'
    <3>1. rows'[s] = rows[s] /\ Present(s)
      BY <2>2, ShrunkRows DEF Present
    <3>2. rows[s].replacedBySelector \in granted
          /\ SuccessorOf(rows[s].replacedBySelector, rows[s])
      BY <2>2, <3>1 DEF IInv, RowsOK, Replaced
    <3> QED
      BY <2>1, <3>1, <3>2, ShrunkRows DEF Replaced, SuccessorOf, TypeInv, TypeOK
  <2>3. \A s \in Selectors : Present(s)' => Replaced(rows[s])'
    BY <2>2 DEF Replaced
  <2> QED
    BY <2>1, <2>3, ShrunkRows DEF IInv, RowsOK
<1>2. NoFork'
  BY ShrunkLineage DEF IInv, LineOK, NoFork
<1>3. LinearLineage'
  BY ShrunkLineage DEF IInv, LineOK, LinearLineage, Lineage, IsActive
<1> QED BY <1>1, <1>2, <1>3

\* What a call knows stays true while it does not move.
LEMMA KeptCall ==
  ASSUME TypeInv, IInv, Shrinks, NEW d \in Calls, Kept(d)
  PROVE  /\ CopyOK(d)' /\ HolderOK(d)' /\ NextOK(d)'
         /\ Inserted(d)' = Inserted(d)
         /\ Retrying(d)' = Retrying(d)
<1>1. granted' = granted /\ minted' = minted /\ granted \subseteq Selectors /\ minted \subseteq Selectors
  BY DEF Shrinks, TypeInv, TypeOK
<1>2. CopyOK(d) /\ HolderOK(d) /\ NextOK(d)
  BY DEF IInv, CallsOK
<1>3. CopyOK(d)'
  BY <1>1, <1>2, ShrunkRows DEF CopyOK, Kept, CopyOf, Replaced, SuccessorOf
<1>4. HolderOK(d)'
  BY <1>1, <1>2 DEF HolderOK, Presentable, Kept
<1>5. NextOK(d)'
  BY <1>1, <1>2, ShrunkRows DEF NextOK, Inserted, SuccessorOf, Kept
<1> QED BY <1>3, <1>4, <1>5 DEF Inserted, Retrying, Kept

LEMMA QuietStep ==
  ASSUME TypeInv, IInv, Quiet
  PROVE  IInv'
<1>1. Shrinks
  BY DEF Quiet
<1>2. CallsOK'
  <2>1. \A d \in Calls : CopyOK(d)' /\ HolderOK(d)' /\ NextOK(d)'
    BY <1>1, KeptCall DEF Quiet, Moves
  <2>2. \A d \in Calls : Inserted(d)' => Inserted(d) /\ nxt'[d] = nxt[d]
    BY <1>1 DEF Quiet, Moves, Kept, Inserted
  <2> QED BY <2>1, <2>2 DEF IInv, CallsOK
<1>3. FamiliesOK'
  <2>1. ASSUME NEW f \in Families, Unused(f) PROVE Unused(f)'
    <3>1. \A s \in Selectors : Present(s)' => rows'[s].familyId # f
      BY <1>1, <2>1, ShrunkRows DEF Unused
    <3>2. \A d \in Calls : rec'[d] # NoRow => rec'[d].familyId # f
      BY <2>1, RecordStatus DEF Quiet, Kept, Moves, Unused, Present, TypeInv, TypeOK
    <3> QED BY <3>1, <3>2 DEF Unused
  <2>2. \A d \in Calls : pc'[d] = "issue" => pc[d] = "issue" /\ arg'[d] = arg[d]
    BY DEF Quiet, Kept, Moves
  <2>3. \A d \in Calls : pc[d] = "issue" => arg[d].familyId \in Families
    BY DEF TypeInv, LocalsOK, IssueArg
  <2>4. charter' = charter
    BY DEF Quiet
  <2> QED BY <2>1, <2>2, <2>3, <2>4 DEF IInv, FamiliesOK
<1>4. LineOK'
  <2>1. \A d \in Calls : Retrying(d)' => Retrying(d) /\ rec'[d] = rec[d]
    BY DEF Quiet, Kept, Moves, Retrying
  <2>2. ASSUME NEW d \in Calls PROVE RetryOK(d)'
    BY <1>1, <2>1, ShrunkLineage DEF RetryOK, IInv, LineOK
  <2> QED BY <1>1, <2>1, <2>2, QuietRows DEF LineOK, IInv
<1>5. RowsOK'
  BY <1>1, QuietRows
<1> QED BY <1>2, <1>3, <1>4, <1>5 DEF IInv

\* A call that ends is quiet; so is every other call.
LEMMA ReturnMoves ==
  ASSUME TypeInv, NEW c \in Calls, NEW code, Return(c, code)
  PROVE  \A d \in Calls : Kept(d) \/ Moves(d)
<1>1. pc'[c] = "idle" /\ rec'[c] = NoRow
  BY DEF Return, TypeInv, TypeOK
<1>2. Moves(c)
  BY <1>1 DEF Moves, CopyOK, HolderOK, NextOK, Inserted, Retrying, Presenting, Proved
<1>3. \A d \in Calls \ {c} : Kept(d)
  BY DEF Return, Kept, TypeInv, TypeOK
<1> QED BY <1>2, <1>3

\* Nothing happens to the store.
LEMMA SameStore ==
  ASSUME TypeInv, UNCHANGED <<rows, minted, granted, charter>>,
         \A d \in Calls : Kept(d) \/ Moves(d)
  PROVE  Quiet
  BY DEF Quiet, Shrinks

\* Only the holder of a token gets past the verifier check.
LEMMA ProvedHolder ==
  ASSUME TypeInv, IInv, NEW c \in Calls, pc[c] = "check", VerifierProved(rec[c], arg[c])
  PROVE  /\ rec[c] \in TokenRecord
         /\ arg[c].verifier = arg[c].selector
         /\ arg[c].selector \in granted
         /\ CopyOf(rec[c], arg[c].selector) /\ Replaced(rec[c])
<1>1. rec[c] \in TokenRecord /\ rec[c] # NoRow
  BY DEF VerifierProved, TypeInv, TypeOK
<1>2. CopyOK(c) /\ HolderOK(c) /\ arg[c] \in PresentArg
  BY DEF IInv, CallsOK, TypeInv, LocalsOK, Presenting
<1>3. arg[c].verifier = arg[c].selector
  BY <1>1, <1>2 DEF CopyOK, VerifierProved, Hmac
<1>4. arg[c].selector \in Selectors
  BY <1>2 DEF PresentArg, RefreshArg, RevokeArg
<1>5. arg[c].selector \in granted
  BY <1>2, <1>3, <1>4, DistinctAssumption DEF HolderOK, Presentable, Presenting
<1> QED BY <1>1, <1>2, <1>3, <1>5 DEF CopyOK

\* After its checks a call knows what it knew, and that it holds the token.
LEMMA DecidedMoves ==
  ASSUME TypeInv, IInv, NEW c \in Calls, pc[c] = "check", VerifierProved(rec[c], arg[c]),
         NEW step \in {"insert", "findSuccessor", "revokeFamily"},
         pc' = [pc EXCEPT ![c] = step], step = "insert" => rec[c].status = "active",
         UNCHANGED <<arg, rec, nxt, rows, granted, minted>>
  PROVE  \A d \in Calls : Kept(d) \/ Moves(d)
<1>1. pc'[c] = step /\ \A d \in Calls \ {c} : Kept(d)
  BY DEF Kept, TypeInv, TypeOK
<1>2. CopyOK(c) /\ HolderOK(c)
  BY DEF IInv, CallsOK
<1>3. CopyOK(c)'
  BY <1>1, <1>2 DEF CopyOK, CopyOf, Replaced, SuccessorOf, Present
<1>4. HolderOK(c)'
  BY <1>1, <1>2, ProvedHolder DEF HolderOK, Presentable, Presenting, Proved
<1>5. NextOK(c)' /\ ~ Inserted(c)'
  BY <1>1 DEF NextOK, Inserted
<1>6. ~ Retrying(c)'
  BY <1>1 DEF Retrying
<1> QED BY <1>1, <1>3, <1>4, <1>5, <1>6 DEF Moves

LEMMA BeginLine ==
  ASSUME TypeInv, IInv, NEW c \in Calls
  PROVE  /\ \A a \in IssueArg : BeginIssue(c, a) => IInv'
         /\ \A a \in PresentArg, kid \in Kids : BeginPresent(c, a, kid) => IInv'
         /\ RefuseMalformed(c) => IInv'
<1>1. ASSUME NEW a \in IssueArg, BeginIssue(c, a) PROVE IInv'
  <2>1. /\ pc[c] = "idle" /\ pc' = [pc EXCEPT ![c] = "issue"] /\ arg' = [arg EXCEPT ![c] = a]
        /\ UNCHANGED <<rows, rec, nxt, minted, granted>>
        /\ charter[a.familyId] = None /\ a.familyId \in Families
    BY <1>1 DEF BeginIssue, Begin, GoTo, storeVars, IssueArg
  <2>2. charter'[a.familyId] # None /\ \A f \in Families \ {a.familyId} : charter'[f] = charter[f]
    <3>1. [userId |-> a.userId, deviceId |-> a.deviceId, expiresAt |-> clock + AbsoluteTtl]
            \in Login
      BY ConfigAssumption DEF IssueArg, Login, TypeInv, TypeOK
    <3> QED BY <1>1, <2>1, <3>1, DistinctAssumption DEF BeginIssue, TypeInv, TypeOK
  <2>3. rec[c] = NoRow
    BY <2>1 DEF IInv, CallsOK, CopyOK
  <2>4. RowsOK'
    BY <2>1 DEF IInv, RowsOK, Replaced, SuccessorOf, Present
  <2>5. CallsOK'
    BY <2>1, <2>3 DEF IInv, CallsOK, CopyOK, HolderOK, NextOK, Inserted, Presenting, Proved,
       CopyOf, Replaced, SuccessorOf, Presentable, Present, TypeInv, TypeOK
  <2>6. FamiliesOK'
    <3>1. \A f : Unused(f)' = Unused(f)
      BY <2>1 DEF Unused, Present
    <3>2. \A d \in Calls \ {c} : pc'[d] = pc[d] /\ arg'[d] = arg[d]
      BY <2>1 DEF TypeInv, TypeOK
    <3>3. arg'[c] = a
      BY <2>1 DEF TypeInv, TypeOK
    <3>4. \A d \in Calls : pc[d] = "issue" => arg[d].familyId \in Families
      BY DEF TypeInv, LocalsOK, IssueArg
    <3> QED BY <2>1, <2>2, <3>1, <3>2, <3>3, <3>4 DEF IInv, FamiliesOK
  <2>7. LineOK'
    BY <2>1 DEF IInv, LineOK, NoFork, LinearLineage, Heads, Lineage, IsActive, RetryOK,
       Retrying, TypeInv, TypeOK
  <2> QED BY <2>4, <2>5, <2>6, <2>7 DEF IInv
<1>2. ASSUME NEW a \in PresentArg, NEW kid \in Kids, BeginPresent(c, a, kid) PROVE IInv'
  <2>1. CASE Begin(c, a, "find", 0) /\ UNCHANGED charter
    <3>1. /\ pc[c] = "idle" /\ pc'[c] = "find" /\ arg'[c] = a
          /\ UNCHANGED <<rows, rec, nxt, minted, granted>>
      BY <2>1 DEF Begin, GoTo, storeVars, TypeInv, TypeOK
    <3>2. rec[c] = NoRow
      BY <3>1 DEF IInv, CallsOK, CopyOK
    <3>3. Moves(c)
      BY <1>2, <3>1, <3>2 DEF BeginPresent, Moves, CopyOK, HolderOK, NextOK, Inserted, Retrying,
         Presenting, Proved, Presentable
    <3>4. \A d \in Calls \ {c} : Kept(d)
      BY <2>1 DEF Begin, GoTo, Kept, TypeInv, TypeOK
    <3> QED BY <2>1, <3>1, <3>3, <3>4, SameStore, QuietStep
  <2>2. CASE Return(c, "UNKNOWN_KID") /\ UNCHANGED <<storeVars, historyVars>>
    BY <2>2, ReturnMoves, SameStore, QuietStep DEF storeVars, historyVars
  <2> QED BY <1>2, <2>1, <2>2 DEF BeginPresent
<1>3. ASSUME RefuseMalformed(c) PROVE IInv'
  BY <1>3, ReturnMoves, SameStore, QuietStep DEF RefuseMalformed, storeVars, historyVars
<1> QED BY <1>1, <1>2, <1>3

\* The steps of a call up to its decision, and the search of the successor.
LEMMA CheckLine ==
  ASSUME TypeInv, IInv, NEW c \in Calls
  PROVE  /\ Find(c) => IInv'
         /\ RefuseUnproved(c) => IInv'
         /\ CheckRevokeToken(c) => IInv'
         /\ CheckRotated(c) => IInv'
         /\ CheckRevoked(c) => IInv'
         /\ CheckActive(c) => IInv'
         /\ FindSuccessor(c) => IInv'
<1>1. ASSUME Find(c) PROVE IInv'
  <2> DEFINE s == arg[c].selector
  <2>1. /\ pc[c] = "find" /\ pc'[c] = "check" /\ rec'[c] = rows[s] /\ s \in Selectors
        /\ UNCHANGED <<rows, arg, nxt, minted, granted, charter>>
    BY <1>1 DEF Find, GoTo, storeVars, historyVars, TypeInv, TypeOK, LocalsOK,
                Presenting, PresentArg, RefreshArg, RevokeArg
  <2>2. Present(s) => /\ s \in minted /\ Replaced(rows[s])
                      /\ rows[s].verifierHash = Hmac(rows[s].kid, s)
    BY <2>1 DEF IInv, RowsOK
  <2>3. ~ Present(s) => rows[s] = NoRow
    BY <2>1, RecordStatus DEF Present, TypeInv, TypeOK
  <2>4. CopyOK(c)'
    BY <2>1, <2>2, <2>3 DEF CopyOK, CopyOf, Replaced, SuccessorOf, Present
  <2>5. HolderOK(c)'
    BY <2>1 DEF IInv, CallsOK, HolderOK, Presentable, Presenting, Proved
  <2>6. Moves(c)
    BY <2>1, <2>4, <2>5 DEF Moves, NextOK, Inserted, Retrying
  <2>7. \A d \in Calls \ {c} : Kept(d)
    BY <1>1 DEF Find, GoTo, Kept, TypeInv, TypeOK
  <2> QED BY <2>1, <2>6, <2>7, SameStore, QuietStep
<1>2. ASSUME RefuseUnproved(c) PROVE IInv'
  BY <1>2, ReturnMoves, SameStore, QuietStep DEF RefuseUnproved, storeVars, historyVars
<1>3. ASSUME CheckRevokeToken(c) PROVE IInv'
  BY <1>3, DecidedMoves, SameStore, QuietStep
  DEF CheckRevokeToken, RevokeThenReturn, GoTo, storeVars, historyVars
<1>4. ASSUME CheckRotated(c) PROVE IInv'
  BY <1>4, DecidedMoves, SameStore, QuietStep
  DEF CheckRotated, Refreshing, RevokeThenReturn, GoTo, storeVars, historyVars
<1>5. ASSUME CheckRevoked(c) PROVE IInv'
  BY <1>5, ReturnMoves, SameStore, QuietStep DEF CheckRevoked, storeVars, historyVars
<1>6. ASSUME CheckActive(c) PROVE IInv'
  BY <1>6, DecidedMoves, SameStore, QuietStep
  DEF CheckActive, Refreshing, RevokeThenReturn, GoTo, storeVars, historyVars
<1>7. ASSUME FindSuccessor(c) PROVE IInv'
  <2>1. /\ pc[c] = "findSuccessor" /\ pc'[c] \in {"revokeFamily", "consume"}
        /\ pc'[c] = "consume" => nxt'[c] = rec[c].replacedBySelector
        /\ UNCHANGED <<rows, arg, rec, minted, granted, charter>>
    BY <1>7 DEF FindSuccessor, RevokeThenReturn, GoTo, storeVars, historyVars, TypeInv, TypeOK
  <2>2. CopyOK(c)'
    BY <2>1 DEF IInv, CallsOK, CopyOK, CopyOf, Replaced, SuccessorOf, Present
  <2>3. HolderOK(c)'
    BY <2>1 DEF IInv, CallsOK, HolderOK, Presentable, Presenting, Proved
  <2>4. Moves(c)
    BY <2>1, <2>2, <2>3 DEF Moves, NextOK, Inserted, Retrying
  <2>5. \A d \in Calls \ {c} : Kept(d)
    BY <1>7 DEF FindSuccessor, RevokeThenReturn, GoTo, Kept, TypeInv, TypeOK
  <2> QED BY <2>1, <2>4, <2>5, SameStore, QuietStep
<1> QED BY <1>1, <1>2, <1>3, <1>4, <1>5, <1>6, <1>7

\* Revocations, collection, failures and the clock.
LEMMA RevokeLine ==
  ASSUME TypeInv, IInv
  PROVE  /\ \A c \in Calls : \/ Compensate(c) \/ RevokeFamilyOf(c) \/ Abort(c) => IInv'
         /\ \A f \in Families : AdminRevokeFamily(f) => IInv'
         /\ \A u \in Users : AdminRevokeUser(u) => IInv'
         /\ DeleteExpired => IInv'
         /\ Tick => IInv'
<1>1. ASSUME NEW f, RevokeFamily(f), UNCHANGED <<minted, granted>> PROVE Shrinks
  BY <1>1 DEF RevokeFamily, RevokeRows, InFamily, Shrinks
<1>2. ASSUME NEW u, RevokeUser(u), UNCHANGED <<minted, granted>> PROVE Shrinks
  BY <1>2 DEF RevokeUser, RevokeRows, OfUser, Shrinks
<1>3. ASSUME UNCHANGED callVars PROVE \A d \in Calls : Kept(d)
  BY <1>3 DEF callVars, Kept
<1>4. ASSUME NEW c \in Calls, Compensate(c) PROVE IInv'
  <2>1. nxt[c] \in Selectors
    BY <1>4 DEF Compensate, TypeInv, LocalsOK
  <2>2. Shrinks
    BY <1>4, <2>1 DEF Compensate, RevokeIfActive, RevokeIfActiveApplies, IsActive, Present,
                      Shrinks, historyVars, TypeInv, TypeOK
  <2> QED BY <1>4, <2>2, ReturnMoves, QuietStep DEF Compensate, Quiet, historyVars
<1>5. ASSUME NEW c \in Calls, RevokeFamilyOf(c) PROVE IInv'
  BY <1>1, <1>5, ReturnMoves, QuietStep DEF RevokeFamilyOf, Quiet
<1>6. ASSUME NEW c \in Calls, Abort(c) PROVE IInv'
  BY <1>6, ReturnMoves, SameStore, QuietStep DEF Abort, storeVars
<1>7. ASSUME NEW f \in Families, AdminRevokeFamily(f) PROVE IInv'
  BY <1>1, <1>3, <1>7, QuietStep DEF AdminRevokeFamily, Quiet
<1>8. ASSUME NEW u \in Users, AdminRevokeUser(u) PROVE IInv'
  BY <1>2, <1>3, <1>8, QuietStep DEF AdminRevokeUser, Quiet
<1>9. ASSUME DeleteExpired PROVE IInv'
  <2>1. Shrinks
    BY <1>9 DEF DeleteExpired, Shrinks, historyVars
  <2> QED BY <1>3, <1>9, <2>1, QuietStep DEF DeleteExpired, Quiet, historyVars
<1>10. ASSUME Tick PROVE IInv'
  BY <1>3, <1>10, SameStore, QuietStep DEF Tick, historyVars
<1> QED BY <1>4, <1>5, <1>6, <1>7, <1>8, <1>9, <1>10

-----------------------------------------------------------------------------
(* The steps that add to the lineage or take its head.                      *)

\* issue() starts the line of a family nothing else knows of.
LEMMA IssueLine ==
  ASSUME TypeInv, TypeInv', IInv, NEW c \in Calls, IssueInsert(c)
  PROVE  IInv'
<1>0. PICK F \in Families : F = arg[c].familyId
  BY DEF IssueInsert, TypeInv, LocalsOK, IssueArg
<1>1. PICK s \in Fresh :
        /\ \A t \in Selectors \ {s} : rows'[t] = rows[t]
        /\ rows'[s].status = "active" /\ rows'[s].familyId = F
        /\ rows'[s].verifierHash = Hmac(rows'[s].kid, s)
        /\ minted' = minted \cup {s} /\ granted' = granted \cup {s}
  <2> DEFINE a == arg[c]
             hash == IF a.deviceId = None THEN None ELSE Hmac(ActiveKid[a.engine], a.deviceId)
             Row(s) == Mint(a.engine, s, a.familyId, 0, a.userId, hash,
                            at[c] + AbsoluteTtl, at[c])
  <2>1. PICK s \in Fresh : /\ rows' = [rows EXCEPT ![s] = Row(s)]
                           /\ minted' = minted \cup {s} /\ granted' = granted \cup {s}
    BY DEF IssueInsert, Insert
  <2>2. rows'[s] = Row(s) /\ \A t \in Selectors \ {s} : rows'[t] = rows[t]
    BY <2>1 DEF Fresh, TypeInv, TypeOK
  <2>3. /\ Row(s).status = "active" /\ Row(s).familyId = F
        /\ Row(s).verifierHash = Hmac(Row(s).kid, s)
    BY <1>0 DEF Mint
  <2> HIDE DEF Row
  <2> QED BY <2>1, <2>2, <2>3
<1>2. /\ s \in Selectors /\ s \notin minted /\ s \notin granted /\ ~ Present(s) /\ Present(s)'
      /\ \A t \in Selectors \ {s} : rows'[t] = rows[t]
  BY <1>1 DEF Fresh, IInv, RowsOK, TypeInv, TypeOK, Present
<1>3. /\ pc[c] = "issue" /\ pc'[c] = "idle" /\ rec'[c] = NoRow /\ charter' = charter
      /\ \A d \in Calls \ {c} : Kept(d)
  BY DEF IssueInsert, Return, Kept, TypeInv, TypeOK
<1>4. Unused(F) /\ charter[F] # None
  BY <1>0, <1>3 DEF IInv, FamiliesOK, TypeInv, LocalsOK, IssueArg
<1>5. \A f : f # F => Heads(f)' = Heads(f) /\ Lineage(f)' = Lineage(f)
  BY <1>1, <1>2 DEF Heads, Lineage, IsActive, TypeInv, TypeOK
<1>6. Lineage(F)' = {s} /\ Heads(F)' = {s}
  BY <1>1, <1>2, <1>4 DEF Heads, Lineage, IsActive, Present, Unused, TypeInv, TypeOK
<1>7. \A t \in granted \cup minted : t \in Selectors /\ t # s /\ rows'[t] = rows[t]
  BY <1>2 DEF TypeInv, TypeOK
<1>8. RowsOK'
  <2>1. granted' \subseteq minted'
    BY <1>1 DEF IInv, RowsOK
  <2>2. ASSUME NEW t \in Selectors \ {s}, Present(t)'
        PROVE  t \in minted' /\ rows'[t].verifierHash = Hmac(rows'[t].kid, t) /\ Replaced(rows[t])'
    <3>1. rows'[t] = rows[t] /\ Present(t)
      BY <1>2, <2>2 DEF Present
    <3> QED BY <1>1, <1>7, <3>1 DEF IInv, RowsOK, Replaced, SuccessorOf, Present
  <2>3. Replaced(rows[s])'
    BY <1>1 DEF Replaced
  <2> QED BY <1>1, <2>1, <2>2, <2>3 DEF RowsOK
<1>9. CallsOK'
  <2>1. ASSUME NEW d \in Calls \ {c} PROVE CopyOK(d)' /\ HolderOK(d)' /\ NextOK(d)'
    <3>1. CopyOK(d) /\ HolderOK(d) /\ NextOK(d) /\ Kept(d)
      BY <1>3 DEF IInv, CallsOK
    <3> QED
      BY <1>1, <1>2, <1>7, <3>1 DEF CopyOK, HolderOK, NextOK, Inserted, Kept, CopyOf, Replaced,
         SuccessorOf, Presentable, Present
  <2>2. CopyOK(c)' /\ HolderOK(c)' /\ NextOK(c)' /\ ~ Inserted(c)'
    BY <1>3 DEF CopyOK, HolderOK, NextOK, Inserted, Presenting, Proved
  <2> QED BY <1>3, <2>1, <2>2 DEF IInv, CallsOK, Inserted, Kept
<1>10. FamiliesOK'
  <2>1. ASSUME NEW f, f # F, Unused(f) PROVE Unused(f)'
    BY <1>1, <1>2, <1>3, <2>1 DEF Unused, Kept, Present
  <2>2. ASSUME NEW d \in Calls, pc'[d] = "issue"
        PROVE  d # c /\ pc[d] = "issue" /\ arg'[d] = arg[d] /\ arg[d].familyId # F
    BY <1>0, <1>3, <2>2 DEF IInv, FamiliesOK, Kept
  <2> QED BY <1>3, <1>4, <2>1, <2>2 DEF IInv, FamiliesOK
<1>11. LineOK'
  <2>1. \A d \in Calls : Retrying(d)' => d # c /\ Retrying(d) /\ rec'[d] = rec[d]
    BY <1>3 DEF Retrying, Kept
  <2>2. \A d \in Calls : Retrying(d) => rec[d].familyId # F
    BY <1>4, RecordStatus DEF Retrying, Unused, NoRow
  <2>3. \A f, t : f # F /\ t \in Lineage(f) => rows'[t] = rows[t]
    BY <1>7 DEF Lineage
  <2>4. NoFork'
    BY <1>5, <1>6 DEF IInv, LineOK, NoFork
  <2>5. LinearLineage'
    <3>1. rows'[s].generation \in Int
      BY <1>1, <1>2, RecordStatus DEF TypeInv, TypeOK, Present, TokenRecord
    <3> QED BY <1>5, <1>6, <2>3, <3>1 DEF IInv, LineOK, LinearLineage, IsActive
  <2>6. ASSUME NEW d \in Calls PROVE RetryOK(d)'
    BY <1>5, <2>1, <2>2, <2>3 DEF IInv, LineOK, RetryOK
  <2> QED BY <2>1, <2>4, <2>5, <2>6 DEF IInv, LineOK
<1> QED BY <1>8, <1>9, <1>10, <1>11 DEF IInv

\* The winner of revokeIfActive takes the head of its family, which the next
\* generation is, and stands in for it.
LEMMA ConsumeLine ==
  ASSUME TypeInv, IInv, NEW c \in Calls, Consume(c)
  PROVE  IInv'
<1>0. PICK n \in Selectors, F \in Families, r \in TokenRecord :
        n = nxt[c] /\ F = rec[c].familyId /\ r = rec[c] /\ r.status = "rotated"
  BY DEF Consume, TypeInv, LocalsOK, Proved, Presenting, TokenRecord
<1>1. Shrinks
  <2>1. \A t \in Selectors \ {n} : rows'[t] = rows[t]
    BY <1>0 DEF Consume, RevokeIfActive, TypeInv, TypeOK
  <2>2. rows'[n] = rows[n] \/ (IsActive(n) /\ rows'[n] = Revoked(rows[n]))
    BY <1>0 DEF Consume, RevokeIfActive, RevokeIfActiveApplies, TypeInv, TypeOK
  <2> QED BY <2>1, <2>2 DEF Shrinks, Consume, historyVars, IsActive, Present
<1>2. CASE Return(c, "CONFLICT")
  BY <1>1, <1>2, ReturnMoves, QuietStep DEF Consume, Quiet, historyVars
<1>3. CASE RevokeIfActiveApplies(n) /\ GoTo(c, "insert") /\ UNCHANGED <<arg, rec>>
           /\ nxt' = [nxt EXCEPT ![c] = None]
  <2>1. /\ pc[c] = "consume" /\ pc'[c] = "insert" /\ IsActive(n) /\ rec[c] # NoRow
        /\ UNCHANGED <<arg, rec, charter, granted, minted>>
        /\ \A d \in Calls \ {c} : Kept(d)
    BY <1>0, <1>3, RecordStatus DEF GoTo, Consume, RevokeIfActiveApplies, historyVars, Kept, TypeInv, TypeOK
  <2>2. n \in granted /\ rows[n].familyId = F /\ rows[n].generation = r.generation + 1
    BY <1>0, <2>1 DEF IInv, CallsOK, NextOK, CopyOK, Replaced, SuccessorOf, IsActive, Present
  <2>3. n \in Heads(F) /\ n \in Lineage(F)
    BY <2>1, <2>2 DEF Heads, Lineage, IsActive
  <2>4. n \notin Heads(F)' /\ n \notin Lineage(F)'
    <3>1. rows[n] \in TokenRecord
      BY <2>1, RecordStatus DEF TypeInv, TypeOK, IsActive
    <3>2. rows'[n].status = "revoked"
      BY <1>0, <1>3, <3>1 DEF Consume, RevokeIfActive, Revoked, TokenRecord, TypeInv, TypeOK
    <3> QED BY <3>2 DEF Heads, Lineage, IsActive
  <2>5. Heads(F)' = {}
    BY <1>1, <2>3, <2>4, ShrunkLineage DEF IInv, LineOK, NoFork
  <2>6. ASSUME NEW t \in Lineage(F)' PROVE rows'[t].generation <= r.generation
    <3>1. t \in Lineage(F) /\ t # n /\ rows'[t] = rows[t]
      BY <1>1, <2>4, ShrunkLineage
    <3>2. rows[t].generation <= rows[n].generation /\ rows[t].generation # rows[n].generation
      BY <2>1, <2>3, <3>1 DEF IInv, LineOK, LinearLineage
    <3>3. rows[t].generation \in Nat /\ r.generation \in Nat
      BY <3>1, RecordStatus DEF Lineage, TypeInv, TypeOK, TokenRecord
    <3> QED BY <2>2, <3>1, <3>2, <3>3
  <2>7. \A d \in Calls : Retrying(d) => rec[d].familyId # F
    BY <2>3 DEF IInv, LineOK, RetryOK
  <2>8. \A d \in Calls \ {c} : /\ CopyOK(d)' /\ HolderOK(d)' /\ NextOK(d)'
                               /\ Inserted(d)' = Inserted(d) /\ Retrying(d)' = Retrying(d)
    BY <1>1, <2>1, KeptCall
  <2>9. CallsOK'
    <3>1. CopyOK(c)'
      BY <1>1, <2>1, ShrunkRows DEF IInv, CallsOK, CopyOK, CopyOf, Replaced, SuccessorOf,
                                    TypeInv, TypeOK
    <3>2. HolderOK(c)' /\ NextOK(c)' /\ ~ Inserted(c)'
      BY <2>1 DEF IInv, CallsOK, HolderOK, NextOK, Inserted, Presentable, Presenting, Proved
    <3> QED BY <2>1, <2>8, <3>1, <3>2 DEF IInv, CallsOK, Kept
  <2>10. FamiliesOK'
    <3>1. \A f : Unused(f) => Unused(f)'
      BY <1>1, <2>1, ShrunkRows DEF Unused
    <3>2. \A d \in Calls : pc'[d] = "issue" => pc[d] = "issue"
      BY <2>1 DEF Kept
    <3> QED BY <2>1, <3>1, <3>2 DEF IInv, FamiliesOK
  <2>11. LineOK'
    <3>1. RetryOK(c)'
      BY <1>0, <2>1, <2>5, <2>6 DEF RetryOK
    <3>2. ASSUME NEW d \in Calls \ {c} PROVE RetryOK(d)'
      BY <1>1, <2>1, <2>8, ShrunkLineage DEF IInv, LineOK, RetryOK
    <3>3. \A d, e \in Calls :
            Retrying(d)' /\ Retrying(e)' /\ rec'[d].familyId = rec'[e].familyId => d = e
      BY <1>0, <2>1, <2>7, <2>8 DEF IInv, LineOK
    <3> QED BY <1>1, <3>1, <3>2, <3>3, QuietRows DEF LineOK
  <2> QED BY <1>1, <2>9, <2>10, <2>11, QuietRows DEF IInv
<1> QED BY <1>0, <1>2, <1>3 DEF Consume

\* The new row is in no caller's hands yet, and no call can know its selector.
LEMMA InsertLine ==
  ASSUME TypeInv, IInv, NEW c \in Calls, InsertSuccessor(c)
  PROVE  IInv'
<1>0. PICK F \in Families, r \in TokenRecord :
        F = rec[c].familyId /\ r = rec[c] /\ r # NoRow /\ r.generation \in Nat
  BY RecordStatus DEF InsertSuccessor, TypeInv, LocalsOK, Proved, Presenting, TokenRecord
<1>1. PICK s \in Fresh :
        /\ \A t \in Selectors \ {s} : rows'[t] = rows[t]
        /\ rows'[s].status = "active" /\ rows'[s].familyId = F
        /\ rows'[s].generation = r.generation + 1
        /\ rows'[s].verifierHash = Hmac(rows'[s].kid, s)
        /\ minted' = minted \cup {s} /\ nxt'[c] = s
        /\ \A d \in Calls \ {c} : Kept(d)
  <2> DEFINE Row(s) == Mint(arg[c].engine, s, rec[c].familyId, rec[c].generation + 1,
                            rec[c].userId, NextDeviceIdHash(rec[c], arg[c]),
                            NextFamilyExpiresAt(rec[c], at[c]), at[c])
  <2>1. PICK s \in Fresh : /\ rows' = [rows EXCEPT ![s] = Row(s)]
                           /\ minted' = minted \cup {s} /\ nxt' = [nxt EXCEPT ![c] = s]
    BY DEF InsertSuccessor, Insert
  <2>2. rows'[s] = Row(s) /\ nxt'[c] = s /\ \A t \in Selectors \ {s} : rows'[t] = rows[t]
    BY <2>1 DEF Fresh, TypeInv, TypeOK
  <2>3. /\ Row(s).status = "active" /\ Row(s).familyId = F
        /\ Row(s).verifierHash = Hmac(Row(s).kid, s)
        /\ Row(s).generation = r.generation + 1
    BY <1>0 DEF Mint
  <2>4. \A d \in Calls \ {c} : Kept(d)
    BY <2>1 DEF InsertSuccessor, GoTo, Kept, TypeInv, TypeOK
  <2> HIDE DEF Row
  <2> QED BY <2>1, <2>2, <2>3, <2>4
<1>2. /\ s \in Selectors /\ s \notin minted /\ s \notin granted /\ ~ Present(s) /\ Present(s)'
      /\ \A t \in granted \cup minted : t \in Selectors /\ t # s /\ rows'[t] = rows[t]
  BY <1>1 DEF Fresh, IInv, RowsOK, TypeInv, TypeOK, Present
<1>3. /\ pc[c] = "insert" /\ pc'[c] = "markRotated"
      /\ UNCHANGED <<arg, rec, granted, charter>>
  BY DEF InsertSuccessor, GoTo, TypeInv, TypeOK
<1>4. \A f : Heads(f)' = Heads(f) /\ Lineage(f)' = Lineage(f)
  BY <1>2, <1>3 DEF Heads, Lineage, IsActive
<1>5. \A f : \A t \in Lineage(f) : rows'[t] = rows[t]
  BY <1>2 DEF Lineage
<1>6. RowsOK'
  <2>1. granted' \subseteq minted'
    BY <1>1, <1>3 DEF IInv, RowsOK
  <2>2. ASSUME NEW t \in Selectors \ {s}, Present(t)'
        PROVE  t \in minted' /\ rows'[t].verifierHash = Hmac(rows'[t].kid, t) /\ Replaced(rows[t])'
    <3>1. rows'[t] = rows[t] /\ Present(t)
      BY <1>1, <2>2 DEF Present
    <3> QED BY <1>1, <1>2, <1>3, <3>1 DEF IInv, RowsOK, Replaced, SuccessorOf, Present
  <2>3. Replaced(rows[s])'
    BY <1>1 DEF Replaced
  <2> QED BY <1>1, <2>1, <2>2, <2>3 DEF RowsOK
<1>7. CallsOK'
  <2>1. ASSUME NEW d \in Calls \ {c} PROVE CopyOK(d)' /\ HolderOK(d)' /\ NextOK(d)'
    <3>1. CopyOK(d) /\ HolderOK(d) /\ NextOK(d) /\ Kept(d)
      BY <1>1 DEF IInv, CallsOK
    <3> QED
      BY <1>1, <1>2, <1>3, <3>1 DEF CopyOK, HolderOK, NextOK, Inserted, Kept, CopyOf, Replaced,
         SuccessorOf, Presentable, Present
  <2>2. CopyOK(c)'
    BY <1>1, <1>2, <1>3 DEF IInv, CallsOK, CopyOK, CopyOf, Replaced, SuccessorOf, Present
  <2>3. HolderOK(c)'
    BY <1>3 DEF IInv, CallsOK, HolderOK, Presentable, Presenting, Proved
  <2>4. NextOK(c)'
    BY <1>0, <1>1, <1>2, <1>3 DEF NextOK, Inserted, SuccessorOf
  <2>5. ASSUME NEW d \in Calls \ {c}, Inserted(d)'
        PROVE  Inserted(d) /\ nxt'[d] = nxt[d] /\ nxt[d] # s
    BY <1>1, <1>2, <2>5 DEF IInv, CallsOK, NextOK, Inserted, Kept
  <2> QED BY <1>1, <2>1, <2>2, <2>3, <2>4, <2>5 DEF IInv, CallsOK
<1>8. FamiliesOK'
  <2>1. ASSUME NEW f, Unused(f) PROVE Unused(f)'
    BY <1>0, <1>1, <1>3, <2>1 DEF Unused, Present
  <2>2. \A d \in Calls : pc'[d] = "issue" => pc[d] = "issue"
    BY <1>1, <1>3 DEF Kept
  <2> QED BY <1>3, <2>1, <2>2 DEF IInv, FamiliesOK
<1>9. LineOK'
  <2>1. \A d \in Calls : Retrying(d)' = Retrying(d)
    BY <1>1, <1>3 DEF Retrying, Kept
  <2>2. NoFork' /\ LinearLineage'
    BY <1>4, <1>5 DEF IInv, LineOK, NoFork, LinearLineage, IsActive
  <2>3. \A d \in Calls : RetryOK(d)'
    BY <1>3, <1>4, <1>5, <2>1 DEF IInv, LineOK, RetryOK
  <2> QED BY <1>3, <1>4, <2>1, <2>2, <2>3 DEF IInv, LineOK
<1> QED BY <1>6, <1>7, <1>8, <1>9 DEF IInv

\* The compare-and-set succeeds only on a member p of the lineage, which is
\* the head or the token the only grace retry of the family holds: all of the
\* lineage is at most as old as p, and the successor n is its new head.
LEMMA MarkLine ==
  ASSUME TypeInv, IInv, NEW c \in Calls, MarkPredecessor(c)
  PROVE  IInv'
<1>0. PICK p \in Selectors, n \in Selectors, F \in Families, r \in TokenRecord :
        /\ p = arg[c].selector /\ n = nxt[c] /\ F = rec[c].familyId /\ r = rec[c] /\ r # NoRow
        /\ r.generation \in Nat /\ r.status \in {"active", "rotated"}
  BY RecordStatus DEF MarkPredecessor, TypeInv, LocalsOK, Proved, Presenting, Rotating,
                      TokenRecord, RefreshArg
<1>1. /\ p \in granted /\ n \in minted /\ n \notin granted /\ p # n
      /\ CopyOf(r, p) /\ SuccessorOf(n, r)
  BY <1>0 DEF MarkPredecessor, IInv, CallsOK, CopyOK, HolderOK, NextOK, Inserted, Proved,
              Presenting
<1>2. CASE GoTo(c, "compensate") /\ UNCHANGED <<rows, arg, rec, nxt, granted>>
  <2>1. /\ pc[c] = "markRotated" /\ pc'[c] = "compensate"
        /\ UNCHANGED <<rows, arg, rec, nxt, granted, minted, charter>>
        /\ \A d \in Calls \ {c} : Kept(d)
    BY <1>2 DEF MarkPredecessor, GoTo, Kept, TypeInv, TypeOK
  <2>2. CopyOK(c)' /\ HolderOK(c)' /\ NextOK(c)'
    BY <2>1 DEF IInv, CallsOK, CopyOK, HolderOK, NextOK, Inserted, CopyOf, Replaced, SuccessorOf,
                Presentable, Present, Presenting, Proved
  <2>3. Moves(c)
    BY <2>1, <2>2 DEF Moves, Inserted, Retrying
  <2> QED BY <2>1, <2>3, SameStore, QuietStep
<1>3. CASE /\ MarkRotatedApplies(p, r.status)
           /\ MarkRotated(p, RotatedAt(r, at[c]), n)
           /\ granted' = granted \cup {n}
           /\ Return(c, "OK")
  <2>1. /\ rows[p].status = r.status /\ Present(p) /\ rows[p] \in TokenRecord
        /\ rows[p].familyId = F /\ rows[p].generation = r.generation
    BY <1>0, <1>1, <1>3, RecordStatus DEF MarkRotatedApplies, CopyOf, Present, TypeInv, TypeOK
  <2>2. /\ \A t \in Selectors \ {p} : rows'[t] = rows[t]
        /\ rows'[p] = [rows[p] EXCEPT !.status = "rotated", !.rotatedAt = RotatedAt(r, at[c]),
                                      !.replacedBySelector = n]
    BY <1>3 DEF MarkRotated, TypeInv, TypeOK
  <2>3. /\ rows'[p].status = "rotated" /\ rows'[p].replacedBySelector = n
        /\ rows'[p].familyId = F /\ rows'[p].generation = r.generation
        /\ rows'[p].kid = rows[p].kid /\ rows'[p].verifierHash = rows[p].verifierHash
    BY <2>1, <2>2 DEF TokenRecord
  <2>4. /\ pc[c] = "markRotated" /\ pc'[c] = "idle" /\ rec'[c] = NoRow
        /\ UNCHANGED <<minted, charter>>
        /\ \A d \in Calls \ {c} : Kept(d)
    BY <1>3 DEF MarkPredecessor, Return, Kept, TypeInv, TypeOK
  <2>5. \A t \in Selectors :
          /\ Present(t)' <=> Present(t)
          /\ rows'[t].familyId = rows[t].familyId
          /\ rows'[t].generation = rows[t].generation
          /\ rows'[t].kid = rows[t].kid
          /\ rows'[t].verifierHash = rows[t].verifierHash
    BY <2>1, <2>2, <2>3 DEF Present
  <2>6. p \in Lineage(F)
    BY <1>0, <1>1, <2>1 DEF Lineage
  <2>7. /\ \A t \in Lineage(F) : rows[t].generation <= r.generation
        /\ \A t \in Heads(F) : t = p
        /\ \A d \in Calls \ {c} : Retrying(d) => rec[d].familyId # F
    <3>1. CASE r.status = "active"
      <4>1. p \in Heads(F) /\ IsActive(p)
        BY <1>1, <2>1, <3>1 DEF Heads, IsActive
      <4> QED BY <2>1, <2>6, <4>1 DEF IInv, LineOK, NoFork, LinearLineage, RetryOK
    <3>2. CASE r.status = "rotated"
      <4>1. Retrying(c)
        BY <1>0, <2>4, <3>2 DEF Retrying
      <4> QED BY <1>0, <4>1 DEF IInv, LineOK, RetryOK
    <3> QED BY <1>0, <3>1, <3>2
  <2>8. \A f : f # F => Heads(f)' = Heads(f) /\ Lineage(f)' = Lineage(f)
    <3>1. rows[n].status \in {"active", "rotated"} => rows[n].familyId = F
      BY <1>0, <1>1 DEF SuccessorOf, Present
    <3>2. ASSUME NEW f, f # F, NEW t \in granted
          PROVE  /\ rows[t].familyId = f => rows'[t] = rows[t]
                 /\ rows'[t].familyId = f => rows'[t] = rows[t]
      BY <2>1, <2>2, <2>3, <3>2 DEF TypeInv, TypeOK
    <3>3. rows'[n] = rows[n]
      BY <1>1, <2>2
    <3>4. ASSUME NEW f, f # F PROVE Heads(f)' = Heads(f)
      BY <1>3, <3>1, <3>2, <3>3, <3>4 DEF Heads, IsActive
    <3>5. ASSUME NEW f, f # F PROVE Lineage(f)' = Lineage(f)
      BY <1>3, <3>1, <3>2, <3>3, <3>5 DEF Lineage
    <3> QED BY <3>4, <3>5
  <2>9. Heads(F)' \subseteq {n} /\ Lineage(F)' \subseteq Lineage(F) \cup {n}
    <3>1. ASSUME NEW t \in granted, t # p PROVE rows'[t] = rows[t]
      BY <2>2, <3>1 DEF TypeInv, TypeOK
    <3>2. Heads(F)' \subseteq {n}
      BY <1>3, <2>3, <2>7, <3>1 DEF Heads, IsActive
    <3>3. Lineage(F)' \subseteq Lineage(F) \cup {n}
      BY <1>3, <2>6, <3>1 DEF Lineage
    <3> QED BY <3>2, <3>3
  <2>10. n \in Lineage(F)' => rows[n].generation = r.generation + 1
    BY <1>0, <1>1, <2>5 DEF Lineage, SuccessorOf, Present
  <2>11. RowsOK'
    <3>1. granted' \subseteq minted'
      BY <1>1, <1>3, <2>4 DEF IInv, RowsOK
    <3>2. Replaced(rows[p])'
      BY <1>0, <1>1, <1>3, <2>3, <2>5 DEF Replaced, SuccessorOf
    <3>3. ASSUME NEW t \in Selectors \ {p}, Present(t) PROVE Replaced(rows[t])'
      BY <1>3, <2>2, <2>5, <3>3 DEF IInv, RowsOK, Replaced, SuccessorOf, TypeInv, TypeOK
    <3> QED BY <2>4, <2>5, <3>1, <3>2, <3>3 DEF IInv, RowsOK
  <2>12. CallsOK'
    <3>1. CopyOK(c)' /\ HolderOK(c)' /\ NextOK(c)' /\ ~ Inserted(c)'
      BY <2>4 DEF CopyOK, HolderOK, NextOK, Inserted, Presenting, Proved
    <3>2. ASSUME NEW d \in Calls \ {c} PROVE CopyOK(d)' /\ HolderOK(d)' /\ NextOK(d)'
      <4>1. CopyOK(d) /\ HolderOK(d) /\ NextOK(d) /\ Kept(d)
        BY <2>4 DEF IInv, CallsOK
      <4>2. CopyOK(d)'
        BY <1>3, <2>4, <2>5, <4>1 DEF CopyOK, Kept, CopyOf, Replaced, SuccessorOf, TypeInv, TypeOK
      <4>3. HolderOK(d)'
        BY <1>3, <4>1 DEF HolderOK, Presentable, Kept
      <4>4. Inserted(d) => nxt[d] # n
        BY <1>0, <2>4 DEF IInv, CallsOK, Inserted
      <4>5. NextOK(d)'
        BY <1>3, <2>4, <2>5, <4>1, <4>4 DEF NextOK, Inserted, SuccessorOf, Kept, TypeInv, TypeOK
      <4> QED BY <4>2, <4>3, <4>5
    <3> QED BY <2>4, <3>1, <3>2 DEF IInv, CallsOK, Inserted, Kept
  <2>13. FamiliesOK'
    <3>1. \A f : Unused(f) => Unused(f)'
      BY <2>4, <2>5 DEF Unused, Kept
    <3>2. \A d \in Calls : pc'[d] = "issue" => pc[d] = "issue" /\ arg'[d] = arg[d]
      BY <2>4 DEF Kept
    <3> QED BY <2>4, <3>1, <3>2 DEF IInv, FamiliesOK
  <2>14. NoFork'
    BY <2>8, <2>9 DEF IInv, LineOK, NoFork
  <2>15. LinearLineage'
    <3> SUFFICES ASSUME NEW f \in Families, NEW s \in Lineage(f)', NEW t \in Lineage(f)'
                 PROVE  /\ rows'[s].generation = rows'[t].generation => s = t
                        /\ IsActive(s)' => rows'[t].generation <= rows'[s].generation
      BY DEF LinearLineage
    <3>0. s \in Selectors /\ t \in Selectors
      BY <1>3 DEF Lineage, TypeInv, TypeOK
    <3>1. CASE f # F
      <4>1. s # p /\ t # p
        BY <2>3, <3>1 DEF Lineage
      <4>2. rows'[s] = rows[s] /\ rows'[t] = rows[t]
        BY <2>2, <3>0, <4>1
      <4> QED BY <2>8, <3>1, <4>2 DEF IInv, LineOK, LinearLineage, IsActive
    <3>2. CASE f = F
      <4>1. IsActive(s)' => s = n
        BY <2>9, <3>2 DEF Heads, Lineage
      <4>2. \A x \in Lineage(F)' :
              \/ x = n /\ rows[x].generation = r.generation + 1
              \/ x \in Lineage(F) /\ rows[x].generation <= r.generation
        BY <2>7, <2>9, <2>10
      <4>3. rows[s].generation = rows[t].generation => s = t
        BY <1>0, <2>6, <3>2, <4>2 DEF IInv, LineOK, LinearLineage
      <4>4. s = n => rows[t].generation <= rows[s].generation
        <5>1. n \notin Lineage(F)
          BY <1>1 DEF Lineage
        <5>2. rows[t].generation \in Int
          BY <3>0, <2>5, <3>2, RecordStatus DEF Lineage, TypeInv, TypeOK, Present, TokenRecord
        <5> QED BY <1>0, <3>2, <4>2, <5>1, <5>2
      <4> QED BY <2>5, <3>0, <4>1, <4>3, <4>4
    <3> QED BY <3>1, <3>2
  <2>16. LineOK'
    <3>1. \A d \in Calls : Retrying(d)' => d # c /\ Retrying(d) /\ rec'[d] = rec[d]
      BY <2>4 DEF Retrying, Kept
    <3>2. ASSUME NEW d \in Calls, Retrying(d)' PROVE RetryOK(d)'
      <4>1. PICK G : G = rec[d].familyId /\ G = rec'[d].familyId /\ G # F
        BY <2>7, <3>1, <3>2
      <4>2. \A t \in Lineage(G)' : rows'[t].generation = rows[t].generation
        BY <1>3, <2>5 DEF Lineage, TypeInv, TypeOK
      <4> QED BY <2>8, <3>1, <3>2, <4>1, <4>2 DEF IInv, LineOK, RetryOK
    <3>3. \A d \in Calls : RetryOK(d)'
      BY <3>2 DEF RetryOK
    <3> QED BY <2>14, <2>15, <3>1, <3>3 DEF IInv, LineOK
  <2> QED BY <2>11, <2>12, <2>13, <2>16 DEF IInv
<1> QED BY <1>0, <1>2, <1>3 DEF MarkPredecessor

-----------------------------------------------------------------------------

LEMMA StepIInv == TypeInv /\ TypeInv' /\ IInv /\ [Next]_vars => IInv'
<1> SUFFICES ASSUME TypeInv, TypeInv', IInv, [Next]_vars PROVE IInv'
  OBVIOUS
<1>1. CASE UNCHANGED vars
  <2>1. \A d \in Calls : Kept(d)
    BY <1>1 DEF vars, callVars, Kept
  <2> QED BY <1>1, <2>1, SameStore, QuietStep DEF vars, storeVars, historyVars
<1>2. CASE Next
  BY <1>2, BeginLine, CheckLine, RevokeLine, IssueLine, ConsumeLine, InsertLine, MarkLine
  DEF Next, Progress
<1> QED BY <1>1, <1>2

LEMMA IInvCorrect == Spec => [](TypeInv /\ IInv)
  BY InitIInv, StepIInv, LocalsCorrect, PTL DEF Spec

-----------------------------------------------------------------------------
(* Revocation: nothing brings the lineage of a revoked family back.         *)

\* Apart from the three writes of issue and #rotate, rows are only revoked or
\* collected.
LEMMA ShrinkingSteps ==
  ASSUME TypeInv, [Next]_vars
  PROVE  Shrinks \/ \E c \in Calls : IssueInsert(c) \/ InsertSuccessor(c) \/ MarkPredecessor(c)
<1>1. ASSUME UNCHANGED <<rows, minted, granted>> PROVE Shrinks
  BY <1>1 DEF Shrinks
<1>2. ASSUME NEW S, RevokeRows(S), \A s \in S : Present(s), UNCHANGED <<minted, granted>>
      PROVE  Shrinks
  BY <1>2 DEF RevokeRows, Shrinks
<1>3. ASSUME NEW s \in Selectors, RevokeIfActive(s), UNCHANGED <<minted, granted>>
      PROVE  Shrinks
  BY <1>3 DEF RevokeIfActive, RevokeIfActiveApplies, IsActive, Present, Shrinks, TypeInv, TypeOK
<1>4. CASE UNCHANGED vars
  BY <1>1, <1>4 DEF vars, storeVars, historyVars
<1>5. ASSUME NEW c \in Calls,
             \/ \E a \in IssueArg : BeginIssue(c, a)
             \/ \E a \in PresentArg, kid \in Kids : BeginPresent(c, a, kid)
             \/ RefuseMalformed(c) \/ Find(c) \/ RefuseUnproved(c) \/ CheckRevokeToken(c)
             \/ CheckRotated(c) \/ CheckRevoked(c) \/ CheckActive(c) \/ FindSuccessor(c)
             \/ Abort(c)
      PROVE  Shrinks
  BY <1>1, <1>5 DEF BeginIssue, BeginPresent, Begin, RefuseMalformed, Find, RefuseUnproved,
     CheckRevokeToken, CheckRotated, CheckRevoked, CheckActive, FindSuccessor, Abort,
     storeVars, historyVars
<1>6. ASSUME NEW c \in Calls, Consume(c) \/ Compensate(c) PROVE Shrinks
  <2>1. nxt[c] \in Selectors
    BY <1>6 DEF Consume, Compensate, TypeInv, LocalsOK
  <2> QED BY <1>3, <1>6, <2>1 DEF Consume, Compensate, historyVars
<1>7. ASSUME NEW c \in Calls, RevokeFamilyOf(c) PROVE Shrinks
  BY <1>2, <1>7 DEF RevokeFamilyOf, RevokeFamily, InFamily
<1>8. ASSUME NEW f \in Families, AdminRevokeFamily(f) PROVE Shrinks
  BY <1>2, <1>8 DEF AdminRevokeFamily, RevokeFamily, InFamily
<1>9. ASSUME NEW u \in Users, AdminRevokeUser(u) PROVE Shrinks
  BY <1>2, <1>9 DEF AdminRevokeUser, RevokeUser, OfUser
<1>10. CASE DeleteExpired
  BY <1>10 DEF DeleteExpired, Shrinks, historyVars
<1>11. CASE Tick
  BY <1>1, <1>11 DEF Tick, historyVars
<1> QED BY <1>4, <1>5, <1>6, <1>7, <1>8, <1>9, <1>10, <1>11 DEF Next, Progress

\* A lineage starts with a login, or goes on.
LEMMA LineageStarts ==
  ASSUME TypeInv, IInv, [Next]_vars, NEW f \in Families, Lineage(f)' # {}
  PROVE  Lineage(f) # {} \/ Opening(f)
<1>1. CASE Shrinks
  BY <1>1, ShrunkLineage
<1>2. ASSUME NEW c \in Calls, IssueInsert(c) PROVE Lineage(f) # {} \/ Opening(f)
  <2>1. pc[c] = "issue" /\ arg[c].familyId \in Families
    BY <1>2 DEF IssueInsert, TypeInv, LocalsOK, IssueArg
  <2>2. PICK s \in Fresh : /\ \A t \in Selectors \ {s} : rows'[t] = rows[t]
                           /\ rows'[s].familyId = arg[c].familyId /\ granted' = granted \cup {s}
    BY <1>2 DEF IssueInsert, Insert, Mint, Fresh, TypeInv, TypeOK
  <2> QED BY <2>1, <2>2 DEF Lineage, Opening, TypeInv, TypeOK
<1>3. ASSUME NEW c \in Calls, InsertSuccessor(c) PROVE Lineage(f) # {} \/ Opening(f)
  <2>1. PICK s \in Fresh : \A t \in Selectors \ {s} : rows'[t] = rows[t]
    BY <1>3 DEF InsertSuccessor, Insert, Fresh, TypeInv, TypeOK
  <2>2. s \notin granted /\ granted' = granted
    BY <1>3, <2>1 DEF InsertSuccessor, Fresh, IInv, RowsOK
  <2> QED BY <2>1, <2>2 DEF Lineage, TypeInv, TypeOK
<1>4. ASSUME NEW c \in Calls, MarkPredecessor(c) PROVE Lineage(f) # {} \/ Opening(f)
  <2> DEFINE p == arg[c].selector
             n == nxt[c]
  <2>1. CASE UNCHANGED <<rows, granted>>
    BY <2>1 DEF Lineage
  <2>2. CASE /\ MarkRotatedApplies(p, rec[c].status)
             /\ MarkRotated(p, RotatedAt(rec[c], at[c]), n)
             /\ granted' = granted \cup {n}
    <3>1. /\ p \in Selectors /\ n \in Selectors /\ rec[c] \in TokenRecord
          /\ rec[c].status \in {"active", "rotated"} /\ rec[c] # NoRow
      BY <1>4, RecordStatus DEF MarkPredecessor, TypeInv, LocalsOK, Proved, Presenting, Rotating, RefreshArg
    <3>2. p \in granted /\ CopyOf(rec[c], p) /\ SuccessorOf(n, rec[c])
      BY <1>4, <3>1 DEF MarkPredecessor, IInv, CallsOK, CopyOK, HolderOK, NextOK, Inserted, Proved,
                        Presenting
    <3>3. Present(p) /\ rows[p].familyId = rec[c].familyId /\ rows[p] \in TokenRecord
          /\ rows[p].status \in {"active", "rotated"}
      BY <2>2, <3>1, <3>2, RecordStatus DEF MarkRotatedApplies, CopyOf, Present, TypeInv, TypeOK
    <3>4. p \in Lineage(rec[c].familyId)
      BY <3>2, <3>3 DEF Lineage
    <3>5. /\ \A t \in Selectors \ {p} : rows'[t] = rows[t]
          /\ rows'[p].familyId = rec[c].familyId
      BY <2>2, <3>1, <3>3 DEF MarkRotated, TokenRecord, TypeInv, TypeOK
    <3>6. ASSUME NEW t \in Lineage(f)' PROVE Lineage(f) # {}
      <4>1. CASE t = p
        BY <3>4, <3>5, <4>1 DEF Lineage
      <4>2. CASE t = n /\ t # p
        BY <3>1, <3>2, <3>4, <3>5, <4>2 DEF Lineage, SuccessorOf, Present
      <4>3. CASE t \notin {p, n}
        BY <2>2, <3>5, <4>3 DEF Lineage, TypeInv, TypeOK
      <4> QED BY <4>1, <4>2, <4>3
    <3> QED BY <3>6
  <2> QED BY <1>4, <2>1, <2>2 DEF MarkPredecessor
<1> QED BY <1>1, <1>2, <1>3, <1>4, ShrinkingSteps

\* A family is opened once.
LEMMA OpeningEnds ==
  ASSUME TypeInv, TypeInv', [Next]_vars, NEW f \in Families, Opening(f)'
  PROVE  Opening(f)
<1>1. ASSUME charter' = charter, \A d \in Calls : pc'[d] = "issue" => pc[d] = "issue" /\ arg'[d] = arg[d]
      PROVE  Opening(f)
  BY <1>1 DEF Opening
<1>2. ASSUME NEW c \in Calls, NEW a \in IssueArg, BeginIssue(c, a) PROVE Opening(f)
  <2>1. /\ charter[a.familyId] = None /\ arg'[c] = a
        /\ \A g \in Families \ {a.familyId} : charter'[g] = charter[g]
        /\ \A d \in Calls \ {c} : pc'[d] = pc[d] /\ arg'[d] = arg[d]
    BY <1>2 DEF BeginIssue, Begin, GoTo, TypeInv, TypeOK
  <2> QED BY <2>1 DEF Opening
<1>3. ASSUME NEW c \in Calls, NEW code, Return(c, code), charter' = charter PROVE Opening(f)
  BY <1>1, <1>3 DEF Return, TypeInv, TypeOK
<1>4. ASSUME NEW c \in Calls, NEW step, step # "issue", GoTo(c, step), charter' = charter,
             \/ arg' = arg
             \/ \E a : pc[c] = "idle" /\ arg' = [arg EXCEPT ![c] = a]
      PROVE  Opening(f)
  BY <1>1, <1>4 DEF GoTo, TypeInv, TypeOK
<1>5. ASSUME UNCHANGED <<charter, callVars>> PROVE Opening(f)
  BY <1>1, <1>5 DEF callVars
<1>6. ASSUME NEW c \in Calls, NEW a \in PresentArg, NEW kid \in Kids, BeginPresent(c, a, kid)
      PROVE  Opening(f)
  BY <1>3, <1>4, <1>6 DEF BeginPresent, Begin, historyVars
<1>7. ASSUME NEW c \in Calls, RefuseMalformed(c) \/ RefuseUnproved(c) \/ CheckRevoked(c) \/ Abort(c)
                              \/ IssueInsert(c) \/ Compensate(c) \/ RevokeFamilyOf(c)
      PROVE  Opening(f)
  BY <1>3, <1>7 DEF RefuseMalformed, RefuseUnproved, CheckRevoked, Abort, IssueInsert, Compensate,
                    RevokeFamilyOf, historyVars
<1>8. ASSUME NEW c \in Calls, Find(c) \/ CheckRevokeToken(c) \/ CheckRotated(c) \/ CheckActive(c)
                              \/ FindSuccessor(c) \/ InsertSuccessor(c)
      PROVE  Opening(f)
  BY <1>4, <1>8 DEF Find, CheckRevokeToken, CheckRotated, CheckActive, FindSuccessor,
                    InsertSuccessor, RevokeThenReturn, historyVars
<1>9. ASSUME NEW c \in Calls, Consume(c) \/ MarkPredecessor(c) PROVE Opening(f)
  BY <1>3, <1>4, <1>9 DEF Consume, MarkPredecessor, historyVars
<1>10. ASSUME \/ \E g \in Families : AdminRevokeFamily(g)
              \/ \E u \in Users : AdminRevokeUser(u)
              \/ DeleteExpired \/ Tick \/ UNCHANGED vars
       PROVE  Opening(f)
  BY <1>5, <1>10 DEF AdminRevokeFamily, AdminRevokeUser, DeleteExpired, Tick, vars, historyVars
<1> QED BY <1>2, <1>6, <1>7, <1>8, <1>9, <1>10 DEF Next, Progress

\* A revocation of whole families leaves nothing of their lineage.
LEMMA RevokedFamilies ==
  ASSUME TypeInv, NEW S \in SUBSET {s \in Selectors : Present(s)}, RevokeRows(S),
         \A s \in S, t \in Selectors : InFamily(t, rows[s].familyId) => t \in S,
         granted' = granted
  PROVE  \A f \in dead' \ dead : Lineage(f)' = {} /\ ~ Unused(f)
<1>1. \A s \in S : rows[s] \in TokenRecord
  BY RecordStatus DEF TypeInv, TypeOK, Present
<1>2. \A s \in S : rows'[s].status = "revoked"
  BY <1>1 DEF RevokeRows, Revoked, TokenRecord
<1>3. \A s \in Selectors : s \notin S => rows'[s] = rows[s]
  BY DEF RevokeRows
<1>4. granted \subseteq Selectors
  BY DEF TypeInv, TypeOK
<1> SUFFICES ASSUME NEW f \in dead' \ dead PROVE Lineage(f)' = {} /\ ~ Unused(f)
  OBVIOUS
<1>5. PICK s \in S : f = rows[s].familyId
  BY DEF RevokeRows
<1>6. \A t \in Selectors : InFamily(t, f) => t \in S
  BY <1>5
<1>7. Lineage(f)' = {}
  BY <1>2, <1>3, <1>4, <1>6 DEF Lineage, InFamily, Present
<1> QED BY <1>5, <1>7 DEF Unused

\* revokeFamily takes all of one family, revokeUser all of each family it
\* finds: a family has one user.
LEMMA NewlyDead ==
  ASSUME TypeInv, CharterInv, [Next]_vars
  PROVE  \A f \in dead' \ dead : Lineage(f)' = {} /\ ~ Unused(f)
<1> DEFINE Goal == \A f \in dead' \ dead : Lineage(f)' = {} /\ ~ Unused(f)
<1>1. ASSUME NEW g, RevokeFamily(g), granted' = granted PROVE Goal
  <2> DEFINE S == {s \in Selectors : InFamily(s, g)}
  <2>1. S \in SUBSET {s \in Selectors : Present(s)} /\ RevokeRows(S)
    BY <1>1 DEF RevokeFamily, InFamily
  <2>2. \A s \in S, t \in Selectors : InFamily(t, rows[s].familyId) => t \in S
    BY DEF InFamily
  <2> HIDE DEF S
  <2> QED BY <1>1, <2>1, <2>2, RevokedFamilies
<1>2. ASSUME NEW u, RevokeUser(u), granted' = granted PROVE Goal
  <2> DEFINE S == {s \in Selectors : OfUser(s, u)}
  <2>1. S \in SUBSET {s \in Selectors : Present(s)} /\ RevokeRows(S)
    BY <1>2 DEF RevokeUser, OfUser
  <2>2. \A s \in S, t \in Selectors : InFamily(t, rows[s].familyId) => t \in S
    BY DEF CharterInv, CharterKept, FromLogin, InFamily, OfUser
  <2> HIDE DEF S
  <2> QED BY <1>2, <2>1, <2>2, RevokedFamilies
<1>3. ASSUME dead' = dead PROVE Goal
  BY <1>3
<1> HIDE DEF Goal
<1>4. ASSUME NEW c \in Calls,
             \/ \E a \in IssueArg : BeginIssue(c, a)
             \/ \E a \in PresentArg, kid \in Kids : BeginPresent(c, a, kid)
             \/ RefuseMalformed(c) \/ Abort(c) \/ IssueInsert(c) \/ Find(c) \/ RefuseUnproved(c)
             \/ CheckRevokeToken(c) \/ CheckRotated(c) \/ CheckRevoked(c) \/ CheckActive(c)
             \/ FindSuccessor(c) \/ Consume(c) \/ InsertSuccessor(c) \/ MarkPredecessor(c)
             \/ Compensate(c)
      PROVE  Goal
  BY <1>3, <1>4 DEF BeginIssue, BeginPresent, Begin, RefuseMalformed, Abort, IssueInsert, Find,
     RefuseUnproved, CheckRevokeToken, CheckRotated, CheckRevoked, CheckActive, FindSuccessor,
     Consume, InsertSuccessor, MarkPredecessor, Compensate, historyVars
<1>5. ASSUME \/ \E c \in Calls : RevokeFamilyOf(c)
             \/ \E g \in Families : AdminRevokeFamily(g)
             \/ \E u \in Users : AdminRevokeUser(u)
      PROVE  Goal
  BY <1>1, <1>2, <1>5 DEF RevokeFamilyOf, AdminRevokeFamily, AdminRevokeUser
<1>6. ASSUME DeleteExpired \/ Tick \/ UNCHANGED vars PROVE Goal
  BY <1>3, <1>6 DEF DeleteExpired, Tick, vars, historyVars
<1>7. Goal
  BY <1>4, <1>5, <1>6 DEF Next, Progress
<1> QED BY <1>7 DEF Goal

LEMMA StepDead ==
  TypeInv /\ TypeInv' /\ CharterInv /\ IInv /\ DeadOK /\ [Next]_vars => DeadOK'
<1> SUFFICES ASSUME TypeInv, TypeInv', CharterInv, IInv, DeadOK, [Next]_vars, NEW f \in dead'
             PROVE  Lineage(f)' = {} /\ ~ Opening(f)'
  BY DEF DeadOK
<1>1. f \in Families
  BY DEF TypeInv, TypeOK
<1>2. CASE f \in dead
  BY <1>1, <1>2, LineageStarts, OpeningEnds DEF DeadOK
<1>3. CASE f \notin dead
  <2>1. Lineage(f)' = {} /\ ~ Unused(f)
    BY <1>3, NewlyDead
  <2>2. Opening(f) => Unused(f)
    BY <1>1 DEF Opening, IInv, FamiliesOK
  <2> QED BY <1>1, <2>1, <2>2, OpeningEnds
<1> QED BY <1>2, <1>3

\* Everything that is known of the engine, for the proofs that build on it.
THEOREM EngineCorrect == Spec => [](TypeInv /\ CharterInv /\ IInv /\ DeadOK)
<1>1. Init => DeadOK
  BY DEF Init, DeadOK
<1> QED BY <1>1, StepDead, CharterCorrect, IInvCorrect, PTL DEF Spec

-----------------------------------------------------------------------------

\* A family never forks: two refreshes, grace retries, failures and
\* revocations in any interleaving leave at most one token of the family that
\* a caller holds and #rotate would exchange.  The guards this rests on are
\* the compare-and-set of markRotated and the result of revokeIfActive.
THEOREM NoForkTheorem == Spec => []NoFork
<1>1. IInv => NoFork
  BY DEF IInv, LineOK
<1> QED BY <1>1, IInvCorrect, PTL

\* The lineage is one line of generations whose exchangeable token is last.
THEOREM LinearTheorem == Spec => []LinearLineage
<1>1. IInv => LinearLineage
  BY DEF IInv, LineOK
<1> QED BY <1>1, IInvCorrect, PTL

\* Once revokeFamily or revokeUser has run, no call that was already in
\* flight brings the family back.
THEOREM RevocationTheorem == Spec => []RevocationHolds
<1>1. DeadOK => RevocationHolds
  BY DEF DeadOK, RevocationHolds, Heads, Lineage, IsActive
<1> QED BY <1>1, EngineCorrect, PTL

=============================================================================
