------------------------- MODULE NebulaEngineProofs -------------------------
(***************************************************************************)
(* Proofs about NebulaEngine, for any number of calls, engines, peppers,   *)
(* families and selectors and any deadlines.                               *)
(***************************************************************************)
EXTENDS NebulaEngine, TLAPS

-----------------------------------------------------------------------------
(* What the locals of a call hold at each step.                             *)

Presenting == {"find", "check", "findSuccessor", "consume", "insert",
               "markRotated", "compensate", "revokeFamily"}
Proved     == Presenting \ {"find", "check"}
Rotating   == {"insert", "markRotated", "compensate"}

LocalsOK(c) ==
  /\ pc[c] = "issue" => arg[c] \in IssueArg
  /\ pc[c] \in Presenting => arg[c] \in PresentArg
  /\ pc[c] \in Proved => rec[c] \in TokenRecord
  /\ pc[c] \in Proved \ {"revokeFamily"} => arg[c] \in RefreshArg
  /\ pc[c] = "findSuccessor" => rec[c].replacedBySelector \in Selectors
  /\ pc[c] \in {"findSuccessor", "consume"} =>
       rec[c].status = "rotated" /\ rec[c].rotatedAt \in Nat
  /\ pc[c] \in Rotating =>
       rec[c].status = "active" \/ (rec[c].status = "rotated" /\ rec[c].rotatedAt \in Nat)
  /\ pc[c] \in {"consume", "markRotated", "compensate"} => nxt[c] \in Selectors
  /\ pc[c] = "revokeFamily" => verdict[c] \in Codes

TypeInv == TypeOK /\ \A c \in Calls : LocalsOK(c)

-----------------------------------------------------------------------------
(* Facts about the operators.                                               *)

\* #mint makes a record.
LEMMA MintType ==
  ASSUME NEW e \in Engines, NEW s \in Selectors, NEW f \in Families, NEW g \in Nat,
         NEW u \in Users, NEW h \in (Kids \X Devices) \cup {None},
         NEW x \in Nat, NEW n \in Nat
  PROVE  Mint(e, s, f, g, u, h, x, n) \in TokenRecord
  BY ConfigAssumption DEF Mint, TokenRecord, TokenStatus, Hmac, Least

\* Revoking a record leaves a record.
LEMMA RevokedType ==
  ASSUME NEW r \in TokenRecord
  PROVE  Revoked(r) \in TokenRecord
  BY DEF Revoked, TokenRecord, TokenStatus

\* markRotated leaves a record.
LEMMA MarkedType ==
  ASSUME NEW r \in TokenRecord, NEW t \in Nat, NEW s \in Selectors
  PROVE  [r EXCEPT !.status = "rotated", !.rotatedAt = t,
                   !.replacedBySelector = s] \in TokenRecord
  BY DEF TokenRecord, TokenStatus

\* A record is told from NoRow by its status.
LEMMA RecordStatus ==
  /\ NoRow.status = "absent"
  /\ \A r \in TokenRecord : r.status \in TokenStatus /\ r.status # "absent" /\ r # NoRow
  BY DEF NoRow, TokenRecord, TokenStatus

\* The hash a rotation binds is a hash, or nothing.
LEMMA NextDeviceIdHashType ==
  ASSUME NEW r \in TokenRecord, NEW a \in RefreshArg
  PROVE  NextDeviceIdHash(r, a) \in (Kids \X Devices) \cup {None}
  BY ConfigAssumption DEF NextDeviceIdHash, TokenRecord, RefreshArg, Hmac

-----------------------------------------------------------------------------
(* Type correctness.                                                        *)

\* A call that returns leaves the types of all locals as they should be.
LEMMA ReturnType ==
  ASSUME TypeInv, NEW c \in Calls, NEW code \in Codes, Return(c, code)
  PROVE  /\ pc' \in [Calls -> Steps] /\ arg' \in [Calls -> IssueArg \cup PresentArg \cup {None}]
         /\ rec' \in [Calls -> TokenRecord \cup {NoRow}] /\ at' \in [Calls -> Nat]
         /\ nxt' \in [Calls -> Selectors \cup {None}]
         /\ verdict' \in [Calls -> Codes \cup {None}]
         /\ reply' \in Codes \cup {None}
         /\ \A d \in Calls : LocalsOK(d)'
  BY DEF TypeInv, TypeOK, LocalsOK, Return, Steps, Presenting, Proved, Rotating

LEMMA InitType == Init => TypeInv
  BY ConfigAssumption, BoundAssumption
  DEF Init, TypeInv, TypeOK, LocalsOK, Steps, Presenting, Proved, Rotating

LEMMA BeginType ==
  ASSUME TypeInv, NEW c \in Calls
  PROVE  /\ \A a \in IssueArg : BeginIssue(c, a) => TypeInv'
         /\ \A a \in PresentArg, kid \in Kids : BeginPresent(c, a, kid) => TypeInv'
         /\ RefuseMalformed(c) => TypeInv'
<1>1. ASSUME NEW a \in IssueArg, BeginIssue(c, a) PROVE TypeInv'
  <2>1. [userId |-> a.userId, deviceId |-> a.deviceId, expiresAt |-> clock + AbsoluteTtl]
          \in Login
    BY ConfigAssumption DEF IssueArg, Login, TypeInv, TypeOK
  <2>2. a.familyId \in Families
    BY DEF IssueArg
  <2>3. TypeOK'
    BY <1>1, <2>1, <2>2
    DEF BeginIssue, Begin, GoTo, Silent, TypeInv, TypeOK, Steps, storeVars
  <2>4. \A d \in Calls : LocalsOK(d)'
    BY <1>1 DEF BeginIssue, Begin, GoTo, Silent, TypeInv, TypeOK, LocalsOK, Steps,
               Presenting, Proved, Rotating, storeVars
  <2> QED BY <2>3, <2>4 DEF TypeInv
<1>2. ASSUME NEW a \in PresentArg, NEW kid \in Kids, BeginPresent(c, a, kid)
      PROVE  TypeInv'
  <2>1. CASE Begin(c, a, "find", 0) /\ UNCHANGED charter
    <3>1. TypeOK'
      BY <2>1 DEF Begin, GoTo, Silent, TypeInv, TypeOK, Steps, storeVars
    <3>2. \A d \in Calls : LocalsOK(d)'
      BY <2>1 DEF Begin, GoTo, Silent, TypeInv, TypeOK, LocalsOK, Steps,
                  Presenting, Proved, Rotating, storeVars
    <3> QED BY <3>1, <3>2 DEF TypeInv
  <2>2. CASE Return(c, "UNKNOWN_KID") /\ UNCHANGED <<storeVars, historyVars>>
    BY <2>2, ReturnType DEF Codes, TypeInv, TypeOK, storeVars, historyVars
  <2> QED BY <1>2, <2>1, <2>2 DEF BeginPresent
<1>3. ASSUME RefuseMalformed(c) PROVE TypeInv'
  BY <1>3, ReturnType DEF RefuseMalformed, Codes, TypeInv, TypeOK, storeVars, historyVars
<1> QED BY <1>1, <1>2, <1>3

\* The steps of a call up to its decision.
LEMMA CheckType ==
  ASSUME TypeInv, NEW c \in Calls
  PROVE  /\ Find(c) => TypeInv'
         /\ RefuseUnproved(c) => TypeInv'
         /\ CheckRevokeToken(c) => TypeInv'
         /\ CheckRotated(c) => TypeInv'
         /\ CheckRevoked(c) => TypeInv'
         /\ CheckActive(c) => TypeInv'
<1>1. ASSUME Find(c) PROVE TypeInv'
  <2>1. arg[c] \in PresentArg /\ arg[c].selector \in Selectors
    BY <1>1 DEF Find, TypeInv, LocalsOK, Presenting, PresentArg, RefreshArg, RevokeArg
  <2> QED
    BY <1>1, <2>1 DEF Find, GoTo, Silent, TypeInv, TypeOK, LocalsOK, Steps, Presenting,
                      Proved, Rotating, storeVars, historyVars
<1>2. ASSUME RefuseUnproved(c) PROVE TypeInv'
  BY <1>2, ReturnType DEF RefuseUnproved, Codes, TypeInv, TypeOK, storeVars, historyVars
<1>3. ASSUME pc[c] = "check", VerifierProved(rec[c], arg[c])
      PROVE  rec[c] \in TokenRecord /\ arg[c] \in PresentArg
  BY <1>3 DEF VerifierProved, TypeInv, TypeOK, LocalsOK, Presenting
<1>4. ASSUME CheckRevokeToken(c) PROVE TypeInv'
  BY <1>3, <1>4 DEF CheckRevokeToken, RevokeThenReturn, GoTo, Silent, TypeInv, TypeOK,
                    LocalsOK, Steps, Codes, Presenting, Proved, Rotating, storeVars, historyVars
<1>5. ASSUME NEW status, Refreshing(c, status)
      PROVE  rec[c] \in TokenRecord /\ arg[c] \in RefreshArg /\ pc[c] = "check"
  BY <1>3, <1>5 DEF Refreshing, PresentArg, RefreshArg, RevokeArg
<1>6. ASSUME CheckRotated(c) PROVE TypeInv'
  <2>1. rec[c] \in TokenRecord /\ arg[c] \in RefreshArg /\ arg[c] \in PresentArg
        /\ pc[c] = "check" /\ rec[c].status = "rotated"
    BY <1>5, <1>6 DEF CheckRotated, Refreshing, PresentArg
  <2>2. CASE WithinGrace(rec[c], clock) /\ GoTo(c, "findSuccessor") /\ UNCHANGED verdict
    <3>1. rec[c].rotatedAt \in Nat /\ rec[c].replacedBySelector \in Selectors
      BY <2>1, <2>2 DEF WithinGrace, TokenRecord
    <3> QED
      BY <1>6, <2>1, <2>2, <3>1 DEF CheckRotated, GoTo, Silent, TypeInv, TypeOK,
         LocalsOK, Steps, Presenting, Proved, Rotating, storeVars, historyVars
  <2>3. CASE RevokeThenReturn(c, "REUSE_DETECTED")
    BY <1>6, <2>1, <2>3 DEF CheckRotated, RevokeThenReturn, GoTo, Silent, TypeInv, TypeOK,
       LocalsOK, Steps, Codes, Presenting, Proved, Rotating, storeVars, historyVars
  <2> QED BY <1>6, <2>2, <2>3 DEF CheckRotated
<1>7. ASSUME CheckRevoked(c) PROVE TypeInv'
  BY <1>7, ReturnType DEF CheckRevoked, Codes, TypeInv, TypeOK, storeVars, historyVars
<1>8. ASSUME CheckActive(c) PROVE TypeInv'
  <2>1. rec[c] \in TokenRecord /\ arg[c] \in RefreshArg /\ arg[c] \in PresentArg
        /\ pc[c] = "check" /\ rec[c].status = "active"
    BY <1>5, <1>8 DEF CheckActive, Refreshing, PresentArg
  <2>2. CASE GoTo(c, "insert") /\ UNCHANGED verdict
    BY <1>8, <2>1, <2>2 DEF CheckActive, GoTo, Silent, TypeInv, TypeOK,
       LocalsOK, Steps, Presenting, Proved, Rotating, storeVars, historyVars
  <2>3. CASE \E code \in Codes : RevokeThenReturn(c, code)
    BY <1>8, <2>1, <2>3 DEF CheckActive, RevokeThenReturn, GoTo, Silent, TypeInv, TypeOK,
       LocalsOK, Steps, Presenting, Proved, Rotating, storeVars, historyVars
  <2> QED BY <1>8, <2>2, <2>3 DEF CheckActive, Codes
<1> QED BY <1>1, <1>2, <1>4, <1>6, <1>7, <1>8

\* What the store calls leave in the store.
LEMMA StoreType ==
  ASSUME TypeInv
  PROVE  /\ \A s \in Selectors : RevokeIfActive(s)
              => rows' \in [Selectors -> TokenRecord \cup {NoRow}]
         /\ \A s \in Selectors, r \in TokenRecord : Insert(s, r)
              => rows' \in [Selectors -> TokenRecord \cup {NoRow}]
         /\ \A S \in SUBSET {s \in Selectors : Present(s)} : RevokeRows(S)
              => rows' \in [Selectors -> TokenRecord \cup {NoRow}] /\ dead' \subseteq Families
<1>1. \A s \in Selectors : Present(s) => rows[s] \in TokenRecord
  BY RecordStatus DEF TypeInv, TypeOK, Present
<1>2. \A s \in Selectors : Present(s) => Revoked(rows[s]) \in TokenRecord
  BY <1>1, RevokedType
<1>3. \A s \in Selectors : RevokeIfActiveApplies(s) => Present(s)
  BY DEF RevokeIfActiveApplies, IsActive, Present
<1>4. ASSUME NEW S \in SUBSET {s \in Selectors : Present(s)}, RevokeRows(S)
      PROVE  rows' \in [Selectors -> TokenRecord \cup {NoRow}] /\ dead' \subseteq Families
  <2>1. \A s \in S : rows[s].familyId \in Families
    BY <1>1 DEF TokenRecord
  <2> QED BY <1>2, <1>4, <2>1 DEF RevokeRows, TypeInv, TypeOK
<1> QED
  BY <1>2, <1>3, <1>4 DEF RevokeIfActive, Insert, TypeInv, TypeOK

\* The steps of a call after its decision.
LEMMA RotateType ==
  ASSUME TypeInv, NEW c \in Calls
  PROVE  /\ IssueInsert(c) => TypeInv'
         /\ FindSuccessor(c) => TypeInv'
         /\ Consume(c) => TypeInv'
         /\ InsertSuccessor(c) => TypeInv'
         /\ MarkPredecessor(c) => TypeInv'
         /\ Compensate(c) => TypeInv'
         /\ RevokeFamilyOf(c) => TypeInv'
         /\ Abort(c) => TypeInv'
<1>1. ASSUME IssueInsert(c) PROVE TypeInv'
  <2> DEFINE a == arg[c]
             hash == IF a.deviceId = None THEN None ELSE Hmac(ActiveKid[a.engine], a.deviceId)
  <2>1. /\ a.engine \in Engines /\ a.familyId \in Families /\ a.userId \in Users
        /\ a.deviceId \in Devices \cup {None}
    BY <1>1 DEF IssueInsert, TypeInv, LocalsOK, IssueArg
  <2>2. hash \in (Kids \X Devices) \cup {None}
    BY <2>1, ConfigAssumption DEF Hmac
  <2>3. at[c] \in Nat /\ at[c] + AbsoluteTtl \in Nat
    BY ConfigAssumption DEF TypeInv, TypeOK
  <2> HIDE DEF hash
  <2>4. PICK s \in Fresh :
          /\ Insert(s, Mint(a.engine, s, a.familyId, 0, a.userId, hash,
                            at[c] + AbsoluteTtl, at[c]))
          /\ minted' = minted \cup {s}
          /\ granted' = granted \cup {s}
    BY <1>1 DEF IssueInsert, hash
  <2>5. Mint(a.engine, s, a.familyId, 0, a.userId, hash, at[c] + AbsoluteTtl, at[c])
          \in TokenRecord
    BY <2>1, <2>2, <2>3, MintType DEF Fresh
  <2>6. rows' \in [Selectors -> TokenRecord \cup {NoRow}]
    BY <2>4, <2>5, StoreType DEF Fresh
  <2> QED
    BY <1>1, <2>4, <2>6, ReturnType DEF IssueInsert, Fresh, Codes, TypeInv, TypeOK
<1>2. ASSUME FindSuccessor(c) PROVE TypeInv'
  <2>1. /\ rec[c] \in TokenRecord /\ arg[c] \in RefreshArg /\ arg[c] \in PresentArg
        /\ pc[c] = "findSuccessor" /\ rec[c].replacedBySelector \in Selectors
        /\ rec[c].status = "rotated" /\ rec[c].rotatedAt \in Nat
    BY <1>2 DEF FindSuccessor, TypeInv, LocalsOK, Presenting, Proved
  <2>2. CASE GoTo(c, "consume") /\ UNCHANGED verdict
             /\ nxt' = [nxt EXCEPT ![c] = rec[c].replacedBySelector]
    BY <1>2, <2>1, <2>2 DEF FindSuccessor, GoTo, Silent, TypeInv, TypeOK,
       LocalsOK, Steps, Presenting, Proved, Rotating, storeVars, historyVars
  <2>3. CASE \E code \in Codes : RevokeThenReturn(c, code) /\ UNCHANGED nxt
    BY <1>2, <2>1, <2>3 DEF FindSuccessor, RevokeThenReturn, GoTo, Silent, TypeInv, TypeOK,
       LocalsOK, Steps, Presenting, Proved, Rotating, storeVars, historyVars
  <2> QED BY <1>2, <2>2, <2>3 DEF FindSuccessor, Codes
<1>3. ASSUME Consume(c) PROVE TypeInv'
  <2>1. nxt[c] \in Selectors /\ pc[c] = "consume"
    BY <1>3 DEF Consume, TypeInv, LocalsOK
  <2>2. rows' \in [Selectors -> TokenRecord \cup {NoRow}]
    BY <1>3, <2>1, StoreType DEF Consume
  <2>3. CASE Return(c, "CONFLICT")
    BY <1>3, <2>2, <2>3, ReturnType DEF Consume, Codes, TypeInv, TypeOK, historyVars
  <2>4. CASE GoTo(c, "insert") /\ nxt' = [nxt EXCEPT ![c] = None]
             /\ UNCHANGED <<arg, rec, at, verdict>>
    BY <1>3, <2>1, <2>2, <2>4 DEF Consume, GoTo, Silent, TypeInv, TypeOK, LocalsOK, Steps,
       Presenting, Proved, Rotating, historyVars
  <2> QED BY <1>3, <2>3, <2>4 DEF Consume
<1>4. ASSUME InsertSuccessor(c) PROVE TypeInv'
  <2>1. /\ arg[c] \in RefreshArg /\ arg[c].engine \in Engines /\ rec[c] \in TokenRecord
        /\ pc[c] = "insert" /\ at[c] \in Nat
    BY <1>4 DEF InsertSuccessor, TypeInv, TypeOK, LocalsOK, Proved, Presenting, RefreshArg
  <2>2. /\ rec[c].familyId \in Families /\ rec[c].generation + 1 \in Nat
        /\ rec[c].userId \in Users /\ NextFamilyExpiresAt(rec[c], at[c]) \in Nat
    BY <2>1 DEF TokenRecord, NextFamilyExpiresAt
  <2>3. NextDeviceIdHash(rec[c], arg[c]) \in (Kids \X Devices) \cup {None}
    BY <2>1, NextDeviceIdHashType
  <2>4. PICK s \in Fresh :
          /\ Insert(s, Mint(arg[c].engine, s, rec[c].familyId, rec[c].generation + 1,
                         rec[c].userId, NextDeviceIdHash(rec[c], arg[c]),
                         NextFamilyExpiresAt(rec[c], at[c]), at[c]))
          /\ minted' = minted \cup {s}
          /\ nxt' = [nxt EXCEPT ![c] = s]
    BY <1>4 DEF InsertSuccessor
  <2>5. rows' \in [Selectors -> TokenRecord \cup {NoRow}]
    BY <2>1, <2>2, <2>3, <2>4, MintType, StoreType DEF Fresh
  <2> QED
    BY <1>4, <2>1, <2>4, <2>5 DEF InsertSuccessor, GoTo, Silent, Fresh, TypeInv, TypeOK,
       LocalsOK, Steps, Presenting, Proved, Rotating
<1>5. ASSUME MarkPredecessor(c) PROVE TypeInv'
  <2>1. /\ arg[c] \in RefreshArg /\ arg[c].selector \in Selectors /\ rec[c] \in TokenRecord
        /\ pc[c] = "markRotated" /\ at[c] \in Nat /\ nxt[c] \in Selectors
        /\ RotatedAt(rec[c], at[c]) \in Nat
    BY <1>5 DEF MarkPredecessor, TypeInv, TypeOK, LocalsOK, Proved, Presenting, Rotating,
                RefreshArg, RotatedAt
  <2>2. CASE /\ MarkRotatedApplies(arg[c].selector, rec[c].status)
             /\ MarkRotated(arg[c].selector, RotatedAt(rec[c], at[c]), nxt[c])
             /\ granted' = granted \cup {nxt[c]}
             /\ Return(c, "OK")
    <3>1. rows[arg[c].selector] \in TokenRecord
      BY <2>1, <2>2, RecordStatus DEF MarkRotatedApplies, TypeInv, TypeOK
    <3>2. rows' \in [Selectors -> TokenRecord \cup {NoRow}]
      BY <2>1, <2>2, <3>1, MarkedType DEF MarkRotated, TypeInv, TypeOK
    <3> QED
      BY <1>5, <2>1, <2>2, <3>2, ReturnType DEF MarkPredecessor, Codes, TypeInv, TypeOK
  <2>3. CASE GoTo(c, "compensate") /\ UNCHANGED <<rows, arg, rec, at, nxt, verdict, granted>>
    BY <1>5, <2>1, <2>3 DEF MarkPredecessor, GoTo, Silent, TypeInv, TypeOK, LocalsOK, Steps,
       Presenting, Proved, Rotating
  <2> QED BY <1>5, <2>2, <2>3 DEF MarkPredecessor
<1>6. ASSUME Compensate(c) PROVE TypeInv'
  <2>1. nxt[c] \in Selectors
    BY <1>6 DEF Compensate, TypeInv, LocalsOK
  <2> QED
    BY <1>6, <2>1, StoreType, ReturnType DEF Compensate, Codes, TypeInv, TypeOK, historyVars
<1>7. ASSUME RevokeFamilyOf(c) PROVE TypeInv'
  <2>1. rec[c] \in TokenRecord /\ verdict[c] \in Codes /\ rec[c].familyId \in Families
    BY <1>7 DEF RevokeFamilyOf, TypeInv, LocalsOK, Proved, Presenting, TokenRecord
  <2>2. rows' \in [Selectors -> TokenRecord \cup {NoRow}] /\ dead' \subseteq Families
    BY <1>7, StoreType DEF RevokeFamilyOf, RevokeFamily, InFamily
  <2> QED
    BY <1>7, <2>1, <2>2, ReturnType DEF RevokeFamilyOf, TypeInv, TypeOK
<1>8. ASSUME Abort(c) PROVE TypeInv'
  BY <1>8, ReturnType DEF Abort, Codes, TypeInv, TypeOK, storeVars
<1> QED BY <1>1, <1>2, <1>3, <1>4, <1>5, <1>6, <1>7, <1>8

\* The administrator, the garbage collector and the clock.
LEMMA OthersType ==
  ASSUME TypeInv
  PROVE  /\ \A f \in Families : AdminRevokeFamily(f) => TypeInv'
         /\ \A u \in Users : AdminRevokeUser(u) => TypeInv'
         /\ DeleteExpired => TypeInv'
         /\ Tick => TypeInv'
<1> USE DEF Silent, TypeInv, TypeOK, LocalsOK, storeVars, callVars, historyVars,
            Presenting, Proved, Rotating
<1>1. ASSUME NEW f \in Families, AdminRevokeFamily(f) PROVE TypeInv'
  <2>1. rows' \in [Selectors -> TokenRecord \cup {NoRow}] /\ dead' \subseteq Families
    BY <1>1, StoreType DEF AdminRevokeFamily, RevokeFamily, InFamily
  <2> QED BY <1>1, <2>1 DEF AdminRevokeFamily
<1>2. ASSUME NEW u \in Users, AdminRevokeUser(u) PROVE TypeInv'
  <2>1. rows' \in [Selectors -> TokenRecord \cup {NoRow}] /\ dead' \subseteq Families
    BY <1>2, StoreType DEF AdminRevokeUser, RevokeUser, OfUser
  <2> QED BY <1>2, <2>1 DEF AdminRevokeUser
<1>3. ASSUME DeleteExpired PROVE TypeInv'
  BY <1>3 DEF DeleteExpired
<1>4. ASSUME Tick PROVE TypeInv'
  BY <1>4 DEF Tick
<1> QED BY <1>1, <1>2, <1>3, <1>4

LEMMA StepType == TypeInv /\ [Next]_vars => TypeInv'
<1> SUFFICES ASSUME TypeInv, [Next]_vars PROVE TypeInv'
  OBVIOUS
<1>1. CASE UNCHANGED vars
  BY <1>1 DEF vars, storeVars, callVars, historyVars, TypeInv, TypeOK, LocalsOK,
              Presenting, Proved, Rotating
<1>2. CASE Next
  BY <1>2, BeginType, CheckType, RotateType, OthersType DEF Next, Progress
<1> QED BY <1>1, <1>2

\* The engine and its store keep their types: in particular every row the
\* store methods write is a well-formed TokenRecord, and every `!` the code
\* asserts (a replacedBySelector, a rotatedAt on the grace path) is there.
THEOREM TypeCorrect == Spec => []TypeOK
<1>1. TypeInv => TypeOK
  BY DEF TypeInv
<1> QED BY <1>1, InitType, StepType, PTL DEF Spec

\* The same for the stronger form the next proofs use.
THEOREM LocalsCorrect == Spec => []TypeInv
  BY InitType, StepType, PTL DEF Spec

-----------------------------------------------------------------------------
(* CharterKept and DeviceJudgedRight: what the login established reaches    *)
(* every later record of the family, although each rotation writes it from  *)
(* a copy read before other calls ran.  The inductive invariant:            *)

Charter(a, now) ==
  [userId |-> a.userId, deviceId |-> a.deviceId, expiresAt |-> now + AbsoluteTtl]

\* What a call carries agrees with the login, and it was judged on that.
CallCharter(c) ==
  /\ pc[c] = "issue" => charter[arg[c].familyId] = Charter(arg[c], at[c])
  /\ rec[c] # NoRow => FromLogin(rec[c])
  /\ pc[c] \in {"consume", "insert", "markRotated"} => DeviceAccepted(rec[c], arg[c])
  /\ pc[c] = "revokeFamily" /\ verdict[c] = "DEVICE_MISMATCH"
       => arg[c] \in RefreshArg /\ ~ DeviceAccepted(rec[c], arg[c])

CharterInv == CharterKept /\ \A c \in Calls : CallCharter(c)

LEMMA InitCharter == Init => CharterInv
  BY DEF Init, CharterInv, CharterKept, CallCharter, Present, NoRow

-----------------------------------------------------------------------------

\* A row that is kept, revoked, marked rotated or collected keeps its charter.
LEMMA RowsCharter ==
  ASSUME TypeInv, CharterKept, charter' = charter,
         \A s \in Selectors :
           \/ rows'[s] = rows[s]
           \/ rows'[s] = NoRow
           \/ Present(s) /\ rows'[s] = Revoked(rows[s])
           \/ Present(s) /\ \E t, n : rows'[s] = [rows[s] EXCEPT !.status = "rotated",
                                      !.rotatedAt = t, !.replacedBySelector = n]
  PROVE  CharterKept'
<1> SUFFICES ASSUME NEW s \in Selectors, Present(s)' PROVE FromLogin(rows[s])'
  BY DEF CharterKept
<1>1. Present(s) => rows[s] \in TokenRecord /\ FromLogin(rows[s])
  BY RecordStatus DEF TypeInv, TypeOK, Present, CharterKept
<1>2. rows'[s] # NoRow
  BY RecordStatus DEF Present
<1> QED BY <1>1, <1>2 DEF FromLogin, Revoked, TokenRecord, Present

\* A call that ends carries nothing.
LEMMA ReturnCharter ==
  ASSUME TypeInv, CharterInv, NEW c \in Calls, NEW code, Return(c, code), charter' = charter
  PROVE  \A d \in Calls : CallCharter(d)'
<1>1. CallCharter(c)'
  BY DEF Return, CallCharter, TypeInv, TypeOK
<1>2. ASSUME NEW d \in Calls \ {c} PROVE CallCharter(d)'
  <2>1. /\ pc'[d] = pc[d] /\ arg'[d] = arg[d] /\ rec'[d] = rec[d] /\ at'[d] = at[d]
        /\ verdict'[d] = verdict[d] /\ CallCharter(d)
    BY <1>2 DEF Return, TypeInv, TypeOK, CharterInv
  <2> QED BY <2>1 DEF CallCharter, FromLogin
<1> QED BY <1>1, <1>2

\* A call that goes on with the same record and arguments.
LEMMA GoesOn ==
  ASSUME TypeInv, CharterInv, NEW c \in Calls, NEW step \in Steps \ {"issue"},
         pc' = [pc EXCEPT ![c] = step], UNCHANGED <<arg, rec, charter>>,
         \A d \in Calls \ {c} : at'[d] = at[d] /\ verdict'[d] = verdict[d],
         step \in {"consume", "insert", "markRotated"} => DeviceAccepted(rec[c], arg[c]),
         step = "revokeFamily" /\ verdict'[c] = "DEVICE_MISMATCH"
           => arg[c] \in RefreshArg /\ ~ DeviceAccepted(rec[c], arg[c])
  PROVE  \A d \in Calls : CallCharter(d)'
<1>1. CallCharter(c)'
  <2>1. CallCharter(c) /\ pc'[c] = step
    BY DEF CharterInv, TypeInv, TypeOK
  <2> QED BY <2>1 DEF CallCharter, FromLogin
<1>2. ASSUME NEW d \in Calls \ {c} PROVE CallCharter(d)'
  <2>1. CallCharter(d) /\ pc'[d] = pc[d] /\ at'[d] = at[d] /\ verdict'[d] = verdict[d]
    BY <1>2 DEF CharterInv, TypeInv, TypeOK
  <2> QED BY <2>1 DEF CallCharter, FromLogin
<1> QED BY <1>1, <1>2

\* #mint from a record of the family, for the device it is bound to.
LEMMA SuccessorCharter ==
  ASSUME TypeInv, NEW r \in TokenRecord, NEW a \in RefreshArg, FromLogin(r),
         DeviceAccepted(r, a), NEW s \in Selectors, NEW now \in Nat
  PROVE  FromLogin(Mint(a.engine, s, r.familyId, r.generation + 1, r.userId,
                        NextDeviceIdHash(r, a), NextFamilyExpiresAt(r, now), now))
<1> DEFINE login == charter[r.familyId]
<1>1. /\ login \in Login
      /\ r.familyExpiresAt = login.expiresAt /\ r.userId = login.userId
      /\ r.deviceIdHash = IF login.deviceId = None THEN None ELSE Hmac(r.kid, login.deviceId)
  BY DEF FromLogin, TypeInv, TypeOK, TokenRecord
<1>2. NextDeviceIdHash(r, a) = IF login.deviceId = None THEN None
                               ELSE Hmac(ActiveKid[a.engine], login.deviceId)
  <2>1. CASE login.deviceId = None
    BY <1>1, <2>1 DEF NextDeviceIdHash
  <2>2. CASE login.deviceId # None
    <3>1. r.deviceIdHash = <<r.kid, login.deviceId>> /\ r.deviceIdHash # None
      BY <1>1, <2>2, DistinctAssumption DEF Hmac, Login, TokenRecord
    <3>2. a.deviceId # None /\ a.deviceId = login.deviceId
      BY <3>1 DEF DeviceAccepted, DeviceMatches, Hmac
    <3> QED BY <2>2, <3>1, <3>2 DEF NextDeviceIdHash
  <2> QED BY <2>1, <2>2
<1>3. Least(now + IdleTtl, r.familyExpiresAt) <= login.expiresAt
  BY <1>1, ConfigAssumption DEF Least, Login
<1>4. login # None
  BY DEF FromLogin
<1> HIDE DEF login
<1> QED BY <1>1, <1>2, <1>3, <1>4 DEF FromLogin, Mint, NextFamilyExpiresAt, login

LEMMA CallSteps ==
  ASSUME TypeInv, CharterInv, NEW c \in Calls
  PROVE  /\ Find(c) => CharterInv'
         /\ CheckRevokeToken(c) => CharterInv'
         /\ CheckRotated(c) => CharterInv'
         /\ CheckActive(c) => CharterInv'
         /\ FindSuccessor(c) => CharterInv'
         /\ \/ RefuseUnproved(c) \/ CheckRevoked(c) \/ RefuseMalformed(c) \/ Abort(c)
            => CharterInv'
<1>1. ASSUME UNCHANGED <<rows, charter>> PROVE CharterKept'
  BY <1>1 DEF CharterInv, CharterKept, FromLogin, Present
<1>2. ASSUME Find(c) PROVE CharterInv'
  <2>1. arg[c].selector \in Selectors
    BY <1>2 DEF Find, TypeInv, LocalsOK, Presenting, PresentArg, RefreshArg, RevokeArg
  <2>2. /\ rec'[c] = rows[arg[c].selector] /\ pc'[c] = "check"
        /\ UNCHANGED <<arg, at, verdict, rows, charter>>
        /\ \A d \in Calls \ {c} : pc'[d] = pc[d] /\ rec'[d] = rec[d]
    BY <1>2 DEF Find, GoTo, storeVars, historyVars, TypeInv, TypeOK
  <2>3. rec'[c] # NoRow => FromLogin(rec'[c])
    BY <2>1, <2>2, RecordStatus DEF CharterInv, CharterKept, Present, TypeInv, TypeOK
  <2>4. CallCharter(c)'
    BY <2>2, <2>3 DEF CallCharter, FromLogin
  <2>5. ASSUME NEW d \in Calls \ {c} PROVE CallCharter(d)'
    BY <2>2 DEF CharterInv, CallCharter, FromLogin
  <2> QED BY <1>1, <2>2, <2>4, <2>5 DEF CharterInv
<1>3. ASSUME CheckRevokeToken(c) PROVE CharterInv'
  <2>1. verdict'[c] = "OK" /\ \A d \in Calls \ {c} : verdict'[d] = verdict[d]
    BY <1>3 DEF CheckRevokeToken, RevokeThenReturn, TypeInv, TypeOK
  <2> QED
    BY <1>1, <1>3, <2>1, GoesOn DEF CheckRevokeToken, RevokeThenReturn, GoTo, Steps,
       storeVars, historyVars, CharterInv
<1>4. ASSUME CheckRotated(c) PROVE CharterInv'
  <2>1. \A d \in Calls \ {c} : at'[d] = at[d] /\ verdict'[d] = verdict[d]
    BY <1>4 DEF CheckRotated, RevokeThenReturn, TypeInv, TypeOK
  <2>2. pc'[c] = "revokeFamily" => verdict'[c] = "REUSE_DETECTED"
    BY <1>4 DEF CheckRotated, RevokeThenReturn, GoTo, TypeInv, TypeOK
  <2>3. PICK step \in {"findSuccessor", "revokeFamily"} : pc' = [pc EXCEPT ![c] = step]
    BY <1>4 DEF CheckRotated, RevokeThenReturn, GoTo
  <2>4. pc'[c] = step /\ UNCHANGED <<arg, rec, charter, rows>>
    BY <1>4, <2>3 DEF CheckRotated, storeVars, historyVars, TypeInv, TypeOK
  <2> QED BY <1>1, <2>1, <2>2, <2>3, <2>4, GoesOn DEF Steps, CharterInv
<1>5. ASSUME CheckActive(c) PROVE CharterInv'
  <2>1. \A d \in Calls \ {c} : at'[d] = at[d] /\ verdict'[d] = verdict[d]
    BY <1>5 DEF CheckActive, RevokeThenReturn, TypeInv, TypeOK
  <2>2. PICK step \in {"insert", "revokeFamily"} : pc' = [pc EXCEPT ![c] = step]
    BY <1>5 DEF CheckActive, RevokeThenReturn, GoTo
  <2>3. pc'[c] = step /\ UNCHANGED <<arg, rec, charter, rows>>
    BY <1>5, <2>2 DEF CheckActive, storeVars, historyVars, TypeInv, TypeOK
  <2>4. /\ step = "insert" => DeviceAccepted(rec[c], arg[c])
        /\ step = "revokeFamily" /\ verdict'[c] = "DEVICE_MISMATCH"
             => ~ DeviceAccepted(rec[c], arg[c])
    BY <1>5, <2>3 DEF CheckActive, RevokeThenReturn, GoTo, TypeInv, TypeOK
  <2>5. arg[c] \in RefreshArg
    BY <1>5 DEF CheckActive, Refreshing, TypeInv, LocalsOK, Presenting, PresentArg,
                RefreshArg, RevokeArg
  <2> QED BY <1>1, <2>1, <2>2, <2>3, <2>4, <2>5, GoesOn DEF Steps, CharterInv
<1>6. ASSUME FindSuccessor(c) PROVE CharterInv'
  <2>1. \A d \in Calls \ {c} : at'[d] = at[d] /\ verdict'[d] = verdict[d]
    BY <1>6 DEF FindSuccessor, RevokeThenReturn, TypeInv, TypeOK
  <2>2. PICK step \in {"consume", "revokeFamily"} : pc' = [pc EXCEPT ![c] = step]
    BY <1>6 DEF FindSuccessor, RevokeThenReturn, GoTo
  <2>3. pc'[c] = step /\ UNCHANGED <<arg, rec, charter, rows>>
    BY <1>6, <2>2 DEF FindSuccessor, storeVars, historyVars, TypeInv, TypeOK
  <2>4. /\ step = "consume" => DeviceAccepted(rec[c], arg[c])
        /\ step = "revokeFamily" /\ verdict'[c] = "DEVICE_MISMATCH"
             => ~ DeviceAccepted(rec[c], arg[c])
    BY <1>6, <2>3 DEF FindSuccessor, RevokeThenReturn, GoTo, TypeInv, TypeOK
  <2>5. arg[c] \in RefreshArg
    BY <1>6 DEF FindSuccessor, TypeInv, LocalsOK, Presenting, Proved
  <2> QED BY <1>1, <2>1, <2>2, <2>3, <2>4, <2>5, GoesOn DEF Steps, CharterInv
<1>7. ASSUME RefuseUnproved(c) \/ CheckRevoked(c) \/ RefuseMalformed(c) \/ Abort(c)
      PROVE  CharterInv'
  <2>1. PICK code : Return(c, code) /\ UNCHANGED <<rows, charter>>
    BY <1>7 DEF RefuseUnproved, CheckRevoked, RefuseMalformed, Abort, storeVars, historyVars
  <2> QED BY <1>1, <2>1, ReturnCharter DEF CharterInv
<1> QED BY <1>2, <1>3, <1>4, <1>5, <1>6, <1>7

LEMMA BeginCharter ==
  ASSUME TypeInv, CharterInv, NEW c \in Calls
  PROVE  /\ \A a \in IssueArg : BeginIssue(c, a) => CharterInv'
         /\ \A a \in PresentArg, kid \in Kids : BeginPresent(c, a, kid) => CharterInv'
<1>1. ASSUME NEW a \in IssueArg, BeginIssue(c, a) PROVE CharterInv'
  <2>1. /\ a.familyId \in Families /\ charter[a.familyId] = None
        /\ charter'[a.familyId] = Charter(a, clock)
        /\ \A f \in Families \ {a.familyId} : charter'[f] = charter[f]
        /\ UNCHANGED <<rows, rec, verdict>>
        /\ pc'[c] = "issue" /\ arg'[c] = a /\ at'[c] = clock
        /\ \A d \in Calls \ {c} : pc'[d] = pc[d] /\ arg'[d] = arg[d] /\ at'[d] = at[d]
    BY <1>1 DEF BeginIssue, Begin, GoTo, storeVars, IssueArg, Charter, TypeInv, TypeOK
  <2>2. ASSUME NEW r \in TokenRecord, FromLogin(r) PROVE FromLogin(r)'
    <3>1. r.familyId \in Families \ {a.familyId}
      BY <2>1, <2>2 DEF FromLogin, TokenRecord
    <3> QED BY <2>1, <2>2, <3>1 DEF FromLogin
  <2>3. CharterKept'
    <3>1. \A s \in Selectors : Present(s) => rows[s] \in TokenRecord
      BY RecordStatus DEF TypeInv, TypeOK, Present
    <3> QED BY <2>1, <2>2, <3>1 DEF CharterInv, CharterKept, Present, FromLogin
  <2>4. ASSUME NEW d \in Calls PROVE rec[d] # NoRow => FromLogin(rec[d])'
    BY <2>1, <2>2 DEF CharterInv, CallCharter, FromLogin, TypeInv, TypeOK
  <2>5. CallCharter(c)'
    BY <2>1, <2>4 DEF CallCharter, FromLogin, Charter
  <2>6. ASSUME NEW d \in Calls \ {c} PROVE CallCharter(d)'
    <3>1. CallCharter(d)
      BY DEF CharterInv
    <3>2. pc[d] = "issue" => /\ arg[d].familyId \in Families
                             /\ charter[arg[d].familyId] = Charter(arg[d], at[d])
                             /\ Charter(arg[d], at[d]) \in Login
      BY <3>1, ConfigAssumption
      DEF TypeInv, TypeOK, LocalsOK, IssueArg, CallCharter, Charter, Login
    <3>3. pc[d] = "issue" => charter'[arg[d].familyId] = Charter(arg[d], at[d])
      BY <2>1, <3>2, DistinctAssumption
    <3> QED BY <2>1, <2>4, <3>1, <3>3 DEF CallCharter, FromLogin, Charter
  <2> QED BY <2>3, <2>5, <2>6 DEF CharterInv
<1>2. ASSUME NEW a \in PresentArg, NEW kid \in Kids, BeginPresent(c, a, kid) PROVE CharterInv'
  <2>1. UNCHANGED <<rows, charter>>
    BY <1>2 DEF BeginPresent, Begin, storeVars, historyVars
  <2>2. CharterKept'
    BY <2>1 DEF CharterInv, CharterKept, FromLogin, Present
  <2>3. CASE Begin(c, a, "find", 0)
    <3>1. /\ pc'[c] = "find" /\ UNCHANGED <<rec, verdict>>
          /\ \A d \in Calls \ {c} : pc'[d] = pc[d] /\ arg'[d] = arg[d] /\ at'[d] = at[d]
      BY <2>3 DEF Begin, GoTo, TypeInv, TypeOK
    <3>2. ASSUME NEW d \in Calls PROVE CallCharter(d)'
      BY <2>1, <3>1 DEF CharterInv, CallCharter, FromLogin
    <3> QED BY <2>2, <3>2 DEF CharterInv
  <2>4. CASE Return(c, "UNKNOWN_KID")
    BY <2>1, <2>2, <2>4, ReturnCharter DEF CharterInv
  <2> QED BY <1>2, <2>3, <2>4 DEF BeginPresent
<1> QED BY <1>1, <1>2

LEMMA WriteCharter ==
  ASSUME TypeInv, CharterInv, NEW c \in Calls
  PROVE  /\ IssueInsert(c) => CharterInv'
         /\ InsertSuccessor(c) => CharterInv'
         /\ MarkPredecessor(c) => CharterInv'
         /\ Consume(c) => CharterInv'
         /\ Compensate(c) => CharterInv'
         /\ RevokeFamilyOf(c) => CharterInv'
<1>1. ASSUME NEW s \in Selectors, NEW r, Insert(s, r), FromLogin(r), charter' = charter
      PROVE  CharterKept'
  BY <1>1 DEF Insert, CharterInv, CharterKept, FromLogin, Present, TypeInv, TypeOK
<1>2. ASSUME IssueInsert(c) PROVE CharterInv'
  <2> DEFINE a == arg[c]
             hash == IF a.deviceId = None THEN None ELSE Hmac(ActiveKid[a.engine], a.deviceId)
             Row(s) == Mint(a.engine, s, a.familyId, 0, a.userId, hash,
                            at[c] + AbsoluteTtl, at[c])
  <2>1. PICK s \in Fresh : Insert(s, Row(s))
    BY <1>2 DEF IssueInsert
  <2>2. /\ charter[a.familyId] = Charter(a, at[c]) /\ Charter(a, at[c]) \in Login
        /\ at[c] \in Nat
    BY <1>2, ConfigAssumption DEF IssueInsert, CharterInv, CallCharter, TypeInv, TypeOK,
       LocalsOK, IssueArg, Charter, Login
  <2>3. Least(at[c] + IdleTtl, at[c] + AbsoluteTtl) <= at[c] + AbsoluteTtl
    BY <2>2, ConfigAssumption DEF Least
  <2>4. FromLogin(Row(s))
    BY <2>2, <2>3, DistinctAssumption DEF FromLogin, Mint, Charter
  <2>5. charter' = charter /\ Return(c, "OK")
    BY <1>2 DEF IssueInsert
  <2> QED BY <1>1, <2>1, <2>4, <2>5, ReturnCharter DEF Fresh, CharterInv
<1>3. ASSUME InsertSuccessor(c) PROVE CharterInv'
  <2> DEFINE Row(s) == Mint(arg[c].engine, s, rec[c].familyId, rec[c].generation + 1,
                            rec[c].userId, NextDeviceIdHash(rec[c], arg[c]),
                            NextFamilyExpiresAt(rec[c], at[c]), at[c])
  <2>1. PICK s \in Fresh : Insert(s, Row(s))
    BY <1>3 DEF InsertSuccessor
  <2>2. /\ rec[c] \in TokenRecord /\ rec[c] # NoRow /\ arg[c] \in RefreshArg /\ at[c] \in Nat
        /\ pc[c] = "insert"
    BY <1>3, RecordStatus DEF InsertSuccessor, TypeInv, TypeOK, LocalsOK, Proved, Presenting
  <2>3. FromLogin(rec[c]) /\ DeviceAccepted(rec[c], arg[c])
    BY <2>2 DEF CharterInv, CallCharter
  <2>4. FromLogin(Row(s))
    BY <2>2, <2>3, SuccessorCharter DEF Fresh
  <2>5. \A d \in Calls : CallCharter(d)'
    BY <1>3, <2>3, GoesOn DEF InsertSuccessor, GoTo, Steps
  <2>6. charter' = charter
    BY <1>3 DEF InsertSuccessor
  <2> QED BY <1>1, <2>1, <2>4, <2>5, <2>6 DEF Fresh, CharterInv
<1>4. ASSUME MarkPredecessor(c) PROVE CharterInv'
  <2>1. /\ arg[c].selector \in Selectors /\ charter' = charter
        /\ rec[c].status \in {"active", "rotated"}
    BY <1>4 DEF MarkPredecessor, TypeInv, LocalsOK, Proved, Presenting, Rotating, RefreshArg
  <2>2. CharterKept'
    <3>1. CASE UNCHANGED rows
      BY <2>1, <3>1, RowsCharter DEF CharterInv
    <3>2. CASE /\ MarkRotatedApplies(arg[c].selector, rec[c].status)
               /\ MarkRotated(arg[c].selector, RotatedAt(rec[c], at[c]), nxt[c])
      <4>1. Present(arg[c].selector)
        BY <2>1, <3>2 DEF MarkRotatedApplies, Present
      <4>2. ASSUME NEW s \in Selectors
            PROVE  \/ rows'[s] = rows[s]
                   \/ Present(s) /\ \E t, n : rows'[s] = [rows[s] EXCEPT !.status = "rotated",
                                      !.rotatedAt = t, !.replacedBySelector = n]
        BY <2>1, <3>2, <4>1 DEF MarkRotated, TypeInv, TypeOK
      <4> QED BY <2>1, <4>2, RowsCharter DEF CharterInv
    <3> QED BY <1>4, <3>1, <3>2 DEF MarkPredecessor
  <2>3. CASE Return(c, "OK")
    BY <2>1, <2>2, <2>3, ReturnCharter DEF CharterInv
  <2>4. CASE GoTo(c, "compensate") /\ UNCHANGED <<arg, rec, at, verdict>>
    BY <2>1, <2>2, <2>4, GoesOn DEF GoTo, Steps, CharterInv
  <2> QED BY <1>4, <2>3, <2>4 DEF MarkPredecessor
<1>5. ASSUME NEW s \in Selectors, RevokeIfActive(s), charter' = charter PROVE CharterKept'
  <2>1. \A t \in Selectors : rows'[t] = rows[t] \/ (Present(t) /\ rows'[t] = Revoked(rows[t]))
    <3>1. \A t \in Selectors \ {s} : rows'[t] = rows[t]
      BY <1>5 DEF RevokeIfActive, TypeInv, TypeOK
    <3>2. rows'[s] = rows[s] \/ (IsActive(s) /\ rows'[s] = Revoked(rows[s]))
      BY <1>5 DEF RevokeIfActive, RevokeIfActiveApplies, TypeInv, TypeOK
    <3> QED BY <3>1, <3>2 DEF IsActive, Present
  <2> QED BY <1>5, <2>1, RowsCharter DEF CharterInv
<1>6. ASSUME Consume(c) PROVE CharterInv'
  <2>1. /\ nxt[c] \in Selectors /\ charter' = charter /\ pc[c] = "consume"
        /\ DeviceAccepted(rec[c], arg[c])
    BY <1>6 DEF Consume, TypeInv, LocalsOK, historyVars, CharterInv, CallCharter
  <2>2. CharterKept'
    BY <1>5, <1>6, <2>1 DEF Consume
  <2>3. CASE Return(c, "CONFLICT")
    BY <2>1, <2>2, <2>3, ReturnCharter DEF CharterInv
  <2>4. CASE GoTo(c, "insert") /\ UNCHANGED <<arg, rec, at, verdict>>
    BY <2>1, <2>2, <2>4, GoesOn DEF GoTo, Steps, CharterInv
  <2> QED BY <1>6, <2>3, <2>4 DEF Consume
<1>7. ASSUME Compensate(c) PROVE CharterInv'
  <2>1. nxt[c] \in Selectors /\ charter' = charter
    BY <1>7 DEF Compensate, TypeInv, LocalsOK, historyVars
  <2> QED BY <1>5, <1>7, <2>1, ReturnCharter DEF Compensate, CharterInv
<1>8. ASSUME RevokeFamilyOf(c) PROVE CharterInv'
  <2>1. charter' = charter /\ Return(c, verdict[c])
    BY <1>8 DEF RevokeFamilyOf
  <2>2. CharterKept'
    BY <1>8, <2>1, RowsCharter DEF RevokeFamilyOf, RevokeFamily, RevokeRows, InFamily, CharterInv
  <2> QED BY <2>1, <2>2, ReturnCharter DEF CharterInv
<1> QED BY <1>2, <1>3, <1>4, <1>6, <1>7, <1>8

LEMMA StepCharter == TypeInv /\ CharterInv /\ [Next]_vars => CharterInv'
<1> SUFFICES ASSUME TypeInv, CharterInv, [Next]_vars PROVE CharterInv'
  OBVIOUS
<1>1. ASSUME UNCHANGED callVars, charter' = charter
      PROVE  \A d \in Calls : CallCharter(d)'
  BY <1>1 DEF callVars, CharterInv, CallCharter, FromLogin
<1>2. CASE UNCHANGED vars
  BY <1>1, <1>2, RowsCharter DEF vars, storeVars, historyVars, CharterInv
<1>3. ASSUME NEW f \in Families, AdminRevokeFamily(f) PROVE CharterInv'
  BY <1>1, <1>3, RowsCharter DEF AdminRevokeFamily, RevokeFamily, RevokeRows, InFamily, CharterInv
<1>4. ASSUME NEW u \in Users, AdminRevokeUser(u) PROVE CharterInv'
  BY <1>1, <1>4, RowsCharter DEF AdminRevokeUser, RevokeUser, RevokeRows, OfUser, CharterInv
<1>5. ASSUME DeleteExpired PROVE CharterInv'
  BY <1>1, <1>5, RowsCharter DEF DeleteExpired, historyVars, CharterInv
<1>6. ASSUME Tick PROVE CharterInv'
  BY <1>1, <1>6, RowsCharter DEF Tick, historyVars, CharterInv
<1>7. CASE Next
  BY <1>3, <1>4, <1>5, <1>6, <1>7, BeginCharter, CallSteps, WriteCharter DEF Next, Progress
<1> QED BY <1>2, <1>7

-----------------------------------------------------------------------------

\* Every record of a family carries the user, the absolute deadline and the
\* device of its login, the device under the record's own pepper: #rotate
\* copies from a possibly stale record and re-hashes under the active kid,
\* and neither loses nor moves any of them.
THEOREM CharterTheorem == Spec => []CharterKept
<1>1. CharterInv => CharterKept
  BY DEF CharterInv
<1> QED BY <1>1, InitCharter, StepCharter, LocalsCorrect, PTL DEF Spec

LEMMA JudgedRight == TypeInv /\ CharterInv => DeviceJudgedRight
<1> SUFFICES ASSUME TypeInv, CharterInv, NEW c \in Calls
             PROVE  LET bound == charter[rec[c].familyId].deviceId
                    IN  /\ pc[c] \in {"consume", "insert", "markRotated"}
                             => bound \in {None, arg[c].deviceId}
                        /\ pc[c] = "revokeFamily" /\ verdict[c] = "DEVICE_MISMATCH"
                             => bound \notin {None, arg[c].deviceId}
  BY DEF DeviceJudgedRight
<1> DEFINE login == charter[rec[c].familyId]
<1>1. CASE pc[c] \in {"consume", "insert", "markRotated", "revokeFamily"}
  <2>1. rec[c] \in TokenRecord /\ rec[c] # NoRow
    BY <1>1, RecordStatus DEF TypeInv, LocalsOK, Proved, Presenting
  <2>2. CallCharter(c) /\ FromLogin(rec[c])
    BY <2>1 DEF CharterInv, CallCharter
  <2>3. login \in Login
    BY <2>1, <2>2 DEF FromLogin, TypeInv, TypeOK, TokenRecord
  <2>4. /\ login.deviceId = None => rec[c].deviceIdHash = None
        /\ login.deviceId # None => /\ rec[c].deviceIdHash = <<rec[c].kid, login.deviceId>>
                                    /\ rec[c].deviceIdHash # None
    BY <2>1, <2>2, <2>3, DistinctAssumption DEF FromLogin, Hmac, Login, TokenRecord
  <2>5. DeviceAccepted(rec[c], arg[c]) <=> login.deviceId \in {None, arg[c].deviceId}
    BY <2>4 DEF DeviceAccepted, DeviceMatches, Hmac
  <2> QED BY <2>2, <2>5 DEF CallCharter
<1>2. CASE pc[c] \notin {"consume", "insert", "markRotated", "revokeFamily"}
  BY <1>2
<1> QED BY <1>1, <1>2

\* The device check of refresh is exact: it lets through precisely the device
\* of the login (or any, for an unbound family), also when the record was
\* minted, is checked and is re-hashed by engines with different peppers.
THEOREM DeviceTheorem == Spec => []DeviceJudgedRight
  BY JudgedRight, InitCharter, StepCharter, LocalsCorrect, PTL DEF Spec

\* Both at once, for the proofs that build on them.
THEOREM CharterCorrect == Spec => [](TypeInv /\ CharterInv)
  BY InitCharter, StepCharter, LocalsCorrect, PTL DEF Spec

=============================================================================
