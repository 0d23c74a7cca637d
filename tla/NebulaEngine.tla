---------------------------- MODULE NebulaEngine ----------------------------
(***************************************************************************)
(* The NEBULA refresh-token engine of packages/typescript/src/index.ts     *)
(* over a store whose six methods are atomic (MemoryRefreshTokenStore).    *)
(*                                                                         *)
(* Every engine call in flight is a process.  It holds what the code holds *)
(* in local variables across an `await`: the arguments, the record read by *)
(* findBySelector, the sampled clock and a selector.  One store call is    *)
(* one step, so between any two store calls of one refresh every other     *)
(* call, the clock, the garbage collector and an administrator can act,    *)
(* and the call itself can die (a store exception, a killed process).      *)
(***************************************************************************)
EXTENDS Integers

CONSTANTS
  Selectors,     \* what the CSPRNG can produce for a selector
  Families,      \* what it can produce for a familyId
  Users, Devices,
  Guesses,       \* verifiers no token was minted with
  Kids,          \* pepper identifiers
  Engines,       \* engine instances; a rolling deploy runs several at once
  Peppers,       \* Peppers[e]: the kids engine e was configured with
  ActiveKid,     \* ActiveKid[e]: the kid engine e mints under
  Calls,         \* engine calls that can be in flight at the same time
  AbsoluteTtl, IdleTtl, ReuseGrace,
  MaxTime,       \* bound: the clock stops here
  MaxAborts,     \* bound: how many calls may die half way
  None           \* null / undefined

ASSUME ConfigAssumption ==
  /\ AbsoluteTtl \in Nat \ {0}
  /\ IdleTtl \in Nat \ {0}
  /\ ReuseGrace \in Nat
  /\ Peppers \in [Engines -> SUBSET Kids]
  /\ ActiveKid \in [Engines -> Kids]
  /\ \A e \in Engines : ActiveKid[e] \in Peppers[e]

ASSUME BoundAssumption == MaxTime \in Nat /\ MaxAborts \in Nat

\* What issue() establishes for a family.
Login == [userId : Users, deviceId : Devices \cup {None}, expiresAt : Nat]

ASSUME DistinctAssumption ==
  /\ None \notin Login \cup (Kids \X Devices)
  /\ None \notin Selectors \cup Families \cup Users \cup Devices \cup Kids \cup Nat
  /\ Guesses \cap Selectors = {}

VARIABLES
  rows,      \* the store: selector -> TokenRecord, or NoRow
  clock,     \* whole seconds, what this.clock() returns
  pc,        \* the store call each engine call is about to make
  arg,       \* its arguments
  rec,       \* the record findBySelector gave it
  at,        \* the `now` it sampled
  nxt,       \* the successor it found (grace) or inserted (rotation)
  verdict,   \* the code it returns once its family revocation is done
  reply,     \* the result the last step returned to a caller, None if none
  minted,    \* history: every selector ever drawn from the CSPRNG
  granted,   \* history: selectors whose token was returned (and maybe received)
  charter,   \* history: what issue() established for each family
  dead,      \* history: families whose revocation was carried out
  aborts     \* calls that died

storeVars   == <<rows, clock>>
callVars    == <<pc, arg, rec, at, nxt, verdict>>
historyVars == <<minted, granted, charter, dead, aborts>>
vars        == <<storeVars, callVars, reply, historyVars>>

-----------------------------------------------------------------------------
(* Records.  verifierHash and deviceIdHash are HMACs: a pair of the pepper  *)
(* and the hashed value, equal only when both are.  The verifier minted     *)
(* with a selector is named by that selector.                               *)

Hmac(kid, value) == <<kid, value>>

TokenStatus == {"active", "rotated", "revoked"}

TokenRecord ==
  [ status             : TokenStatus,
    kid                : Kids,
    verifierHash       : Kids \X Selectors,
    familyId           : Families,
    generation         : Nat,
    userId             : Users,
    deviceIdHash       : (Kids \X Devices) \cup {None},
    familyExpiresAt    : Nat,
    idleExpiresAt      : Nat,
    rotatedAt          : Nat \cup {None},
    replacedBySelector : Selectors \cup {None} ]

NoRow == [status |-> "absent"]

Present(s)  == rows[s].status # "absent"
IsActive(s) == rows[s].status = "active"

Codes == {"OK", "MALFORMED", "UNKNOWN_KID", "NOT_FOUND", "VERIFIER_MISMATCH",
          "REUSE_DETECTED", "REVOKED", "EXPIRED_ABSOLUTE", "EXPIRED_IDLE",
          "DEVICE_MISMATCH", "CONFLICT", "THROWN"}

Least(a, b) == IF a <= b THEN a ELSE b

\* #mint.  The clamp keeps the idle deadline inside the absolute one.
Mint(e, s, family, generation, user, deviceIdHash, familyExpiresAt, now) ==
  [ status             |-> "active",
    kid                |-> ActiveKid[e],
    verifierHash       |-> Hmac(ActiveKid[e], s),
    familyId           |-> family,
    generation         |-> generation,
    userId             |-> user,
    deviceIdHash       |-> deviceIdHash,
    familyExpiresAt    |-> familyExpiresAt,
    idleExpiresAt      |-> Least(now + IdleTtl, familyExpiresAt),
    rotatedAt          |-> None,
    replacedBySelector |-> None ]

-----------------------------------------------------------------------------
(* The store: MemoryRefreshTokenStore, each method one atomic step.         *)

Insert(s, r) == rows' = [rows EXCEPT ![s] = r]

\* Fault: markRotated answers true unconditionally.
MarkRotatedUnguarded(s, fromStatus) == Present(s)

\* The compare-and-set guard of markRotated.
MarkRotatedApplies(s, fromStatus) == rows[s].status = fromStatus

MarkRotated(s, rotatedAt, replacedBySelector) ==
  rows' = [rows EXCEPT ![s] = [@ EXCEPT !.status = "rotated",
                                        !.rotatedAt = rotatedAt,
                                        !.replacedBySelector = replacedBySelector]]

Revoked(r) == [r EXCEPT !.status = "revoked"]

\* Fault: revokeIfActive looks only whether the row exists.
RevokeIfPresent(s) == Present(s)

\* revokeIfActive writes only when this holds.
RevokeIfActiveApplies(s) == IsActive(s)

RevokeIfActive(s) ==
  rows' = [rows EXCEPT ![s] = IF RevokeIfActiveApplies(s) THEN Revoked(@) ELSE @]

\* Fault: a revocation without its WHERE clause.
InAnyFamily(s, f) == Present(s)

InFamily(s, f) == Present(s) /\ rows[s].familyId = f
OfUser(s, u)   == Present(s) /\ rows[s].userId = u

\* A revocation counts for the families it found rows of.
RevokeRows(S) ==
  /\ rows' = [s \in Selectors |-> IF s \in S THEN Revoked(rows[s]) ELSE rows[s]]
  /\ dead' = dead \cup {rows[s].familyId : s \in S}

RevokeFamily(f) == RevokeRows({s \in Selectors : InFamily(s, f)})
RevokeUser(u)   == RevokeRows({s \in Selectors : OfUser(s, u)})

-----------------------------------------------------------------------------
(* Engine calls: control.                                                   *)

IssueArg   == [op : {"issue"}, engine : Engines, familyId : Families,
               userId : Users, deviceId : Devices \cup {None}]
RefreshArg == [op : {"refresh"}, engine : Engines, selector : Selectors,
               verifier : Selectors \cup Guesses, deviceId : Devices \cup {None}]
RevokeArg  == [op : {"revokeToken"}, engine : Engines, selector : Selectors,
               verifier : Selectors \cup Guesses]
PresentArg == RefreshArg \cup RevokeArg

Steps == {"idle", "issue", "find", "check", "findSuccessor", "consume",
          "insert", "markRotated", "compensate", "revokeFamily"}

\* A step that answers no caller.
Silent == reply' = None

GoTo(c, step) == pc' = [pc EXCEPT ![c] = step] /\ Silent

\* The call ends: its locals go out of scope and the caller has the result.
Return(c, code) ==
  /\ reply' = code
  /\ pc' = [pc EXCEPT ![c] = "idle"]
  /\ arg' = [arg EXCEPT ![c] = None]
  /\ rec' = [rec EXCEPT ![c] = NoRow]
  /\ at' = [at EXCEPT ![c] = 0]
  /\ nxt' = [nxt EXCEPT ![c] = None]
  /\ verdict' = [verdict EXCEPT ![c] = None]

Begin(c, a, step, now) ==
  /\ pc[c] = "idle"
  /\ GoTo(c, step)
  /\ arg' = [arg EXCEPT ![c] = a]
  /\ at' = [at EXCEPT ![c] = now]
  /\ UNCHANGED <<storeVars, rec, nxt, verdict, minted, granted, dead, aborts>>

\* The family of a decided refusal is revoked before the code is returned.
RevokeThenReturn(c, code) ==
  /\ GoTo(c, "revokeFamily")
  /\ verdict' = [verdict EXCEPT ![c] = code]

Fresh == Selectors \ minted

-----------------------------------------------------------------------------
(* issue(userId, deviceId)                                                  *)

\* The family id is drawn before the insert is awaited, so it is taken from
\* here on.
BeginIssue(c, a) ==
  /\ a \in IssueArg
  /\ charter[a.familyId] = None
  /\ Begin(c, a, "issue", clock)
  /\ charter' = [charter EXCEPT ![a.familyId] =
                   [userId |-> a.userId, deviceId |-> a.deviceId,
                    expiresAt |-> clock + AbsoluteTtl]]

IssueInsert(c) ==
  /\ pc[c] = "issue"
  /\ \E s \in Fresh :
       LET a    == arg[c]
           hash == IF a.deviceId = None THEN None
                   ELSE Hmac(ActiveKid[a.engine], a.deviceId)
       IN  /\ Insert(s, Mint(a.engine, s, a.familyId, 0, a.userId, hash,
                             at[c] + AbsoluteTtl, at[c]))
           /\ minted' = minted \cup {s}
           /\ granted' = granted \cup {s}
  /\ Return(c, "OK")
  /\ UNCHANGED <<clock, charter, dead, aborts>>

-----------------------------------------------------------------------------
(* refresh(token, deviceId) and revokeToken(token): steps 1 to 4.           *)

\* What a caller can present: a token it was handed, or a selector without
\* its verifier.
Presentable(a) ==
  \/ a.verifier \in Guesses
  \/ a.verifier = a.selector /\ a.selector \in granted

\* Steps 1-2 need no store: a string that does not parse, or whose kid (any
\* the string names: nothing binds it to the record's) has no pepper, is
\* refused at once.
RefuseMalformed(c) ==
  /\ pc[c] = "idle"
  /\ Return(c, "MALFORMED")
  /\ UNCHANGED <<storeVars, historyVars>>

BeginPresent(c, a, kid) ==
  /\ a \in PresentArg
  /\ Presentable(a)
  /\ \/ /\ kid \in Peppers[a.engine]
        /\ Begin(c, a, "find", 0)
        /\ UNCHANGED charter
     \/ /\ kid \notin Peppers[a.engine]
        /\ pc[c] = "idle"
        /\ Return(c, "UNKNOWN_KID")
        /\ UNCHANGED <<storeVars, historyVars>>

Find(c) ==
  /\ pc[c] = "find"
  /\ rec' = [rec EXCEPT ![c] = rows[arg[c].selector]]
  /\ GoTo(c, "check")
  /\ UNCHANGED <<storeVars, arg, at, nxt, verdict, historyVars>>

\* Fault: the hash comparison is missing.
VerifierUnproved(r, a) == r # NoRow /\ r.kid \in Peppers[a.engine]

\* The pepper is the one of the RECORD's kid.
VerifierProved(r, a) ==
  /\ r # NoRow
  /\ r.kid \in Peppers[a.engine]
  /\ Hmac(r.kid, a.verifier) = r.verifierHash

RefuseUnproved(c) ==
  /\ pc[c] = "check"
  /\ ~ VerifierProved(rec[c], arg[c])
  /\ Return(c, IF rec[c] = NoRow THEN "NOT_FOUND"
               ELSE IF rec[c].kid \notin Peppers[arg[c].engine] THEN "UNKNOWN_KID"
               ELSE "VERIFIER_MISMATCH")
  /\ UNCHANGED <<storeVars, historyVars>>

\* revokeToken revokes whatever the status, and checks no device.
CheckRevokeToken(c) ==
  /\ pc[c] = "check"
  /\ arg[c].op = "revokeToken"
  /\ VerifierProved(rec[c], arg[c])
  /\ RevokeThenReturn(c, "OK")
  /\ UNCHANGED <<storeVars, arg, rec, at, nxt, historyVars>>

-----------------------------------------------------------------------------
(* refresh: steps 5 to 10.  `now` is sampled here, once.                    *)

Refreshing(c, status) ==
  /\ pc[c] = "check"
  /\ arg[c].op = "refresh"
  /\ VerifierProved(rec[c], arg[c])
  /\ rec[c].status = status

DeviceMatches(r, a) ==
  /\ a.deviceId # None
  /\ Hmac(r.kid, a.deviceId) = r.deviceIdHash

DeviceAccepted(r, a) == r.deviceIdHash = None \/ DeviceMatches(r, a)

\* Fault: [N-30] without its sixth condition.
WithinGraceForever(r, now) ==
  /\ ReuseGrace > 0
  /\ r.rotatedAt # None
  /\ now - r.rotatedAt <= ReuseGrace
  /\ r.replacedBySelector # None

WithinGrace(r, now) ==
  /\ ReuseGrace > 0
  /\ r.rotatedAt # None
  /\ now - r.rotatedAt <= ReuseGrace
  /\ r.replacedBySelector # None
  /\ now < r.familyExpiresAt

CheckRotated(c) ==
  /\ Refreshing(c, "rotated")
  /\ \/ /\ WithinGrace(rec[c], clock)
        /\ GoTo(c, "findSuccessor")
        /\ UNCHANGED verdict
     \/ /\ ~ WithinGrace(rec[c], clock)
        /\ RevokeThenReturn(c, "REUSE_DETECTED")
  /\ at' = [at EXCEPT ![c] = clock]
  /\ UNCHANGED <<storeVars, arg, rec, nxt, historyVars>>

CheckRevoked(c) ==
  /\ Refreshing(c, "revoked")
  /\ Return(c, "REVOKED")
  /\ UNCHANGED <<storeVars, historyVars>>

PastAbsolute(r, now) == now >= r.familyExpiresAt
PastIdle(r, now)     == now >= r.idleExpiresAt

CheckActive(c) ==
  /\ Refreshing(c, "active")
  /\ \/ /\ PastAbsolute(rec[c], clock)
        /\ RevokeThenReturn(c, "EXPIRED_ABSOLUTE")
     \/ /\ ~ PastAbsolute(rec[c], clock)
        /\ PastIdle(rec[c], clock)
        /\ RevokeThenReturn(c, "EXPIRED_IDLE")
     \/ /\ ~ PastAbsolute(rec[c], clock)
        /\ ~ PastIdle(rec[c], clock)
        /\ ~ DeviceAccepted(rec[c], arg[c])
        /\ RevokeThenReturn(c, "DEVICE_MISMATCH")
     \/ /\ ~ PastAbsolute(rec[c], clock)
        /\ ~ PastIdle(rec[c], clock)
        /\ DeviceAccepted(rec[c], arg[c])
        /\ GoTo(c, "insert")
        /\ UNCHANGED verdict
  /\ at' = [at EXCEPT ![c] = clock]
  /\ UNCHANGED <<storeVars, arg, rec, nxt, historyVars>>

-----------------------------------------------------------------------------
(* #handleReuse, inside the grace window.                                   *)

\* Faults: a retry that waits for its successor to become active, and one
\* that refuses a used successor without revoking the family.
FindSuccessorWaits(c) ==
  /\ pc[c] = "findSuccessor"
  /\ IsActive(rec[c].replacedBySelector)
  /\ GoTo(c, "consume")
  /\ nxt' = [nxt EXCEPT ![c] = rec[c].replacedBySelector]
  /\ UNCHANGED <<storeVars, arg, rec, at, verdict, historyVars>>

FindSuccessorForgives(c) ==
  \/ FindSuccessorWaits(c)
  \/ /\ pc[c] = "findSuccessor"
     /\ ~ IsActive(rec[c].replacedBySelector)
     /\ Return(c, "REUSE_DETECTED")
     /\ UNCHANGED <<storeVars, historyVars>>

FindSuccessor(c) ==
  /\ pc[c] = "findSuccessor"
  /\ LET successor == rec[c].replacedBySelector
     IN  \/ /\ ~ IsActive(successor)
            /\ RevokeThenReturn(c, "REUSE_DETECTED")
            /\ UNCHANGED nxt
         \/ /\ IsActive(successor)
            /\ ~ DeviceAccepted(rec[c], arg[c])
            /\ RevokeThenReturn(c, "DEVICE_MISMATCH")
            /\ UNCHANGED nxt
         \/ /\ IsActive(successor)
            /\ DeviceAccepted(rec[c], arg[c])
            /\ GoTo(c, "consume")
            /\ nxt' = [nxt EXCEPT ![c] = successor]
            /\ UNCHANGED verdict
  /\ UNCHANGED <<storeVars, arg, rec, at, historyVars>>

\* Exactly one concurrent retry consumes the unused successor.
Consume(c) ==
  /\ pc[c] = "consume"
  /\ RevokeIfActive(nxt[c])
  /\ \/ /\ RevokeIfActiveApplies(nxt[c])
        /\ GoTo(c, "insert")
        /\ nxt' = [nxt EXCEPT ![c] = None]
        /\ UNCHANGED <<arg, rec, at, verdict>>
     \/ /\ ~ RevokeIfActiveApplies(nxt[c])
        /\ Return(c, "CONFLICT")
  /\ UNCHANGED <<clock, historyVars>>

-----------------------------------------------------------------------------
(* #rotate                                                                  *)

\* Faults: the old hash is kept, the device id is stored in the clear.
NextDeviceIdHashKept(r, a) == r.deviceIdHash
NextDeviceIdClear(r, a)    == IF r.deviceIdHash # None THEN a.deviceId ELSE None

\* A bound family is re-hashed under the active pepper.
NextDeviceIdHash(r, a) ==
  IF r.deviceIdHash # None /\ a.deviceId # None
  THEN Hmac(ActiveKid[a.engine], a.deviceId)
  ELSE r.deviceIdHash

\* Fault: every rotation starts a new absolute lifetime.
SlidingFamilyExpiresAt(r, now) == now + AbsoluteTtl

NextFamilyExpiresAt(r, now) == r.familyExpiresAt

\* Fault: a grace retry records its own time.
RotatedAtNow(r, now) == now

\* The rotation time a grace retry records is the original one.
RotatedAt(r, now) == IF r.status = "rotated" THEN r.rotatedAt ELSE now

InsertSuccessor(c) ==
  /\ pc[c] = "insert"
  /\ \E s \in Fresh :
       /\ Insert(s, Mint(arg[c].engine, s, rec[c].familyId, rec[c].generation + 1,
                         rec[c].userId, NextDeviceIdHash(rec[c], arg[c]),
                         NextFamilyExpiresAt(rec[c], at[c]), at[c]))
       /\ minted' = minted \cup {s}
       /\ nxt' = [nxt EXCEPT ![c] = s]
  /\ GoTo(c, "markRotated")
  /\ UNCHANGED <<clock, arg, rec, at, verdict, granted, charter, dead, aborts>>

MarkPredecessor(c) ==
  /\ pc[c] = "markRotated"
  /\ \/ /\ MarkRotatedApplies(arg[c].selector, rec[c].status)
        /\ MarkRotated(arg[c].selector, RotatedAt(rec[c], at[c]), nxt[c])
        /\ granted' = granted \cup {nxt[c]}
        /\ Return(c, "OK")
     \/ /\ ~ MarkRotatedApplies(arg[c].selector, rec[c].status)
        /\ GoTo(c, "compensate")
        /\ UNCHANGED <<rows, arg, rec, at, nxt, verdict, granted>>
  /\ UNCHANGED <<clock, minted, charter, dead, aborts>>

\* Fault: the loser leaves the successor it inserted.
CompensateNothing(c) ==
  /\ pc[c] = "compensate"
  /\ Return(c, "CONFLICT")
  /\ UNCHANGED <<storeVars, historyVars>>

Compensate(c) ==
  /\ pc[c] = "compensate"
  /\ RevokeIfActive(nxt[c])
  /\ Return(c, "CONFLICT")
  /\ UNCHANGED <<clock, historyVars>>

\* The family revocation of a refused refresh, or of revokeToken.
RevokeFamilyOf(c) ==
  /\ pc[c] = "revokeFamily"
  /\ RevokeFamily(rec[c].familyId)
  /\ Return(c, verdict[c])
  /\ UNCHANGED <<clock, minted, granted, charter, aborts>>

-----------------------------------------------------------------------------
(* Everything else that touches the store, and failures.                    *)

\* A store call throws, or the process dies: the call ends with nothing
\* undone.  A write that took effect although its answer was lost is the write
\* followed by this step; for the last write of a call, it is that write and a
\* token its caller never uses.
Abort(c) ==
  /\ pc[c] # "idle"
  /\ aborts < MaxAborts
  /\ aborts' = aborts + 1
  /\ Return(c, "THROWN")
  /\ UNCHANGED <<storeVars, minted, granted, charter, dead>>

\* engine.revokeFamily(familyId) and engine.revokeAllForUser(userId)
AdminRevokeFamily(f) ==
  /\ RevokeFamily(f)
  /\ Silent
  /\ UNCHANGED <<clock, callVars, minted, granted, charter, aborts>>

AdminRevokeUser(u) ==
  /\ RevokeUser(u)
  /\ Silent
  /\ UNCHANGED <<clock, callVars, minted, granted, charter, aborts>>

\* Fault: rows are collected at their idle deadline.
IdleExpired(r, now) == now >= r.idleExpiresAt

Expired(r, now) == now >= r.familyExpiresAt

DeleteExpired ==
  /\ rows' = [s \in Selectors |->
                IF Present(s) /\ Expired(rows[s], clock) THEN NoRow ELSE rows[s]]
  /\ Silent
  /\ UNCHANGED <<clock, callVars, historyVars>>

Tick ==
  /\ clock < MaxTime
  /\ clock' = clock + 1
  /\ Silent
  /\ UNCHANGED <<rows, callVars, historyVars>>

-----------------------------------------------------------------------------
Init ==
  /\ rows = [s \in Selectors |-> NoRow]
  /\ clock = 0
  /\ pc = [c \in Calls |-> "idle"]
  /\ arg = [c \in Calls |-> None]
  /\ rec = [c \in Calls |-> NoRow]
  /\ at = [c \in Calls |-> 0]
  /\ nxt = [c \in Calls |-> None]
  /\ verdict = [c \in Calls |-> None]
  /\ reply = None
  /\ minted = {}
  /\ granted = {}
  /\ charter = [f \in Families |-> None]
  /\ dead = {}
  /\ aborts = 0

\* The steps a call takes once it has begun.
Progress(c) ==
  \/ IssueInsert(c)
  \/ Find(c)
  \/ RefuseUnproved(c)
  \/ CheckRevokeToken(c)
  \/ CheckRotated(c)
  \/ CheckRevoked(c)
  \/ CheckActive(c)
  \/ FindSuccessor(c)
  \/ Consume(c)
  \/ InsertSuccessor(c)
  \/ MarkPredecessor(c)
  \/ Compensate(c)
  \/ RevokeFamilyOf(c)

Next ==
  \/ \E c \in Calls :
       \/ \E a \in IssueArg : BeginIssue(c, a)
       \/ \E a \in PresentArg, kid \in Kids : BeginPresent(c, a, kid)
       \/ RefuseMalformed(c)
       \/ Progress(c)
       \/ Abort(c)
  \/ \E f \in Families : AdminRevokeFamily(f)
  \/ \E u \in Users : AdminRevokeUser(u)
  \/ DeleteExpired
  \/ Tick

Spec == Init /\ [][Next]_vars

-----------------------------------------------------------------------------
(* Properties.                                                              *)

TypeOK ==
  /\ rows \in [Selectors -> TokenRecord \cup {NoRow}]
  /\ clock \in Nat
  /\ pc \in [Calls -> Steps]
  /\ arg \in [Calls -> IssueArg \cup PresentArg \cup {None}]
  /\ rec \in [Calls -> TokenRecord \cup {NoRow}]
  /\ at \in [Calls -> Nat]
  /\ nxt \in [Calls -> Selectors \cup {None}]
  /\ verdict \in [Calls -> Codes \cup {None}]
  /\ reply \in Codes \cup {None}
  /\ minted \subseteq Selectors
  /\ granted \subseteq Selectors
  /\ charter \in [Families -> Login \cup {None}]
  /\ dead \subseteq Families
  /\ aborts \in Nat

\* The tokens of a family that callers hold and could exchange now.
Heads(f) == {s \in granted : IsActive(s) /\ rows[s].familyId = f}

\* Rows of a family that belong to its lineage: handed out, not revoked.
Lineage(f) == {s \in granted : rows[s].status \in {"active", "rotated"}
                               /\ rows[s].familyId = f}

\* No fork (THREAT_MODEL T5): however refreshes, grace retries, failures and
\* revocations interleave, a family never has two tokens in callers' hands
\* that #rotate would exchange.
NoFork == \A f \in Families : \A s, t \in Heads(f) : s = t

\* The lineage is one line: generations in it are distinct, and the token
\* that can still be exchanged is the newest.  #rotate adds generation + 1.
LinearLineage ==
  \A f \in Families : \A s, t \in Lineage(f) :
    /\ rows[s].generation = rows[t].generation => s = t
    /\ IsActive(s) => rows[t].generation <= rows[s].generation

\* A revocation holds ([N-19]): after revokeFamily or revokeUser ran, no token
\* of that family in a caller's hands is exchangeable, then or later, whatever
\* refreshes were already in flight.
RevocationHolds == \A f \in dead : Heads(f) = {}

\* r has the user, the absolute deadline and the device of its family's login.
FromLogin(r) ==
  LET login == charter[r.familyId]
  IN  /\ login # None
      /\ r.userId = login.userId
      /\ r.familyExpiresAt = login.expiresAt
      /\ r.idleExpiresAt <= login.expiresAt
      /\ r.deviceIdHash = IF login.deviceId = None THEN None
                          ELSE Hmac(r.kid, login.deviceId)

\* Rotation keeps what login established: every row of a family has its user,
\* its absolute deadline and its device, the device hashed with the pepper of
\* the row's own kid, and no idle deadline outlives the absolute one.
CharterKept == \A s \in Selectors : Present(s) => FromLogin(rows[s])

\* Sender binding, both ways, across pepper rotation ([N-32], [N-33]): a call
\* that gets as far as rotating presented the device of the login, and a call
\* refused with DEVICE_MISMATCH did not.
DeviceJudgedRight ==
  \A c \in Calls :
    LET bound == charter[rec[c].familyId].deviceId
    IN  /\ pc[c] \in {"consume", "insert", "markRotated"}
             => bound \in {None, arg[c].deviceId}
        /\ pc[c] = "revokeFamily" /\ verdict[c] = "DEVICE_MISMATCH"
             => bound \notin {None, arg[c].deviceId}

\* No successor is dead on arrival: its deadline lies after the time at which
\* the request was judged, also on the grace path ([N-30] condition 6).
NoDeadOnArrival ==
  \A c \in Calls :
    pc[c] = "markRotated" /\ Present(nxt[c]) => at[c] < rows[nxt[c]].idleExpiresAt

\* Compensation is complete ([N-34] step 5): when no call is in flight and none
\* died, every exchangeable row is one a caller was handed.
NoOrphanAtRest ==
  aborts = 0 /\ (\A c \in Calls : pc[c] = "idle")
    => \A s \in Selectors : IsActive(s) => s \in granted

\* Rows only move forward, active to rotated to revoked, and a row leaves the
\* store only at its family's deadline ([N-15]): the evidence a replay is
\* recognised by is never lost or undone.
EvidenceStep(s) ==
  /\ rows[s].status = "rotated" => rows'[s].status # "active"
  /\ rows[s].status = "revoked" => rows'[s].status \in {"revoked", "absent"}
  /\ Present(s) /\ rows'[s] = NoRow => clock >= rows[s].familyExpiresAt

EvidenceKept == [][\A s \in Selectors : EvidenceStep(s)]_vars

\* The grace window cannot be stretched ([N-30]): a token exchanged again keeps
\* its first rotation time, and it is exchanged again only when its earlier
\* successor can no longer be used and has not been.
GraceStep(s) ==
  rows[s].status = "rotated" /\ rows'[s].status = "rotated" =>
    /\ rows'[s].rotatedAt = rows[s].rotatedAt
    /\ rows'[s].replacedBySelector # rows[s].replacedBySelector =>
         /\ ReuseGrace > 0
         /\ rows[s].replacedBySelector \notin Lineage(rows[s].familyId)

GraceNotExtended == [][\A s \in Selectors : GraceStep(s)]_vars

\* Blast radius: a call in flight revokes rows of the family whose token it
\* proved and of no other, also through a successor it read earlier; an
\* administrator's step revokes sessions of one user only.
RevocationStep(s) ==
  rows[s].status \in {"active", "rotated"} /\ rows'[s].status = "revoked" =>
    \/ \E c \in Calls : /\ pc'[c] # pc[c] /\ rec[c] # NoRow
                        /\ rec[c].familyId = rows[s].familyId
    \/ /\ pc' = pc
       /\ \A t \in Selectors : rows'[t] # rows[t] => rows[t].userId = rows[s].userId

BlastRadius == [][\A s \in Selectors : RevocationStep(s)]_vars

\* A selector is no capability ([N-28], [N-36]): a call that presented a
\* selector without its verifier changes neither store nor sessions.
GuessStep(c) ==
  /\ pc[c] \notin {"idle", "issue"}
  /\ arg[c].verifier \in Guesses
  /\ pc'[c] # pc[c]
  => UNCHANGED <<rows, granted, dead>>

GuessChangesNothing == [][\A c \in Calls : GuessStep(c)]_vars

-----------------------------------------------------------------------------
(* Liveness.  A store call that is made is eventually answered, so every    *)
(* call in flight keeps taking steps; nothing obliges anyone to begin one.  *)

FairSpec == Spec /\ \A c \in Calls : WF_vars(Progress(c))

\* Bound of the model: no selector is left to mint.
Exhausted == Fresh = {}

\* Every call ends.
CallsReturn == \A c \in Calls : pc[c] # "idle" ~> pc[c] = "idle" \/ Exhausted

\* Presenting a token whose successor has been used is the theft signal: the
\* family is revoked, or its deadline passes and it is collected.  (Stated for
\* calls that do not die.)
ReplayBurnsFamily ==
  \A c \in Calls, s \in Selectors, f \in Families :
    /\ pc[c] = "find" /\ arg[c].op = "refresh"
    /\ arg[c].selector = s /\ arg[c].verifier = s
    /\ rows[s].status = "rotated" /\ rows[s].familyId = f
    /\ rows[rows[s].replacedBySelector].status = "rotated"
    ~> f \in dead \/ (charter[f] # None /\ clock >= charter[f].expiresAt)

-----------------------------------------------------------------------------
(* For the refinement and the proofs.                                       *)

\* A grace retry that has consumed the successor and not yet marked its token.
Retrying(c) == pc[c] \in {"insert", "markRotated"} /\ rec[c].status = "rotated"

=============================================================================
