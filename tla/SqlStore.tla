------------------------------ MODULE SqlStore ------------------------------
(***************************************************************************)
(* The engine over packages/typescript/examples/postgres-store.ts, called  *)
(* as its header and docs/STORE.md section 5 say: BEGIN, one engine call,  *)
(* COMMIT, or ROLLBACK when the engine threw; issue, the administrator's   *)
(* revocations and the collector are single statements that commit         *)
(* themselves.  `rows` is the committed table.                             *)
(*                                                                         *)
(* The isolation level is READ COMMITTED.  A statement sees what was       *)
(* committed when it started and its own transaction's writes; an UPDATE   *)
(* or DELETE waits for a row another transaction has written, and then     *)
(* looks at its WHERE clause again on the row that transaction left.       *)
(***************************************************************************)
EXTENDS NebulaEngine

\* The bulk statements, and one of them in execution: the rows it has still to
\* come to, the rows it is about and their families.
Predicate == [op : {"revokeFamily"}, of : Families] \cup [op : {"revokeUser"}, of : Users]
               \cup [op : {"deleteExpired"}, of : Nat]

Statement == [by : Predicate, todo : SUBSET Selectors, settles : SUBSET Selectors,
              doomed : SUBSET Families]

ASSUME StatementAssumption == None \notin Statement

VARIABLES
  writes,    \* per call: the row versions its open transaction has written
  stmt,      \* per call: the statement over many rows it is executing, or None
  settled    \* history: rows a committed revocation saw when it started

sqlVars == <<vars, writes, stmt, settled>>

Untouched == [status |-> "untouched"]
NoWrites  == [s \in Selectors |-> Untouched]

\* Row locks are held by the transaction that wrote the row.
Holds(c, s)  == writes[c][s] # Untouched
Locked(c, s) == \E d \in Calls \ {c} : Holds(d, s)

Seen(c, s) == IF Holds(c, s) THEN writes[c][s] ELSE rows[s]

Write(c, s, r) == writes' = [writes EXCEPT ![c][s] = r]

\* The engine call is over; COMMIT follows.
Finish(c, code) ==
  /\ GoTo(c, "commit")
  /\ verdict' = [verdict EXCEPT ![c] = code]

-----------------------------------------------------------------------------
(* Statements on one row: UPDATE ... WHERE selector = $1 AND status = $n.   *)

\* Fault: the loser of the compare-and-set commits the successor it inserted.
SqlCompensateNothing(c) ==
  /\ pc[c] = "compensate"
  /\ Finish(c, "CONFLICT")
  /\ UNCHANGED <<storeVars, arg, rec, at, nxt, historyVars, writes, stmt, settled>>

\* Fault: markRotated without AND status = $4.
RowExists(c, s, status) == Seen(c, s) # NoRow

\* The WHERE clause of a compare-and-set, on the row the statement sees.
Matched(c, s, status) == Seen(c, s).status = status

\* revokeIfActive(successor)
SqlConsume(c) ==
  /\ pc[c] = "consume"
  /\ \/ /\ Matched(c, nxt[c], "active")
        /\ ~ Locked(c, nxt[c])
        /\ Write(c, nxt[c], Revoked(Seen(c, nxt[c])))
        /\ GoTo(c, "insert")
        /\ nxt' = [nxt EXCEPT ![c] = None]
        /\ UNCHANGED verdict
     \/ /\ ~ Matched(c, nxt[c], "active")
        /\ Finish(c, "CONFLICT")
        /\ UNCHANGED <<nxt, writes>>
  /\ UNCHANGED <<storeVars, arg, rec, at, historyVars, stmt, settled>>

\* insert(successor)
SqlInsert(c) ==
  /\ pc[c] = "insert"
  /\ \E s \in Fresh :
       /\ Write(c, s, Mint(arg[c].engine, s, rec[c].familyId, rec[c].generation + 1,
                           rec[c].userId, NextDeviceIdHash(rec[c], arg[c]),
                           NextFamilyExpiresAt(rec[c], at[c]), at[c]))
       /\ minted' = minted \cup {s}
       /\ nxt' = [nxt EXCEPT ![c] = s]
  /\ GoTo(c, "markRotated")
  /\ UNCHANGED <<storeVars, arg, rec, at, verdict, granted, charter, dead, aborts,
                 stmt, settled>>

\* markRotated(predecessor, fromStatus)
SqlMarkRotated(c) ==
  LET s == arg[c].selector
  IN  /\ pc[c] = "markRotated"
      /\ \/ /\ Matched(c, s, rec[c].status)
            /\ ~ Locked(c, s)
            /\ Write(c, s, [Seen(c, s) EXCEPT !.status = "rotated",
                                              !.rotatedAt = RotatedAt(rec[c], at[c]),
                                              !.replacedBySelector = nxt[c]])
            /\ Finish(c, "OK")
         \/ /\ ~ Matched(c, s, rec[c].status)
            /\ GoTo(c, "compensate")
            /\ UNCHANGED <<verdict, writes>>
      /\ UNCHANGED <<storeVars, arg, rec, at, nxt, historyVars, stmt, settled>>

\* revokeIfActive of the successor this transaction inserted
SqlCompensate(c) ==
  /\ pc[c] = "compensate"
  /\ Write(c, nxt[c], Revoked(Seen(c, nxt[c])))
  /\ Finish(c, "CONFLICT")
  /\ UNCHANGED <<storeVars, arg, rec, at, nxt, historyVars, stmt, settled>>

-----------------------------------------------------------------------------
(* Statements on many rows.                                                 *)

ByFamily(f)   == [op |-> "revokeFamily", of |-> f]
ByUser(u)     == [op |-> "revokeUser", of |-> u]
ByTime(now)   == [op |-> "deleteExpired", of |-> now]

\* The rows a revocation is about.
Covers(r, by) ==
  /\ r # NoRow
  /\ \/ by.op = "revokeFamily" /\ r.familyId = by.of
     \/ by.op = "revokeUser" /\ r.userId = by.of

\* The WHERE clauses.  Expired means strictly past the deadline here.
Hit(r, by) ==
  \/ Covers(r, by) /\ r.status # "revoked"
  \/ r # NoRow /\ by.op = "deleteExpired" /\ r.familyExpiresAt < by.of

\* The statement's snapshot decides which rows it will come to.
StartStatement(c, by) ==
  LET all == {s \in Selectors : Covers(Seen(c, s), by)}
  IN  /\ stmt[c] = None
      /\ stmt' = [stmt EXCEPT ![c] =
                    [by      |-> by,
                     todo    |-> {s \in Selectors : Hit(Seen(c, s), by)},
                     settles |-> all,
                     doomed  |-> {Seen(c, s).familyId : s \in all}]]
      /\ Silent
      /\ UNCHANGED <<storeVars, callVars, historyVars, writes, settled>>

StartRevokeFamily(c) == pc[c] = "revokeFamily" /\ StartStatement(c, ByFamily(rec[c].familyId))

\* Statements outside any request.
StartAdmin(c, by) == pc[c] = "idle" /\ StartStatement(c, by)

Effect(r, by) == IF by.op = "deleteExpired" THEN NoRow ELSE Revoked(r)

\* Fault: rows another transaction has locked are left out (SKIP LOCKED).
StatementRowSkips(c) ==
  /\ stmt[c] # None
  /\ \E s \in stmt[c].todo :
       /\ IF Hit(Seen(c, s), stmt[c].by) /\ ~ Locked(c, s)
          THEN Write(c, s, Effect(Seen(c, s), stmt[c].by))
          ELSE UNCHANGED writes
       /\ stmt' = [stmt EXCEPT ![c].todo = @ \ {s}]
  /\ Silent
  /\ UNCHANGED <<storeVars, callVars, historyVars, settled>>

\* One row: wait for its lock, look at it again, write it.
StatementRow(c) ==
  /\ stmt[c] # None
  /\ \E s \in stmt[c].todo :
       /\ ~ Locked(c, s)
       /\ IF Hit(Seen(c, s), stmt[c].by)
          THEN Write(c, s, Effect(Seen(c, s), stmt[c].by))
          ELSE UNCHANGED writes
       /\ stmt' = [stmt EXCEPT ![c].todo = @ \ {s}]
  /\ Silent
  /\ UNCHANGED <<storeVars, callVars, historyVars, settled>>

-----------------------------------------------------------------------------
(* Transactions.                                                            *)

EndTransaction(c) ==
  /\ writes' = [writes EXCEPT ![c] = NoWrites]
  /\ stmt' = [stmt EXCEPT ![c] = None]

\* COMMIT, and the answer to the caller.
Commit(c) ==
  /\ \/ pc[c] = "commit"
     \/ stmt[c] # None /\ stmt[c].todo = {}
  /\ rows' = [s \in Selectors |-> Seen(c, s)]
  /\ EndTransaction(c)
  /\ \/ /\ stmt[c] # None
        /\ dead' = dead \cup stmt[c].doomed
        /\ settled' = settled \cup stmt[c].settles
        /\ UNCHANGED granted
     \/ /\ stmt[c] = None
        /\ granted' = IF verdict[c] = "OK" THEN granted \cup {nxt[c]} ELSE granted
        /\ UNCHANGED <<dead, settled>>
  /\ \/ pc[c] # "idle" /\ Return(c, verdict[c])
     \/ pc[c] = "idle" /\ Silent /\ UNCHANGED callVars
  /\ UNCHANGED <<clock, minted, charter, aborts>>

InTransaction(c) == pc[c] \notin {"idle", "issue"} \/ stmt[c] # None

\* Fault: COMMIT in a finally block, also when the engine threw.
RollbackCommits(c) ==
  /\ InTransaction(c)
  /\ rows' = [s \in Selectors |-> Seen(c, s)]
  /\ EndTransaction(c)
  /\ Return(c, "THROWN")
  /\ UNCHANGED <<clock, minted, granted, charter, dead, settled>>

\* ROLLBACK: nothing the transaction wrote was ever visible.
Rollback(c) ==
  /\ InTransaction(c)
  /\ EndTransaction(c)
  /\ Return(c, "THROWN")
  /\ UNCHANGED <<storeVars, minted, granted, charter, dead, settled>>

\* A store call throws, the process dies or the connection is lost.  (Bound: a
\* call that finds no selector left to mint dies too, or it would hold its
\* locks for ever.)
SqlAbort(c) ==
  /\ \/ aborts < MaxAborts /\ aborts' = aborts + 1
     \/ pc[c] = "insert" /\ Fresh = {} /\ UNCHANGED aborts
  /\ Rollback(c)

\* The rows c's next statement has to lock.
Wanted(c) ==
  {s \in Selectors :
     \/ stmt[c] # None /\ s \in stmt[c].todo
     \/ pc[c] = "consume" /\ s = nxt[c] /\ Matched(c, s, "active")
     \/ pc[c] = "markRotated" /\ s = arg[c].selector /\ Matched(c, s, rec[c].status)}

WaitsFor(c, d) == \E s \in Wanted(c) : Holds(d, s)

\* The database ends one of two transactions that wait for each other.
DeadlockVictim(c) ==
  /\ \E d \in Calls \ {c} : WaitsFor(c, d) /\ WaitsFor(d, c)
  /\ Rollback(c)
  /\ UNCHANGED aborts

-----------------------------------------------------------------------------
\* Steps that only read, and issue's single INSERT, are the engine's own.
ReadingStep(c) ==
  /\ stmt[c] = None
  /\ \/ \E a \in IssueArg : BeginIssue(c, a)
     \/ \E a \in PresentArg, kid \in Kids : BeginPresent(c, a, kid)
     \/ IssueInsert(c) \/ Find(c) \/ RefuseUnproved(c) \/ CheckRevokeToken(c)
     \/ CheckRotated(c) \/ CheckRevoked(c) \/ CheckActive(c) \/ FindSuccessor(c)
  /\ UNCHANGED <<writes, stmt, settled>>

SqlInit ==
  /\ Init
  /\ writes = [c \in Calls |-> NoWrites]
  /\ stmt = [c \in Calls |-> None]
  /\ settled = {}

SqlNext ==
  \/ \E c \in Calls :
       \/ ReadingStep(c)
       \/ SqlConsume(c) \/ SqlInsert(c) \/ SqlMarkRotated(c) \/ SqlCompensate(c)
       \/ StartRevokeFamily(c)
       \/ \E f \in Families : StartAdmin(c, ByFamily(f))
       \/ \E u \in Users : StartAdmin(c, ByUser(u))
       \/ StartAdmin(c, ByTime(clock))
       \/ StatementRow(c)
       \/ Commit(c)
       \/ SqlAbort(c)
       \/ DeadlockVictim(c)
  \/ Tick /\ UNCHANGED <<writes, stmt, settled>>

SqlSpec == SqlInit /\ [][SqlNext]_sqlVars

-----------------------------------------------------------------------------
\* One transaction per refresh leaves no orphan, at any time and whatever
\* died: every exchangeable row in the table is one a caller was handed.
\* (Without the transaction, NoOrphanAtRest is all there is.)
NoOrphanCommitted == \A s \in Selectors : IsActive(s) => s \in granted

\* A retry that dies costs nothing: while its family lives, the successor of a
\* rotated token is still exchangeable or was exchanged in its turn.  Without
\* the transaction a grace retry that dies after consuming the successor leaves
\* a token whose next presentation is judged a replay.
SuccessorIntact ==
  \A s \in granted :
    /\ rows[s].status = "rotated"
    /\ rows[s].familyId \notin dead
    => rows[rows[s].replacedBySelector].status \in {"active", "rotated"}

\* What a revocation does guarantee at READ COMMITTED: the rows that were
\* committed when its UPDATE started stay revoked once it has committed, though
\* refreshes it had to wait for have rewritten them meanwhile.
CommittedRevoked == \A s \in settled : rows[s].status \in {"revoked", "absent"}

\* The login that may still open the family.
Opening(f) ==
  \/ charter[f] = None
  \/ \E c \in Calls : pc[c] = "issue" /\ arg[c].familyId = f

Ledger == INSTANCE FamilyLedger WITH
  head   <- [f \in Families |-> Heads(f)],
  credit <- {f \in Families : Opening(f)},
  closed <- {}

\* The committed table keeps the ledger's accounts with nothing owed in
\* between: a grace retry is one exchange, one token for one token, not a
\* withdrawal and a later grant; and a family whose token a revocation or the
\* collector took is never given another, although an open refresh has
\* inserted a row the statement did not see.
SqlLedgerKept == Ledger!LedgerSpec
=============================================================================
