---------------------------- MODULE SweepingStore ----------------------------
(***************************************************************************)
(* The engine over the in-memory stores whose bulk revocations are not one *)
(* atomic step: the Java store over a ConcurrentHashMap and the C# store   *)
(* over a ConcurrentDictionary.  revokeFamily and revokeUser walk the keys *)
(* and revoke row by row; each row is updated atomically, the walk is not. *)
(* The walk visits every key present when it starts; a key inserted later  *)
(* may be visited (the map's weakly consistent iterator) or not (the       *)
(* dictionary's snapshot of its keys).                                     *)
(***************************************************************************)
EXTENDS NebulaEngine, FiniteSets

CONSTANT MaxWalks   \* bound: how many bulk revocations walk at the same time

ASSUME WalkAssumption == MaxWalks \in Nat \ {0}

VARIABLES
  sweep,     \* per call: the bulk revocation it is in the middle of, or None
  swept      \* history: rows a finished revocation found when it started

sweepVars == <<vars, sweep, swept>>

\* The predicate handed to revokeWhere.
ByFamily(f) == [field |-> "familyId", value |-> f]
ByUser(u)   == [field |-> "userId", value |-> u]

Matches(s, by) == Present(s) /\ rows[s][by.field] = by.value

-----------------------------------------------------------------------------
\* The walk starts: the keys it is bound to visit are those present now.
StartSweep(c, by) ==
  /\ Cardinality({d \in Calls : sweep[d] # None}) < MaxWalks
  /\ sweep' = [sweep EXCEPT ![c] =
                 [by     |-> by,
                  todo   |-> {s \in Selectors : Present(s)},
                  found  |-> {s \in Selectors : Matches(s, by)},
                  doomed |-> {rows[s].familyId : s \in {t \in Selectors : Matches(t, by)}}]]

StartRevokeFamilyOf(c) ==
  /\ pc[c] = "revokeFamily"
  /\ sweep[c] = None
  /\ StartSweep(c, ByFamily(rec[c].familyId))
  /\ Silent
  /\ UNCHANGED <<storeVars, callVars, historyVars, swept>>

\* engine.revokeFamily(familyId) and engine.revokeAllForUser(userId)
StartAdminRevoke(c, by) ==
  /\ pc[c] = "idle"
  /\ sweep[c] = None
  /\ StartSweep(c, by)
  /\ Silent
  /\ UNCHANGED <<storeVars, callVars, historyVars, swept>>

\* Fault: the walk revokes the active rows only.
SweepHitsActive(s, by) == Matches(s, by) /\ IsActive(s)

\* A row of the walk's predicate that is not yet revoked.
SweepHits(s, by) == Matches(s, by) /\ rows[s].status # "revoked"

SweepRow(c) ==
  /\ sweep[c] # None
  /\ \E s \in sweep[c].todo \cup {t \in Selectors : Present(t)} :
       /\ rows' = [rows EXCEPT ![s] = IF SweepHits(s, sweep[c].by)
                                      THEN Revoked(@) ELSE @]
       /\ sweep' = [sweep EXCEPT ![c].todo = @ \ {s}]
  /\ Silent
  /\ UNCHANGED <<clock, callVars, historyVars, swept>>

\* The walk is over and its count is returned: the revocation is reported.
EndSweep(c) ==
  /\ sweep[c] # None
  /\ sweep[c].todo = {}
  /\ dead' = dead \cup sweep[c].doomed
  /\ swept' = swept \cup sweep[c].found
  /\ sweep' = [sweep EXCEPT ![c] = None]
  /\ \/ pc[c] = "revokeFamily" /\ Return(c, verdict[c])
     \/ pc[c] = "idle" /\ Silent /\ UNCHANGED callVars
  /\ UNCHANGED <<storeVars, minted, granted, charter, aborts>>

\* deleteExpired(now) walks too: this is one visit of its walk, and since what
\* has expired stays expired the visits need no other state.
CollectRow(s) ==
  /\ rows' = [rows EXCEPT ![s] =
                IF Present(s) /\ Expired(rows[s], clock) THEN NoRow ELSE @]
  /\ Silent
  /\ UNCHANGED <<clock, callVars, historyVars, sweep, swept>>

-----------------------------------------------------------------------------
\* Every other step of a call, as it is.  Refusals before the first store call
\* and calls that die are left to NebulaEngine's own runs.
EngineStep(c) ==
  /\ sweep[c] = None
  /\ \/ \E a \in IssueArg : BeginIssue(c, a)
     \/ \E a \in PresentArg, kid \in Kids : BeginPresent(c, a, kid)
     \/ IssueInsert(c) \/ Find(c) \/ RefuseUnproved(c) \/ CheckRevokeToken(c)
     \/ CheckRotated(c) \/ CheckRevoked(c) \/ CheckActive(c) \/ FindSuccessor(c)
     \/ Consume(c) \/ InsertSuccessor(c) \/ MarkPredecessor(c) \/ Compensate(c)
  /\ UNCHANGED <<sweep, swept>>

SweepInit ==
  /\ Init
  /\ sweep = [c \in Calls |-> None]
  /\ swept = {}

SweepNext ==
  \/ \E c \in Calls :
       \/ EngineStep(c)
       \/ StartRevokeFamilyOf(c)
       \/ \E f \in Families : StartAdminRevoke(c, ByFamily(f))
       \/ \E u \in Users : StartAdminRevoke(c, ByUser(u))
       \/ SweepRow(c)
       \/ EndSweep(c)
  \/ Tick /\ UNCHANGED <<sweep, swept>>
  \/ \E s \in Selectors : CollectRow(s)

SweepSpec == SweepInit /\ [][SweepNext]_sweepVars

-----------------------------------------------------------------------------
\* What the walk does guarantee: a row that was in the store when a revocation
\* started is revoked, or collected, from the moment the revocation returns.
SnapshotRevoked == \A s \in swept : rows[s].status \in {"revoked", "absent"}

=============================================================================
