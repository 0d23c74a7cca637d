\* Refreshes in transactions beside bulk statements, deaths and deadlocks.
SPECIFICATION SqlSpec
CONSTANTS
  k1 = k1
  old = old
  None = None
  Selectors = {s1, s2, s3}
  Families = {f1}
  Users = {u1}
  Devices = {}
  Guesses = {}
  Kids = {k1}
  Engines = {old}
  Peppers <- OnePepper
  ActiveKid <- OneActive
  Calls = {c1, c2}
  AbsoluteTtl = 1
  IdleTtl = 1
  ReuseGrace = 1
  MaxTime = 2
  MaxAborts = 1
SYMMETRY Symmetry
INVARIANTS NoFork LinearLineage NoOrphanCommitted SuccessorIntact CommittedRevoked
PROPERTIES EvidenceKept SqlLedgerKept
