\* Two calls at once on one family: refreshes, grace retries, revocations.
SPECIFICATION Spec
CONSTANTS
  k1 = k1
  k2 = k2
  old = old
  new = new
  None = None
  Selectors = {s1, s2, s3, s4}
  Families = {f1}
  Users = {u1}
  Devices = {}
  Guesses = {}
  Kids = {k1}
  Engines = {old}
  Peppers <- OnePepper
  ActiveKid <- OneActive
  Calls = {c1, c2}
  AbsoluteTtl = 2
  IdleTtl = 2
  ReuseGrace = 1
  MaxTime = 2
  MaxAborts = 0
SYMMETRY Symmetry
INVARIANTS NoFork LinearLineage RevocationHolds NoOrphanAtRest NoDeadOnArrival
PROPERTIES GraceNotExtended EvidenceKept LedgerKept
