\* Bulk revocation row by row, against refreshes, grace retries and collection.
SPECIFICATION SweepSpec
CONSTANTS
  k1 = k1
  old = old
  None = None
  Selectors = {s1, s2, s3}
  Families = {f1}
  Users = {u1}
  Devices = {}
  Guesses = {}
  Kids = {k1}
  Engines = {old}
  Peppers <- OnePepper
  ActiveKid <- OneActive
  Calls = {c1, c2}
  AbsoluteTtl = 1
  IdleTtl = 1
  ReuseGrace = 1
  MaxTime = 1
  MaxAborts = 0
  MaxWalks = 1
SYMMETRY Symmetry
INVARIANTS NoFork LinearLineage SnapshotRevoked
PROPERTIES EvidenceKept
