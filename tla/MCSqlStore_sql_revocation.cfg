\* A revocation that misses the row an open refresh has inserted.
SPECIFICATION SqlSpec
CONSTANTS
  k1 = k1
  old = old
  None = None
  Selectors = {s1, s2, s3}
  Families = {f1}
  Users = {u1}
  Devices = {}
  Guesses = {}
  Kids = {k1}
  Engines = {old}
  Peppers <- OnePepper
  ActiveKid <- OneActive
  Calls = {c1, c2}
  AbsoluteTtl = 1
  IdleTtl = 1
  ReuseGrace = 1
  MaxTime = 0
  MaxAborts = 1
INVARIANTS RevocationHolds
