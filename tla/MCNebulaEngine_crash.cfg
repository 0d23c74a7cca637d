\* Two users and two families, two calls, one of which may die half way.
SPECIFICATION Spec
CONSTANTS
  k1 = k1
  k2 = k2
  old = old
  new = new
  None = None
  Selectors = {s1, s2, s3}
  Families = {f1, f2}
  Users = {u1, u2}
  Devices = {}
  Guesses = {}
  Kids = {k1}
  Engines = {old}
  Peppers <- OnePepper
  ActiveKid <- OneActive
  Calls = {c1, c2}
  AbsoluteTtl = 1
  IdleTtl = 1
  ReuseGrace = 1
  MaxTime = 1
  MaxAborts = 1
SYMMETRY Symmetry
PROPERTIES BlastRadius LedgerKept
