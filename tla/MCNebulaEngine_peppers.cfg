\* A rolling pepper rotation that ends too early, with bound devices.
SPECIFICATION Spec
CONSTANTS
  k1 = k1
  k2 = k2
  old = old
  new = new
  None = None
  Selectors = {s1, s2, s3}
  Families = {f1}
  Users = {u1}
  Devices = {d1, d2}
  Guesses = {g}
  Kids = {k1, k2}
  Engines = {old, new}
  Peppers <- RetiredPeppers
  ActiveKid <- RollingActive
  Calls = {c1}
  AbsoluteTtl = 2
  IdleTtl = 1
  ReuseGrace = 1
  MaxTime = 2
  MaxAborts = 1
SYMMETRY Symmetry
INVARIANTS TypeOK CharterKept DeviceJudgedRight
PROPERTIES GuessChangesNothing EvidenceKept
