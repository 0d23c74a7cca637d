\* Progress of calls whose store answers.
SPECIFICATION FairSpec
CONSTANTS
  k1 = k1
  k2 = k2
  old = old
  new = new
  None = None
  Selectors = {s1, s2, s3}
  Families = {f1}
  Users = {u1}
  Devices = {}
  Guesses = {}
  Kids = {k1}
  Engines = {old}
  Peppers <- OnePepper
  ActiveKid <- OneActive
  Calls = {c1, c2}
  AbsoluteTtl = 2
  IdleTtl = 2
  ReuseGrace = 1
  MaxTime = 0
  MaxAborts = 0
PROPERTIES CallsReturn ReplayBurnsFamily
