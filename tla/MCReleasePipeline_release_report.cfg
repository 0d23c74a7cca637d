\* A release reported as blocked before any registry was touched.
SPECIFICATION ReleaseSpec
CONSTANTS
  None = None
  Versions = {v1, v2}
  NotSemver = junk
  OldVersion = v1
  Release = v2
  MaxMishaps = 0
  MaxTags = 2
  MaxReruns = 1
INVARIANTS BlockedUntouched
