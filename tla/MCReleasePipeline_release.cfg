\* A release with one mishap, one re-run and one second tag.
SPECIFICATION ReleaseSpec
CONSTANTS
  None = None
  Versions = {v1, v2}
  NotSemver = junk
  OldVersion = v1
  Release = v2
  MaxMishaps = 1
  MaxTags = 2
  MaxReruns = 1
INVARIANTS SetIsComplete ShippedAgrees OneCommit ChainPrefix AllTenServe
