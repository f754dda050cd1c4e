\* Iterators over four pairs, pages of at most three, three broken
\* connections; batches of memdb and of versiondb with up to three operations.
CONSTANTS
  N = 4
  PageSize = 3
  MaxBroken = 3
  Values = {u, v}
  None = None
  Unset = Unset
  Deleted = Deleted
  AnyTombstones = FALSE
  Kinds = {"memdb", "versiondb"}
  BatchKeys = {k1, k2}
  MaxQueue = 3
  MaxSize = 7
SPECIFICATION MCFairSpec
\* A scan that has ended and a released iterator are not called again.
CHECK_DEADLOCK FALSE
INVARIANTS NoSilentHole ScanIsTheView CallReachesItsMethod
PROPERTIES WriteIsReplay StopIsHeard
