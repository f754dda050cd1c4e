\* One clone writes, another one only reads; every call must return.
CONSTANTS
  Clients = {w, r}
  Writers = {w}
  Keys = {k1, k2}
  Values = {empty}
  Empty = empty
  None = None
  Unset = Unset
  Deleted = Deleted
  Batches <- MCBatches
SPECIFICATION FairSpec
INVARIANTS TypeOK SnapshotInv
PROPERTIES ReadsSeeView CommitOutcome ImplementsTxnStore EveryCallReturns
