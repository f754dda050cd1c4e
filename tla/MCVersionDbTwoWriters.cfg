\* Two clones write and commit.
CONSTANTS
  Clients = {w1, w2}
  Writers = {w1, w2}
  Keys = {k1}
  Values = {empty, v}
  Empty = empty
  None = None
  Unset = Unset
  Deleted = Deleted
  Batches <- MCBatches
SPECIFICATION Spec
PROPERTIES CommitOutcome
