\* Any key may be staged for deletion.
CONSTANTS
  N = 2
  Values = {u, v}
  None = None
  Unset = Unset
  Deleted = Deleted
  AnyTombstones = TRUE
SPECIFICATION Spec
INVARIANT ScanIsTheView
CHECK_DEADLOCK FALSE
