\* A memdb is served, which fails only when it is closed; batches write one of the keys.
CONSTANTS
  Clients = {c1, c2}
  Keys = {k1, k2}
  Values = {u, v}
  None = None
  NoClient = NoClient
  HasChecksClosed = FALSE
  MayFail = FALSE
  BatchKeys = {k2}
  MaxLate = 2
SPECIFICATION Spec
SYMMETRY Symmetric
INVARIANTS TypeOK CorruptedIsQuiet AckedStays AnswerIsTrue
