\* The served database may fail.
CONSTANTS
  Clients = {c1}
  Keys = {k1}
  Values = {u, v}
  None = None
  NoClient = NoClient
  HasChecksClosed = FALSE
  MayFail = TRUE
  BatchKeys = {}
  MaxLate = 0
SPECIFICATION Spec
SYMMETRY Symmetric
PROPERTY FailureIsSeen
