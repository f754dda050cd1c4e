\* The batch of the rpcdb client.
CONSTANTS
  Kinds = {"rpcdb"}
  Keys = {k1, k2}
  Values = {u, v}
  None = None
  Deleted = Deleted
  MaxQueue = 3
  MaxSize = 7
SPECIFICATION Spec
PROPERTY WriteIsReplay
