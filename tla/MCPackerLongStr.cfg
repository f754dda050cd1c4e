CONSTANTS
  Base = 3
  U16_LEN = 2
  U32_LEN = 4
  U64_LEN = 5
  IdLen = 1
  AddrLen = 1
  V4_LEN = 2
  IP_ADDR_LEN = 4
  Sizes = {6, 40, 80}
  Loads <- MCLoads
  Items <- WithLongStr
  MaxItems = 2
SPECIFICATION Spec
INVARIANTS UnpackedIsPacked
CHECK_DEADLOCK FALSE
