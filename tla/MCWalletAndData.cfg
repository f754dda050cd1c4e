CONSTANTS
  Mine = {"me", "me2"}
  Now = 1
  Utxos <- MCUtxos
  MaxUtxos = 3
  Amounts = {0, 1, 2, 4}
  Fees = {0, 1, 3}
  Modulus = 16
  Base = 3
  U16_LEN = 2
  U32_LEN = 4
  U64_LEN = 5
  IdLen = 1
  AddrLen = 1
  V4_LEN = 2
  IP_ADDR_LEN = 4
  Sizes = {6, 40, 80}
  Loads <- MCLoads
  Items <- MCItems
  MaxItems = 2
  Txs <- MCTxs
  Signers <- MCSigners
  MaxSigned = 2
  Numbers = {1, 2}
  MaxSets = 2
  Endpoints <- MCEndpoints
  Serves <- MCServes
  MaxCalls = 2
  BITS_PER_BYTES = 2
  BAG_ID_LEN = 3
  BagIds <- MCIds
  EmptyId <- MCEmptyId
  Counts = {0, 1, 2}
  Thresholds = {0, 1, 2}
  Voters = {1, 2}
  MaxVotes = 4
  Keys = {"k1", "k2"}
  Messages = {"m1", "m2"}
  Networks = {1, 2}
  RetryTimeout = 2
  Starts = {"p1", "p2"}
  MaxStarts = 4
  Texts <- MCTexts
  Bytes = {0, 1}
  MaxTexts = 2
  MaxDamages = 2
SPECIFICATION MCSpec
INVARIANTS
  NoDoubleSpend
  SignedByThreshold
  NoneInVain
  Balanced
  FailsOnlyShort
  UnpackedIsPacked
  SortedAsBytes
  SameIdSameTx
  ReceivedIsSent
  AnsweredIsDone
  BagIsItsCounts
  SignerIsRecovered
  IdentityIsKept
  TextIsRead
CHECK_DEADLOCK FALSE
