SPECIFICATION MCSpec
CONSTANTS
  Wanted <- MCWanted
  Dithers <- MCDithers
  Lookups <- MCLookups
  Latencies <- MCLatencies
  Delays <- MCDelays
  MinPeriod <- MCMinPeriod
  MaxIssues = 2
  Submitters <- MCCallers
  Settings <- MCSettings
  Unset = Unset
  Gas = {1, 2}
  Fee = 3
  MaxSubmits = 2
  Key = "alice"
  Edits <- MCEdits
  Registered <- MCRegistered
  Needed = 4
  FirstGas = 2
  Increment = 1
  MaxGas = 5
  Timeout = 2
  MaxSigned = 2
  NumUrls = 2
  Callers <- MCCallers
  Utxos <- MCUtxos
  PollTimeout = 1
  Requests <- MCRequests
CHECK_DEADLOCK FALSE
INVARIANTS
  ReportedIsAccepted
  LoserIsTold
  ReceiptIsOnChain
  DryHashIsTrue
  RelayedIsSigned
  FailsForCause
PROPERTIES
  EveryWalletIssueEnds
