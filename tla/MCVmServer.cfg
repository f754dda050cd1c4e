\* Three calls at once, after initialize; a channel for one message.
CONSTANTS
  Calls = {c1, c2, c3}
  Capacity = 1
  Top = 2
  Limits <- MCLimits
  BlockLen <- MCBlockLen
  MaxSent = 2
  MaxServers = 1
SPECIFICATION FairSpec
\* The process ends, and the node may have no more calls.
CHECK_DEADLOCK FALSE
INVARIANTS TypeOK EngineHearsInOrder AncestorsAreAChain
PROPERTY CallsAreAnswered
