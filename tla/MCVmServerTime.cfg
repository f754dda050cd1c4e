\* One call to get_ancestors after initialize, with nothing sent.
CONSTANTS
  Calls = {c1, c2}
  Capacity = 1
  Top = 2
  Limits <- MCLimits
  BlockLen <- MCBlockLen
  MaxSent = 0
  MaxServers = 0
SPECIFICATION Spec
CHECK_DEADLOCK FALSE
INVARIANT StopsForTimeWhenLate
