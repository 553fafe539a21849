SPECIFICATION FairSpec
CONSTANTS
  d1 = d1
  d2 = d2
  Dialers = {d1, d2}
  Restless <- MCRestless
INVARIANTS ClientQuiet ServerQuiet
PROPERTIES ClientCloseReturns ServerCloseReturns DialerSettles GoneIsDropped
CHECK_DEADLOCK FALSE
