CONSTANTS
  s1 = s1
  Senders = {s1}
  Limits <- MCLimits
  DEFAULT_SEND_CHAN_LIMIT = 1
  DEFAULT_RECV_CHAN_LIMIT = 2
  BuffFactor = 2
SPECIFICATION Spec
INVARIANT NoPanic
CHECK_DEADLOCK FALSE
