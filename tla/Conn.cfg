CONSTANTS
  s1 = s1
  Senders = {s1}
  Limits <- MCLimits
  DEFAULT_SEND_CHAN_LIMIT = 1
  DEFAULT_RECV_CHAN_LIMIT = 2
  BuffFactor = 2
SPECIFICATION FairSpec
INVARIANTS TypeOK OnCloseOnce FlushedWhenWaiting
PROPERTIES QuietForGood LoopsEnd
CHECK_DEADLOCK FALSE
