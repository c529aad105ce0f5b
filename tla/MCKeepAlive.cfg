SPECIFICATION FairSpec
CONSTANTS
  PING_TIME_NORMAL = 5
  PING_TIME_LOW_BATTERY = 10
  PING_TIMEOUT = 20
  Period = 2
  Delay = 3
  MaxLost = 2
INVARIANT TypeOK
INVARIANT PingsBounded
PROPERTY LiveIsKept
PROPERTY SilentIsKicked
