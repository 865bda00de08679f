CONSTANTS
  InitialLast = 2
  AlarmLevel = 1
  FirstPoll = 0
  PollPeriod = 1
  TicksPerSec = 2
  MinGap = 1
  Latency = 1
  MaxBlock = 2
  MaxUptime = 14
SPECIFICATION Spec
PROPERTIES SentWhenNoneForAWhile
