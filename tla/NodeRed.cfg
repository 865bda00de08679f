CONSTANTS
  QueueLen = 1
  GetTimeout = 2
  Latency = 1
  Modulus = 100
  MaxUptime = 4
  PollPeriod = 1
  TicksPerSec = 1
  MinGap = 1
  MaxBlock = 2
  AccelPeriod = 2
  GreenRate = 1
  RedRate = 1
  HalfSecond = 1
  Active = {"pir", "driveway"}
  Pulses = FALSE
SPECIFICATION Spec
INVARIANTS PirLedUpToDate
