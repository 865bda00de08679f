CONSTANTS
  red = red
  green = green
  main = main
  sensor = sensor
  accel = accel
  Leds = {red, green}
  Clients = {sensor, accel}
  Rank <- MCRank
  Calls <- MCTimingCalls
  QueueLen = 2
  GetTimeout = 2
  Latency = 1
  Modulus = 5
  MaxUptime = 12
SPECIFICATION Spec
INVARIANTS PunctualWhenQuiet
