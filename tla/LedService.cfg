CONSTANTS
  red = red
  green = green
  main = main
  sensor = sensor
  accel = accel
  Leds = {red, green}
  Clients = {main, sensor, accel}
  Rank <- MCRank
  Calls <- MCCalls
  QueueLen = 1
  GetTimeout = 2
  Latency = 1
  Modulus = 100
  MaxUptime = 8
SPECIFICATION FairSpec
INVARIANTS TypeOK QueueDiscipline PunctualWhenQuiet
PROPERTIES MostUrgentReleased ImplementsService
