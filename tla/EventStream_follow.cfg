SPECIFICATION Spec
CONSTANTS
  w1 = w1
  r1 = r1
  MaxTasks = 1
  Workers = {w1}
  Requests = {r1}
  StreamMax = 1
  MaxClock = 3
  MaxDrops = 1
INVARIANTS TypeOK CaughtUp
PROPERTIES NeverOlder RemovedStaysAway Converges
CHECK_DEADLOCK FALSE
