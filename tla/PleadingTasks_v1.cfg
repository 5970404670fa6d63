SPECIFICATION Spec
CONSTANTS
  t1 = t1  t2 = t2  r1 = r1  r2 = r2  w1 = w1  w2 = w2
  Tasks = {t1}
  Requests = {r1}
  Workers = {w1, w2}
  MaxQueue = 2
  MaxFaults = 1
INVARIANTS TypeOK
PROPERTIES NeverStuck NeverRelisted FinishedIsFinal
