SPECIFICATION FairSpec
CONSTANTS
  t1 = t1
  t2 = t2
  t3 = t3
  t4 = t4
  r1 = r1
  r2 = r2
  j1 = j1
  j2 = j2
  d1 = d1
  d2 = d2
  Tasks = {t1, t2}
  NoTask = NoTask
  Drafts = {d1}
  DraftOf <- OneDraft
  Requests = {r1}
  Jobs = {j1}
  Api = {"start_skip", "submit", "adopt", "cancel"}
  MaxConcurrent = 1
  MaxQueued = 1
  MaxRegens = 0
  MaxCrashes = 0
  MaxExpiries = 0
CHECK_DEADLOCK FALSE
PROPERTY WorkEnds
PROPERTY CancelStopsWork
