SPECIFICATION Spec
CONSTANTS
  t1 = t1
  t2 = t2
  t3 = t3
  t4 = t4
  r1 = r1
  r2 = r2
  j1 = j1
  j2 = j2
  d1 = d1
  d2 = d2
  Tasks = {t1}
  NoTask = NoTask
  Drafts = {d1}
  DraftOf <- OneDraft
  Requests = {r1, r2}
  Jobs = {j1}
  Api = {"start", "submit", "adopt", "regenerate", "cancel", "dismiss", "dismiss_active"}
  MaxConcurrent = 1
  MaxQueued = 1
  MaxRegens = 1
  MaxCrashes = 1
  MaxExpiries = 1
PROPERTY CancelledStays
SYMMETRY Symmetric
CHECK_DEADLOCK FALSE
