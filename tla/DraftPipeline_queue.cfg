SPECIFICATION Spec
CONSTANTS
  t1 = t1
  t2 = t2
  t3 = t3
  t4 = t4
  r1 = r1
  r2 = r2
  j1 = j1
  j2 = j2
  d1 = d1
  d2 = d2
  Tasks = {t1, t2, t3}
  NoTask = NoTask
  Drafts = {d1}
  DraftOf <- OneDraft
  Requests = {r1}
  Jobs = {j1}
  Api = {"start", "start_skip", "submit", "adopt", "cancel"}
  MaxConcurrent = 1
  MaxQueued = 2
  MaxRegens = 0
  MaxCrashes = 0
  MaxExpiries = 0
INVARIANT RowPerRequest
INVARIANT ParkedOnce
INVARIANT CompletedHasDocument
INVARIANT QueuedIsFindable
INVARIANT OvershootIsBounded
PROPERTY WaitsInLine
SYMMETRY Symmetric
CHECK_DEADLOCK FALSE
