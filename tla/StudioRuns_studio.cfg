SPECIFICATION Spec
CONSTANTS
  t1 = t1
  t2 = t2
  t3 = t3
  r1 = r1
  r2 = r2
  j1 = j1
  j2 = j2
  Tasks = {t1, t2, t3}
  Services = {"composer", "dry_run"}
  Api = {"cancel"}
  Requests = {r1}
  Jobs = {j1, j2}
  MaxConcurrent = 2
  MaxQueued = 1
  MaxExpiries = 1
CHECK_DEADLOCK FALSE
INVARIANT UploadWaits
INVARIANT CompletedHasTemplate
SYMMETRY Symmetric
