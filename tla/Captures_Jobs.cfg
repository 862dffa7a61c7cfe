\* Two requests and two calls at a time, two pages, two calls to a task, three faults.
CONSTANTS
  r1 = r1
  r2 = r2
  a1 = a1
  a2 = a2
  Captures <- MCCaptures
  Bytes <- MCBytes
  Url <- MCUrl
  Readers = {r1, r2}
  Attempts = {a1, a2}
  MaxAttempts = 2
  MaxPages = 2
  MaxFaults = 3
SPECIFICATION Spec
SYMMETRY Interchangeable
INVARIANTS NobodyWaitsForNothing RepeatsHaveCause ArchivesFitPages
CHECK_DEADLOCK FALSE
