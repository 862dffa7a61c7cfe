SPECIFICATION FairSpec
CONSTANTS
  n1 = n1
  n2 = n2
  e1 = e1
  e2 = e2
  p1 = p1
  p2 = p2
  Nodes = {n1, n2}
  Edges = {e1, e2}
  Starts <- MCStarts
  Target <- MCTarget
  Says = {s1}
  Approvals = {n2}
  Deletions = {n2}
  Workers = {w1, w2}
  SweepBatch = 1
  MaxDisjunctions = 2
  TransitiveTypes = 2
INVARIANTS IInv StaleIsMarked
PROPERTIES QuietSettles
