SPECIFICATION Spec
CONSTANTS
  n1 = n1
  n2 = n2
  e1 = e1
  e2 = e2
  t1 = t1
  t2 = t2
  t3 = t3
  Nodes = {n1, n2}
  Edges = {e1, e2}
  Source <- MCSource
  Target <- MCTarget
  Texts = {t1, t2}
  FirstText = t1
  Articles = {}
  Users = {u1}
  Identities = {i1}
  Enrichments <- MCEnrichments
  Requests = {r1}
  Calls = {"proposeNode", "proposeEdit", "approve", "reject", "publishNode", "hideNode", "createEdge", "correctEdge", "deleteEdge", "publishEdges", "hideEdges"}
  Verdicts = {"keep", "show"}
  Topics = {n2}
  Tags = {e1}
  Ingested = {n1, n2, e1, e2}
  Live = {n1, n2, e1}
  Chunk = 1
  MaxClock = 4
INVARIANTS RelationsHavePublicEnds
PROPERTIES RejectionIsKept
