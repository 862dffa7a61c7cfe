SPECIFICATION Spec
CONSTANTS
  n1 = n1
  n2 = n2
  e1 = e1
  e2 = e2
  t1 = t1
  t2 = t2
  t3 = t3
  Nodes = {n1, n2}
  Edges = {e1}
  Source <- MCSource
  Target <- MCTarget
  Texts = {t1, t2}
  FirstText = t1
  Articles = {a1}
  Users = {u1}
  Identities = {i1}
  Enrichments <- MCEnrichments
  Requests = {r1}
  Calls = {"proposeNode", "proposeEdit", "proposeRemoval", "approve", "reject", "publishNode", "hideNode", "createEdge", "correctEdge", "proposeEdge", "enrichEdge", "deleteEdge", "publishEdges", "hideEdges", "citeEdge", "approveTopic"}
  Verdicts = {"keep", "show", "hide"}
  Topics = {n2}
  Tags = {e1}
  Ingested = {n1}
  Live = {n1}
  Chunk = 1
  MaxClock = 4
INVARIANTS ServedRevisionStands
PROPERTIES RemovalSticks VisibilityIsDecided
