\* Two people with a common seat and candidacies, and a third; two committees.
CONSTANTS
  p1 = p1
  p2 = p2
  p3 = p3
  x1 = x1
  x2 = x2
  None = None
  Pages <- MCPages
  Kind <- MCKind
  Stored <- MCStored
  Suspects = {p1, p2, p3}
  Composites = {p2}
  Payloads <- MCPayloads
  Cast <- MCCast
  Knows <- MCKnows
  MaxHops = 8
  MaxEdges = 7
  Rank <- MCRank
SPECIFICATION Spec
INVARIANTS ReadersArrive ReplayChangesNothing
PROPERTIES MergesLoseNothing
