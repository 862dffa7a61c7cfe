\* A relation is split off a page; the payload it came from is sent again.
CONSTANTS
  p1 = p1
  p2 = p2
  p3 = p3
  x1 = x1
  x2 = x2
  None = None
  Pages <- MCPages
  Kind <- MCKind
  Stored <- MCStored
  Suspects = {p1, p2, p3}
  Composites = {p2}
  Payloads <- MCPayloads
  Cast <- MCCast
  Knows <- MCKnows
  MaxHops = 8
  MaxEdges = 6
  Rank <- MCRank
SPECIFICATION Spec
PROPERTY NewIsNew
