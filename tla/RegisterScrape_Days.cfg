\* One write to the entry and one failure in seven days, a weekend day among them;
\* the historic connections, which nothing compares, are left out.
CONSTANTS
  Boards = {b1, b2}
  Home = "P"
  Paid = {"A"}
  NamedElsewhere = TRUE
  Weekend = {3}
  SkipWorkDays = 1
  Backoff <- MCBackoff
  LastDay = 7
  MaxWritten = 1
  MaxFaults = 1
SPECIFICATION Spec
SYMMETRY AnyBoard
INVARIANTS RepurchaseHasEvidence PurchasesBackOff WrongIsNoticed
PROPERTY ChangesAreRead
CHECK_DEADLOCK FALSE
