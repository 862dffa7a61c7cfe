\* Three requests through a pool of two, flushed two rows at a time.
CONSTANTS
  Articles <- MCArticles
  Parts <- MCParts
  Capacity = 2
  FlushEvery = 2
  ErrorsStand = FALSE
  MaxVersion = 2
SPECIFICATION FairSpec
INVARIANTS PutNeverWaits NothingDropped
PROPERTIES AnswersOutliveRuns EveryRunEnds
