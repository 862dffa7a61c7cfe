\* Batches of three pages, over midnight.
CONSTANTS
  Urls <- MCUrls
  Host <- MCHost
  Workers <- MCWorkers
  MaxBatch = 3
  MaxUid = 3
  MaxDay = 2
SPECIFICATION FairSpec
INVARIANT DoneIsArchived
PROPERTY DoneGetsArchived
