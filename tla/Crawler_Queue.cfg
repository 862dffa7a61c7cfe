\* Two processes on one queue, locks that run out, crashes and restarts.
CONSTANTS
  Urls <- MCUrls
  Seeds <- MCSeeds
  Links <- MCLinks
  Bucket <- MCBucket
  HostBuckets = 2
  Processes = {p1, p2}
  Threads = {t1}
  FlushSize = 1
  MaxRetries = 1
  Outcomes = {"ok", "error", "limited"}
  MaxExpiries = 1
SPECIFICATION FairSpec
INVARIANTS OneFetcher RetriesAreBounded DoneIsFollowed EndsEmptyHanded ClaimsFit
PROPERTIES ExhaustedEnds LedgerSpec
