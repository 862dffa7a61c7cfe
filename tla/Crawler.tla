------------------------------- MODULE Crawler -------------------------------
(***************************************************************************)
(* The article crawler (data/pipelines/src/scrapers/article): processes that *)
(* share a queue of URLs in Postgres.  In each, a coordinator claims URLs,   *)
(* hands them to worker threads through one bounded queue, takes their       *)
(* results from another and writes them back in batches.  A claim locks a    *)
(* URL until the result is written or the lock times out.                    *)
(***************************************************************************)
EXTENDS Integers, FiniteSets

CONSTANTS
  Urls,          \* URLs there are
  Seeds,         \* those the queue starts with
  Links,         \* those a page links to, a function on Urls; none is blocked
  Bucket,        \* `host_bucket` of a URL, a function on Urls
  HostBuckets,   \* _HOST_BUCKETS
  Processes,     \* crawlers running on the queue
  Threads,       \* worker threads of each
  FlushSize,     \* --queue-flush-size
  MaxRetries,    \* --per-url-max-retries
  Outcomes,      \* what can come of a fetch in this instance
  MaxExpiries    \* bound: how often a URL's lock times out

ASSUME UrlsAssumption ==
  /\ IsFiniteSet(Urls) /\ Seeds \subseteq Urls
  /\ Links \in [Urls -> SUBSET Urls]
  /\ HostBuckets \in Nat \ {0} /\ Bucket \in [Urls -> 1..HostBuckets]
ASSUME ThreadsAssumption == IsFiniteSet(Threads) /\ Threads # {}
ASSUME SizesAssumption ==
  FlushSize \in Nat \ {0} /\ MaxRetries \in Nat \ {0} /\ MaxExpiries \in Nat
ASSUME OutcomesAssumption == Outcomes \subseteq {"ok", "error", "limited"}

VARIABLES
  known,     \* URLs that have a row in `website_index`
  done,      \* rows with `done`
  retries,   \* `num_retries`
  lock,      \* "free", "held", or "stale": held longer than the timeout
  claims,    \* how often each URL was claimed, to tell claims apart
  expiries,  \* how often a lock on it timed out
  pc,        \* where the coordinator of each process is
  exhausted, \* `db_exhausted`
  out,       \* `total_sent` less `total_received`
  putting,   \* claimed and not yet put into work_q
  work_q,    \* waiting for a thread
  fetching,  \* what each thread is fetching: a set of at most one
  done_q,    \* results waiting for the coordinator
  pending,   \* results waiting to be written back
  orphaned   \* pages whose process died before it added what they link to

table == <<known, done, retries, lock, claims, expiries>>
vars == <<known, done, retries, lock, claims, expiries, pc, exhausted, out,
          putting, work_q, fetching, done_q, pending, orphaned>>

Entry == [url: Urls, nth: Nat]
Result == [entry: Entry, outcome: Outcomes]

Init ==
  /\ known = Seeds /\ done = {} /\ orphaned = {}
  /\ retries = [u \in Urls |-> 0]
  /\ lock = [u \in Urls |-> "free"]
  /\ claims = [u \in Urls |-> 0]
  /\ expiries = [u \in Urls |-> 0]
  /\ pc = [p \in Processes |-> "loop"]
  /\ exhausted = [p \in Processes |-> FALSE]
  /\ out = [p \in Processes |-> 0]
  /\ putting = [p \in Processes |-> {}]
  /\ work_q = [p \in Processes |-> {}]
  /\ fetching = [p \in Processes |-> [t \in Threads |-> {}]]
  /\ done_q = [p \in Processes |-> {}]
  /\ pending = [p \in Processes |-> {}]

(***************************************************************************)
(* The queue in Postgres.  Each operation is one transaction.                *)
(***************************************************************************)
IgnoresLocks(u) ==  \* mutant: the lock is not looked at
  u \in known \ done /\ retries[u] < MaxRetries
OneRetryMore(u) ==  \* mutant: <= for <
  u \in known \ done /\ retries[u] <= MaxRetries /\ lock[u] # "held"
IgnoresDone(u) ==  \* mutant: a late claim of what is done
  u \in known /\ retries[u] < MaxRetries /\ lock[u] # "held"
Claimable(u) ==
  /\ u \in known \ done
  /\ retries[u] < MaxRetries
  /\ lock[u] # "held"

\* Rounded up: at least one from each bucket.
PerBucket == (FlushSize + HostBuckets - 1) \div HostBuckets

\* As many as each bucket has, up to PerBucket; which, priorities decide.
ClaimBatches ==
  {batch \in SUBSET {u \in Urls : Claimable(u)} :
     \A b \in 1..HostBuckets :
       LET there == {u \in Urls : Claimable(u) /\ Bucket[u] = b}
           taken == batch \cap there
       IN  /\ Cardinality(taken) <= PerBucket
           /\ Cardinality(taken) < PerBucket => taken = there}

\* A lock that has been held for the timeout no longer keeps anybody out.
Expire(u) ==
  /\ lock[u] = "held" /\ expiries[u] < MaxExpiries
  /\ lock' = [lock EXCEPT ![u] = "stale"]
  /\ expiries' = [expiries EXCEPT ![u] = @ + 1]
  /\ UNCHANGED <<known, done, retries, claims, pc, exhausted, out, putting,
                 work_q, fetching, done_q, pending, orphaned>>

(***************************************************************************)
(* _coordinator.                                                             *)
(***************************************************************************)
Goes(p, from, to) == pc[p] = from /\ pc' = [pc EXCEPT ![p] = to]

RefillWatermark == IF FlushSize \div 2 > 1 THEN FlushSize \div 2 ELSE 1
EagerRefill(p) == ~exhausted[p]  \* mutant: no watermark
NeedsRefill(p) ==
  ~exhausted[p] /\ Cardinality(work_q[p]) < RefillWatermark

\* Work runs low: claim a batch.  An empty one ends the claiming for good.
Refill(p) ==
  /\ NeedsRefill(p)
  /\ \E batch \in ClaimBatches :
       /\ Goes(p, "loop", IF batch = {} THEN "drain" ELSE "put")
       /\ exhausted' = [exhausted EXCEPT ![p] = batch = {}]
       /\ lock' = [u \in Urls |-> IF u \in batch THEN "held" ELSE lock[u]]
       /\ claims' = [u \in Urls |->
                       IF u \in batch THEN claims[u] + 1 ELSE claims[u]]
       /\ putting' = [putting EXCEPT ![p] =
                        {[url |-> u, nth |-> claims[u]] : u \in batch}]
       /\ out' = [out EXCEPT ![p] = @ + Cardinality(batch)]
  /\ UNCHANGED <<known, done, retries, expiries, work_q, fetching, done_q,
                 pending, orphaned>>

SkipRefill(p) ==
  /\ ~NeedsRefill(p)
  /\ Goes(p, "loop", "drain")
  /\ UNCHANGED <<table, exhausted, out, putting, work_q, fetching, done_q,
                 pending, orphaned>>

\* The queue of work is bounded, and putting waits for room.
WorkRoom(p) == Cardinality(work_q[p]) < 2 * FlushSize

Put(p) ==
  /\ pc[p] = "put" /\ WorkRoom(p)
  /\ \E entry \in putting[p] :
       /\ putting' = [putting EXCEPT ![p] = @ \ {entry}]
       /\ work_q' = [work_q EXCEPT ![p] = @ \cup {entry}]
       /\ pc' = [pc EXCEPT ![p] =
                   IF putting[p] = {entry} THEN "drain" ELSE "put"]
  /\ UNCHANGED <<table, exhausted, out, fetching, done_q, pending, orphaned>>

\* All that was sent has come back and nothing more will be claimed.
EndsEarly(p, received) == exhausted[p]  \* mutant: answers are not awaited
AllReceived(p, received) ==
  exhausted[p] /\ out[p] = Cardinality(received)

\* Results are taken from the threads and written back once there are enough,
\* once they have waited long enough, or at the end.
Drain(p) ==
  LET received == done_q[p]
      holds == pending[p] \cup received
  IN
  /\ pending' = [pending EXCEPT ![p] = holds]
  /\ done_q' = [done_q EXCEPT ![p] = {}]
  /\ out' = [out EXCEPT ![p] = @ - Cardinality(received)]
  /\ \/ holds # {} /\ Goes(p, "drain", "markDone")
     \/ /\ Cardinality(holds) < FlushSize /\ ~AllReceived(p, received)
        /\ Goes(p, "drain", "loop")
     \/ /\ holds = {} /\ AllReceived(p, received)
        /\ Goes(p, "drain", "ended")
  /\ UNCHANGED <<table, exhausted, putting, work_q, fetching, orphaned>>

(***************************************************************************)
(* _flush_batch: three transactions.  A URL that hit the rate limit is       *)
(* `released`, which leaves its lock to time out.                            *)
(***************************************************************************)
UrlsThat(p, outcome) ==
  {r.entry.url : r \in {x \in pending[p] : x.outcome = outcome}}
Errors(p, u) ==
  Cardinality({r \in pending[p] : r.entry.url = u /\ r.outcome = "error"})
Unlocked(us) == [u \in Urls |-> IF u \in us THEN "free" ELSE lock[u]]

MarkDone(p) ==
  /\ Goes(p, "markDone", "markError")
  /\ done' = done \cup UrlsThat(p, "ok")
  /\ lock' = Unlocked(UrlsThat(p, "ok"))
  /\ UNCHANGED <<known, retries, claims, expiries, exhausted, out, putting,
                 work_q, fetching, done_q, pending, orphaned>>

MarkError(p) ==
  /\ Goes(p, "markError", "putLinks")
  /\ retries' = [u \in Urls |-> retries[u] + Errors(p, u)]
  /\ lock' = Unlocked(UrlsThat(p, "error"))
  /\ UNCHANGED <<known, done, claims, expiries, exhausted, out, putting,
                 work_q, fetching, done_q, pending, orphaned>>

\* What was discovered is added, and what is there already stays as it is.
LinksOfNew(us) ==  \* mutant: pages that were known before are not followed
  UNION {Links[u] : u \in us \ Seeds}
Discovered(us) == UNION {Links[u] : u \in us}

PutLinks(p) ==
  /\ Goes(p, "putLinks", "loop")
  /\ known' = known \cup Discovered(UrlsThat(p, "ok"))
  /\ pending' = [pending EXCEPT ![p] = {}]
  /\ UNCHANGED <<done, retries, lock, claims, expiries, exhausted, out,
                 putting, work_q, fetching, done_q, orphaned>>

Coordinate(p) ==
  \/ Refill(p) \/ SkipRefill(p) \/ Put(p) \/ Drain(p)
  \/ MarkDone(p) \/ MarkError(p) \/ PutLinks(p)

(***************************************************************************)
(* _http_worker.                                                             *)
(***************************************************************************)
Take(p, t) ==
  /\ fetching[p][t] = {}
  /\ \E entry \in work_q[p] :
       /\ work_q' = [work_q EXCEPT ![p] = @ \ {entry}]
       /\ fetching' = [fetching EXCEPT ![p][t] = {entry}]
  /\ UNCHANGED <<table, pc, exhausted, out, putting, done_q, pending, orphaned>>

\* The queue of results is bounded too, and reporting waits for room.
ResultRoom(p) == Cardinality(done_q[p]) < 2 * Cardinality(Threads)

OnlyFetched(result) ==  \* mutant: nothing is put for a URL that was not tried
  IF result.outcome = "limited" THEN {} ELSE {result}
Reported(result) == {result}

Report(p, t) ==
  /\ ResultRoom(p)
  /\ \E entry \in fetching[p][t], outcome \in Outcomes :
       done_q' = [done_q EXCEPT ![p] =
                    @ \cup Reported([entry |-> entry, outcome |-> outcome])]
  /\ fetching' = [fetching EXCEPT ![p][t] = {}]
  /\ UNCHANGED <<table, pc, exhausted, out, putting, work_q, pending, orphaned>>

(***************************************************************************)
(* A process dies, or gives up on a transaction, with all it holds in        *)
(* memory; somebody may start it again.                                      *)
(***************************************************************************)
Alive(p) == pc[p] \notin {"ended", "crashed"}

Crash(p) ==
  /\ Alive(p)
  /\ pc' = [pc EXCEPT ![p] = "crashed"]
  /\ exhausted' = [exhausted EXCEPT ![p] = FALSE]
  /\ out' = [out EXCEPT ![p] = 0]
  /\ putting' = [putting EXCEPT ![p] = {}]
  /\ work_q' = [work_q EXCEPT ![p] = {}]
  /\ fetching' = [fetching EXCEPT ![p] = [t \in Threads |-> {}]]
  /\ done_q' = [done_q EXCEPT ![p] = {}]
  /\ pending' = [pending EXCEPT ![p] = {}]
  /\ orphaned' = IF pc[p] \in {"markError", "putLinks"}
                 THEN orphaned \cup UrlsThat(p, "ok") ELSE orphaned
  /\ UNCHANGED table

Start(p) ==
  /\ ~Alive(p)
  /\ pc' = [pc EXCEPT ![p] = "loop"]
  /\ exhausted' = [exhausted EXCEPT ![p] = FALSE]
  /\ UNCHANGED <<table, out, putting, work_q, fetching, done_q, pending,
                 orphaned>>

Next ==
  \/ \E u \in Urls : Expire(u)
  \/ \E p \in Processes : Coordinate(p) \/ Crash(p) \/ Start(p)
  \/ \E p \in Processes, t \in Threads : Take(p, t) \/ Report(p, t)

Spec == Init /\ [][Next]_vars

\* Every thread of a live process is scheduled and every request ends.
Fairness ==
  \A p \in Processes :
    /\ WF_vars(Coordinate(p))
    /\ \A t \in Threads : WF_vars(Take(p, t)) /\ WF_vars(Report(p, t))
FairSpec == Spec /\ Fairness

-----------------------------------------------------------------------------
\* What a process holds and has not yet answered for in the queue.
Unanswered(p) ==
  putting[p] \cup work_q[p] \cup (UNION {fetching[p][t] : t \in Threads})
    \cup {r.entry : r \in done_q[p]}
    \cup {r.entry : r \in {x \in pending[p] :
            \/ pc[p] \notin {"markError", "putLinks"}
            \/ pc[p] = "markError" /\ x.outcome # "ok"}}

\* The claims that somebody still works on, and those on one URL.
Held == UNION {Unanswered(p) : p \in Processes}
Holders(u) == {e \in Held : e.url = u}

(***************************************************************************)
(* The crawler is a ledger of URLs: whatever is locked, taken over, crashed  *)
(* or answered late, a claim is answered once at most, by the process that   *)
(* has it, and only URLs that are neither done nor given up are claimed.     *)
(***************************************************************************)
Ledger == INSTANCE UrlLedger WITH held <- Held
LedgerSpec == Ledger!Spec

(***************************************************************************)
(* Every variable has its type.  Covers all actions.                         *)
(***************************************************************************)
TypeOK ==
  /\ known \subseteq Urls /\ done \subseteq Urls /\ orphaned \subseteq Urls
  /\ retries \in [Urls -> Nat] /\ claims \in [Urls -> Nat]
  /\ expiries \in [Urls -> 0..MaxExpiries]
  /\ lock \in [Urls -> {"free", "held", "stale"}]
  /\ pc \in [Processes -> {"loop", "put", "drain", "markDone", "markError",
                           "putLinks", "ended", "crashed"}]
  /\ exhausted \in [Processes -> BOOLEAN]
  /\ out \in [Processes -> Nat]
  /\ putting \in [Processes -> SUBSET Entry]
  /\ work_q \in [Processes -> SUBSET Entry]
  /\ fetching \in [Processes -> [Threads -> SUBSET Entry]]
  /\ done_q \in [Processes -> SUBSET Result]
  /\ pending \in [Processes -> SUBSET Result]

(***************************************************************************)
(* A URL is worked on once, and once more for each time its lock ran out,    *)
(* whoever crashes, answers late or frees a lock that is no longer its own   *)
(* (mark_done_batch and mark_error_batch do not ask whose lock it is).       *)
(***************************************************************************)
OneFetcher ==
  \A u \in Urls :
    Cardinality(Holders(u)) <=
      expiries[u] + (IF lock[u] = "held" THEN 1 ELSE 0)

(***************************************************************************)
(* A URL that keeps failing is given up after MaxRetries errors; only a      *)
(* claim that outlived its lock can add one more (get_batch's condition is   *)
(* checked long before mark_error_batch counts).                             *)
(***************************************************************************)
RetriesAreBounded ==
  \A u \in Urls :
    retries[u] + Cardinality(Holders(u)) <= MaxRetries + expiries[u]

(***************************************************************************)
(* What a crawled page links to is in the queue, or its process is about to  *)
(* put it there, or died before it could: _flush_batch marks pages done in   *)
(* one transaction and adds their links in a later one.                      *)
(***************************************************************************)
Following(p) ==
  IF pc[p] \in {"markError", "putLinks"} THEN UrlsThat(p, "ok") ELSE {}
DoneIsFollowed ==
  \A u \in done :
    \/ Links[u] \subseteq known
    \/ u \in orphaned
    \/ \E p \in Processes : u \in Following(p)

(***************************************************************************)
(* A coordinator that ends has answered for all it claimed: the counts of    *)
(* sent and received URLs agree only when the threads hold nothing.          *)
(***************************************************************************)
EndsEmptyHanded ==
  \A p \in Processes : pc[p] = "ended" => Unanswered(p) = {}

(***************************************************************************)
(* Whatever is claimed fits into the queue of work at once, so the           *)
(* coordinator never waits there, away from the results only it drains       *)
(* ("bounded so the coordinator never over-fetches from DB").                *)
(***************************************************************************)
ClaimsFit ==
  \A p \in Processes :
    Cardinality(putting[p]) + Cardinality(work_q[p]) <= 2 * FlushSize

\* Sizes with which that holds: an eager claim on top of what may be waiting.
SizesFit ==
  RefillWatermark - 1 + PerBucket * HostBuckets <= 2 * FlushSize

(***************************************************************************)
(* The queues keep the threads busy: a coordinator with URLs to put and      *)
(* threads with results to report never all wait for each other.             *)
(***************************************************************************)
NoEmbrace ==
  \A p \in Processes :
    pc[p] = "put" =>
      \/ WorkRoom(p)
      \/ ResultRoom(p)
      \/ \E t \in Threads : fetching[p][t] = {}

(***************************************************************************)
(* A coordinator that found nothing to claim ends, whatever came of its      *)
(* fetches, unless it crashes first.                                         *)
(***************************************************************************)
ExhaustedEnds ==
  \A p \in Processes : exhausted[p] ~> pc[p] \in {"ended", "crashed"}
=============================================================================
