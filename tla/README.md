# Formal models of koryta.pl

TLA+ modules that model koryta.pl - a crowd-sourced graph of people, places and
the ties between them - the TLC configurations that check them on small
instances, and theorems checked by TLAPS. Paths below are relative to the
repository's source tree. `PROJECT.json` lists the components, the runs, the
definition-to-source map, the findings, the hazards and the theorems.

## 1. The system

| Part | Where | State it keeps | Operations |
|---|---|---|---|
| Moderation API | `frontend/server/api/{revisions,nodes,edges,topics}`, `frontend/server/utils/{revisions,edgePublication}.ts` | Firestore `nodes`, `edges` (materialised copies, with `published`, `deleted`, `revision_id`), `revisions` (what was proposed, and its verdict) | propose, approve, reject, publish, hide, create / correct / delete / cite a relation, approve a topic |
| Edge counters | `frontend/functions/src/edges.ts` | `nodes.stats.edges`, `edgeStatsDirty` markers | trigger per edge write, sweep every minute |
| Other derived fields | `frontend/functions/src/{nodes,votes,notes,revisions}.ts` | `stats.isApproved`, `stats.votes`, `stats.notesCount`, `nodes.revisions` | a trigger per write that re-queries and stores |
| Merge and split | `frontend/server/api/nodes/{merge,split}.post.ts`, `server/utils/merge.ts` | `merged_into`, the ends of relations, votes | merge, split, resolve |
| Ingest API | `frontend/server/api/ingest/*`, `server/utils/edges.ts` | nodes, edges, revisions | person, company, article |
| Captured pages | `frontend/server/api/ingest/{page,extraction}.post.ts`, `server/utils/extractor.ts`, `data/pipelines/src/service` | `articlePages`, archives in the bucket, a Cloud Tasks queue, `url_store`, `extractions` | store a page, hand it to the extractor, extract, register, submit |
| Read side | `frontend/server/api/**`, the response cache | cached responses | lists, graph, statistics |
| Crawler | `data/pipelines/src/scrapers/article/{crawler,postgres_queue}.py` | Postgres `website_index`: done, retries, lock | claim, fetch, mark, release, put |
| Page archives | `data/pipelines/src/stores/storage.py` (`BatchClient`) | an open batch and a lock per host and day | add a page, flush when full, idle or at the end |
| Pipelines | `data/pipelines/src/{koryta,conductor}.py`, `scrapers/stores`, `scrapers/article/pipelines/incremental.py` | one output file per pipeline, its modification time, a shared cache | decide what is stale, read, restore, process, upload |
| Article answers | `scrapers/article/pipelines/{facts,verified_facts}_pipeline.py`, `stores/{llm,duckdb}.py` | output rows, a `.tmp`, a pool of requests | read what is known, ask for the rest, flush, promote |
| Register scraper | `data/pipelines/src/scraper.py`, `scrapers/krs` | bulletins and answers by day | free phase, paid phase |
| Compressor | `data/compressor` | tar archives in a bucket | daily and incremental dumps |
| Extension | `extension/` | token, capture jobs | refresh, capture |
| Analyses, uploader, UI, rules, migrations | `data/pipelines/src/{analysis,uploader.py}`, `frontend/app`, `firestore.rules`, `frontend/scripts` | - | not protocols; not modelled |

How they interact. The pipelines send what they find to the ingest API, readers
and admins use the moderation API; both write the same Firestore documents.
Every write of a document raises an event; the functions react to events and
write derived fields into the same documents, and the moderation API overwrites
those documents whole. The server runs in several containers, and a handler
awaits the database several times, so handlers interleave. Only voting uses a
Firestore transaction: everywhere else a handler reads, decides, and commits one
write batch, which is atomic but carries no precondition on what was read.

What is hard here, and what makes each part correct:

* *stale snapshots*: the batch is built from documents read earlier. Pages must
  still be copies of the revision they point at, pointers must be to one's own
  revisions, what is said must be on record, history must not change;
* *rules between documents*: a public relation has public ends; the revision a
  page serves is approved; a rejection stays on record; a removal sticks;
* *several commits in one request*: hiding a page can fail half-way;
* *events*: late, repeated, reordered, lost; counters that are stale must at
  least be known to be stale, and become current in the end;
* *queues and locks* (crawler): a lock that runs out lets a second claim in, and
  the first answer frees the second's lock; two bounded queues between a
  coordinator and its threads; a crash between two transactions. Claims and
  retries must stay bounded, no page's links may vanish unnoticed, and the
  process must end when the work does;
* *identity* (merge and ingest): what a payload says of a page is matched with
  relations that merges and splits have since moved, folded or enriched; nothing
  said may be lost, nothing may be filed twice, and addresses must keep resolving;
* *files that are their own record* (pipelines): what is stale is read off
  modification times, which runs that fail, are interrupted, die in mid-write or
  restore an older copy all touch;
* *answers that cost hours or money* (language model, rejestr.io): they must
  survive the run that asked for them and not be asked for twice, and wrong or
  old ones must still be noticed;
* *work promised before it is done* (archives, captures): a page is marked done
  with the path of an archive that is uploaded later; a capture is answered
  before its task ran. What is promised must arrive, or say that it did not;
* *one coroutine on both ends of a bounded pool*: it must never wait to put.

## 2. Modules

| Module | Models | EXTENDS |
|---|---|---|
| `Documents` | documents, revisions, ids, write batches and the pure helpers of `revisions.ts` and `edgePublication.ts` | - |
| `Moderation` | the handlers as read and commit steps of interleaving requests; the properties | `Documents` |
| `PageHistory` | what the site promises of the past of a document, without requests; `Moderation` implements it | - |
| `MCModeration` | values for TLC | `Moderation` |
| `ModerationProofs` | the inductive invariants and theorems about `Moderation`, also that it implements `PageHistory` | `Moderation`, `TLAPS`, library theorems |
| `EdgeStats` | the counter protocol of `functions/src/edges.ts`, and the approval that overwrites a page around it | - |
| `MCEdgeStats`, `EdgeStatsProofs` | as above | `EdgeStats` |
| `Crawler` | the coordinator, its threads and queues, and the queue in Postgres that several crawlers share | - |
| `UrlLedger` | what the queue of URLs promises the crawl, without processes; `Crawler` implements it | - |
| `MCCrawler`, `CrawlerProofs` | as above; the proofs also that `Crawler` implements `UrlLedger` | `Crawler` |
| `Archive` | the batches of pages a crawler process keeps, its threads, flusher and end | - |
| `Captures` | a page somebody reads, from the site through Cloud Tasks and the extractor to its facts | - |
| `Pipelines` | runs of `koryta`: what is stale, refreshing, the shared cache | - |
| `ArticleAnswers` | runs that ask a language model about each article | - |
| `RegisterScrape` | what is asked of the register and bought of rejestr.io, day after day | - |
| `Duplicates` | merging and splitting pages, and ingesting what was found about them | - |
| `MC*`, `ArchiveProofs`, `CapturesProofs`, `PipelinesProofs`, `ArticleAnswersProofs`, `RegisterScrapeProofs` | as above | the module they are named after |

The modules are not composed beyond this: `Crawler` and `Archive` meet in one
step (`Report` hands over a path that `Add` made, `MarkDone` is `Save`), and
the two sides of it hold for any behaviour of the other; `Captures` ends where
ingest begins; merging assumes what `Moderation` keeps of pages and pointers, and
touches neither.

### Documents and Moderation

State: `docs` (every node and edge: exists, text, cited sources, removed,
published, pointer), `revs` (revisions by id), `req` (a slot per request in
flight), `clock` (revisions written so far; their `update_time`, and the source
of fresh ids).

A handler is an action that reads everything and puts a *batch* in its slot,
and `Commit`, which applies the batch to whatever the store has become. What a
handler reads before its first write is one step: between those reads another
commit could fall, a finer interleaving that is left out. Requests with several
commits have the extra steps in between: `HideNode`, `CascadeUnpublishEdges` per
chunk, `HideNodeAtLast`; `ApproveTopic`, `CommitTopic`, `TagArticles`. `Fail`
ends a request anywhere, keeping what it committed. `ProposeNode` commits at
once, as it depends on nothing that was read.

A batch is a record of functions: `set` (documents overwritten whole), `show`
(`published` updated), `point` (`revision_id` updated), `file` (revisions set
whole), `judge` (status updated). The pure helpers carry the source's names:
`RevisionTargetData`, `CreateRevisionTransaction`, `ProposeRevisionTransaction`,
`ApplyRevision`, `Publishable` (`resolveEdgeEndpoints`),
`PublishCandidateRevision`, `PublishEdgesInBatch`. Revision ids keep what
matters of them: fresh ones are numbered, the derived ones (`proposalId`) are
records of what they are derived from, as the digest would be without
collisions. `ProposalId` and `AskedId` are derived from the content of the
proposal; `KeyedProposalId` from a key, which only the ingest gives: what a row
says whatever its spelling, so that two offers in different words share one id
and the later is written over the earlier. A revision carries a ghost, `stated`:
all it has stated since it was first filed. Only a keyed one has stated more than
what it states.

`EnrichEdge` is that part of `POST /api/ingest/person`: one row that tells more
than a stored relation, filled in at once where the pipeline is vouched for and
offered under its key otherwise. What the rows of one payload do to each other is
`Duplicates`. `Enrichments` says which stored text a row fills in, to what.

Nobody asks whether the page a proposal is about exists (`create.post.ts:40`,
`revisions.ts:130`): `ProposeForNode` files a revision of a missing page too, made
of what was sent alone (`FirstText` stands for fields that are not there), and
approving it creates the page (`revisions.ts:447`). The id of a page that
`ProposeNode` adds is one nobody has used, in a revision or a request either
(`Unused`), as Firestore allocates it.

`PageHistory` is what all this is for, without requests, batches and handlers: what
is on record (`filed`) and what each document is. `Files` adds to the record and
changes nothing in it but `Offers`, the keyed revisions, which may be restated and
keep what they have `stated`; a document `Begins` as a draft nobody sees
(`createRevisionTransaction` with a new document); a page `Serves` a revision
that was on record before the step and is no offer (`applyRevision`, and every later
`show` or `point`), word for word and with its sources, and may begin by doing so; a
relation is `Rewritten`, and says what some revision of it states or has stated. No
document ceases to exist. `Moderation` implements it with `FiledStatements`
(revisions without their verdict) for `filed` and its documents as they are:
verdicts, requests and who may see a page are free there, as with overlapping
requests the code promises nothing of them.

Abstractions. The fields of a document a reader can change are one value of
`Texts`; the cited articles are a set. There is one reason for a removal. The
ends of a relation are constant: the edit schema does not offer them and the id
of a relation is derived from them (moving relations belongs to merge and
split). Pages cite nothing. Audit rows, notifications, validation and
authorisation, the clearing of the response cache and the limit of ten revisions
in the topic handler's query are left out. Initially `Ingested` documents carry
an approved revision, as the pipelines write them; documents older than the
revision machinery (no revision at all) are not among the initial states.

Bounds: `Calls` chooses which calls an instance makes, `Requests` how many are in
flight (one slot: requests do not overlap), `MaxClock` how many revisions are
written, `Chunk` stands for `EDGE_PUBLISH_CHUNK` (1, so that hiding a page with
two relations takes three commits).

### EdgeStats

State: `edges`, `pages`, `stats` (the relations each page's counters were
computed from, which stands for the counters), `owed` (pages the trigger has yet
to mark), `dirty` and `older` (markers, and the order of their `at`), `queue`,
`intact`, `work` (the sweep: claimed and not taken, claimed and not rewritten
since - the `lastUpdateTime` precondition -, and what each worker does), `held`
(counters read by an approval) and `lost` (a ghost: pages stale through a mark
that was never written or counters written back).

`WriteEdge` is any write of a relation, moves between pages included. `Mark`,
`Redeliver` and `LoseMark` are deliveries of its event. `StartSweep` claims the
oldest markers; `Recompute`, `StoreStats`, `DropMarker`, `FailRecompute` are a
worker's awaits; `TimeOut` ends the sweep. `ReadPage` and `WritePage` are the
read and the `set` of `applyRevision`. `DeletePage` is a migration's deletion.

Abstractions. Arithmetic of the counters, and what they take from the pages and
owners at the far end: a change there marks no dependents in the code (a hazard
listed in `PROJECT.json`). A sweep that timed out is assumed to have stopped
before the next starts; an overlapping one breaks the invariant, as the mutant
of `IInv` shows.

### Crawler

State: the table `website_index` (`known` rows, `done`, `retries`, `lock`), and
for each process where its coordinator is (`pc`), `db_exhausted`, the difference
of its two counts (`out`), and its URLs by place: `putting` (the rest of a claim
not yet in the queue), `work_q`, `fetching`, `done_q`, `pending`. `claims` and
`expiries` tell claims apart and count lock timeouts; `orphaned` is a ghost: done
pages whose process died before it added their links.

The coordinator's loop is `Refill` or `SkipRefill` (and `Put` for each URL, which
waits for room), `Drain` (take results; then flush, loop or end), and the flush
as its three transactions `MarkDone`, `MarkError`, `PutLinks`. A thread does
`Take` and `Report`. Releasing a rate-limited URL writes nothing: its lock stays
until `Expire`. `Crash` drops what a process holds in memory (a coordinator that
gives up on a transaction ends the process too), `Start` begins again.

Abstractions. Time is whether a lock has outlived its timeout and whether a flush
is due; both may happen at any moment. Queues are sets: no property depends on
their order, and threads finish in any. Priorities decide which URLs of a bucket
a claim takes, so any may be taken. What a fetch comes to is chosen freely; links
of a page are constant. Rows another transaction has locked at that moment
(`SKIP LOCKED`) are left out, as each operation is one step. The claim's row locks
and the retries of `_insert_urls` on a deadlock end in the same state or a crash.

`UrlLedger` is the abstract queue: `Give` hands out claims, `Finish` and `Fail`
take some back, `Lose` forgets some, `Follow` adds what done pages link to.
`Crawler` implements it with `held` the claims not yet answered, wherever they
are in a process (`Held`). A claim that is out is answered at most once, also
after its lock has run out and the URL is out a second time; that is what the
refinement says beyond the invariants.

### Archive

State: `day`, `batches` (open batch of each host and day), `upload` (who holds each
batch lock, and what is being uploaded under it), `nextUid`, `phase` of the process
with `toVisit` and `leaving` of `flush_all`, `bucket`, `failed` (archives that will
never be), and the pages with the path they were given: `promised`, then `done`.

`Add` is `batch_upload`; a batch that it fills is uploaded under its lock before it
returns (`SendLocked`). `FlushIdle` is the idle flusher, `End`, `Collect`,
`Collected`, `SendLeft` and `Exit` are `flush_all`, with threads still adding
pages; `Save` is the crawler marking pages done, which it does without waiting for
the upload. `Kill` and `Restart` are a process that dies. Member names, sizes and
compression are left out; a batch counts pages.

### Captures

State: `archives` (what the bucket holds), `pages` (`articlePages`), `requests`
(readers' requests between two awaits), `tasks` (calls left and who has it),
`attempts` (calls of the extractor between two awaits), `copies` (times a page's
facts were stored), `fetched` (url_store), and ghosts: `slips` (answers the queue
may have missed), `lost`, `dropped`, `faults`.

`Look`, `Upload`, `File`, `Dispatch`, `MarkUndispatched` are the awaits of
`POST /api/ingest/page`; `Deliver`, `Register`, `Submit`, `Finish`,
`ReportFailure`, `Unreadable`, `Misconfigured` those of `/extract`. `Overdue` is
the queue's deadline: the call goes on unheard. `LoseRequest` and `Kill` are
processes that end. Every report (`landed`) and every answer (`heard`) may be lost.
What the model finds, the article node made beside the page, and the call a
development machine makes without a queue are abstracted.

### Pipelines

State: `file` (each output: the how-manieth it is, the outputs it was made from,
whether it is whole, partial or torn), `mtime`, `backup` (the shared cache), and
of the run in progress `args`, `decision` (`execution_decisions`), `refreshed`,
`restored`, `declined` (the prompt answered no), `targets` and `stack` (the calls
of `read_or_process` under way).

`Begin` decides, once, from the modification times under the first target. Then
one instance at a time: `Read`, `Restore`, or `Enter`, the same for everything it
depends on, and `Process`. `Interrupted` finalises what there is; `Dies` and
`DiesRestoring` end the run in the middle of a write; `Fail` ends it anywhere;
`Delete` is somebody removing a file. Force flags are folded into the set
`Shared`; a restore may fail at any moment. Not modelled: the dumper's caches that
are never reset within a process (`_last_written_cache`, `_has_flushed`).

### ArticleAnswers

State: `content` (the version of each article's text), `final` and `temp` (the
output and its `.tmp`, a row per article), `kept`, `buffer` and `inserted`, the
`phase` of the run, and the pool: `unsent`, `queued`, `working`, `answered`,
`failed`, `permits`. `Prepare` reads what is known and empties the `.tmp`;
`EmitCached`, `Put`, `Take`, `Answer` and `Drain` fill it; `Finish`, `Dump` and
`Promote` put it in place. `Interrupt`, `Fail` and `Crash` end a run early,
`Crash` with some of a flush on the disk. Scores, person mentions and the
minimum score, which differ in what they re-ask, are left out.

### RegisterScrape

One company over days. State: `today`, `board` (who the register says sits on it)
and `mirror` (who rejestr.io says does), `written` (days the register wrote to the
entry), `bulletin` (days whose bulletin is stored), `answers` by query and day, and
`asking`, what the run has still to ask. `StartFree` and `StartPaid` compute what to
ask from the dates alone, as the code does; `Ask` and `Miss` are its queries,
`Stop` its end; `Write`, `CatchUp` and `Tomorrow` are the world. The historic
connections (`Paid` with `"H"`) are in the module and left out of the run, as
nothing compares them. Queries about people and their coverage are not modelled.

### Duplicates

State: `merged` (`merged_into`), `parties`, `votes`, `edges` by document id.
`Merge` is the refusals, the survivor looked up through the chain, the plan for
every relation that touches the duplicate (`PlanEdgeMoves`: dropped as a loop,
collapsed, left for review, enriched or moved) and its application. `Split` moves
chosen relations back. `IngestPerson` matches the rows of a payload with what is
stored (`FindEdgeOrCreate`) in the order of document ids. What tells two relations
of a pair apart is a record `says` in which a blank may be filled in. Requests do
not overlap here. Votes are cast initially only; marking for a later split,
publication flags, the votes of the pipeline and dry runs are left out.

Operators marked `\* mutant` are not used by the specification. Each is a form
of the operator below it with a plausible bug; put in its place, it makes the
property it is listed with in `PROJECT.json` fail.

## 3. Runs

| Run | Question | Instance |
|---|---|---|
| `Moderation_Serial` | what requests that do not overlap guarantee, all sixteen calls: `ServedRevisionStands`, `RemovalSticks`, `VisibilityIsDecided` | 2 pages of which 1 exists, 1 relation that does not, 2 texts, 1 article, 1 slot |
| `Moderation_Ends` | `RelationsHavePublicEnds`, `RejectionIsKept`, for the calls that respect them, with failures between commits | 2 pages, 2 relations back and forth, 1 slot |
| `Moderation_Concurrent` | what holds for two overlapping requests: `PublishedPageWasApproved`, `PageCopiesItsRevision`, `ContentIsOnRecord`, `RevisionsAreHistory`; `ImplementsPageHistory`, the refinement of `PageHistory` | 2 pages of which 1 exists, 1 relation, 3 texts of which 2 are one row in two spellings, 13 of the 16 calls, 2 slots |
| `EdgeStats_Sweep` | `StaleIsMarked`, `IInv` under every delivery and failure, and `QuietSettles` under fairness | 2 pages, 2 relations (one movable), 1 marker per sweep |
| `Crawler_Queue` | `OneFetcher`, `RetriesAreBounded`, `DoneIsFollowed`, `EndsEmptyHanded`, `ClaimsFit`; `LedgerSpec`, the refinement of `UrlLedger`; `ExhaustedEnds` under fairness | 2 processes of 1 thread, 2 URLs in 2 buckets, flush size 1, 1 retry, each lock may run out once |
| `Archive_Pages` | a page that is done is in the archive its path names or known lost (`DoneIsArchived`), and gets there (`DoneGetsArchived`, under fairness) | 3 pages of a host, batches of 3, 2 workers, 2 days, 3 archives |
| `Captures_Jobs` | `NobodyWaitsForNothing`, `RepeatsHaveCause`, `ArchivesFitPages` | 2 captures of one page, 2 requests and 2 calls at a time, 2 calls to a task, 3 faults |
| `Pipelines_Builds` | modification times can be believed (`YoungerIsMadeFrom`), a run that ends well leaves things up to date (`UpToDateAfterwards`), the cache holds nothing partial of an incremental pipeline (`SharedIsWhole`), nothing is refreshed twice (`RefreshedOnce`) | 4 pipelines, one read by two others, one volatile; 3 runs |
| `ArticleAnswers_Runs` | `PutNeverWaits`, `NothingDropped`, `AnswersOutliveRuns`; `EveryRunEnds` under fairness | articles of 0, 1 and 2 requests, a pool of 2, flushes of 2 rows, any number of runs |
| `RegisterScrape_Days` | nothing is bought again on suspicion (`RepurchaseHasEvidence`), retries back off (`PurchasesBackOff`), wrong answers are noticed (`WrongIsNoticed`), changes are read (`ChangesAreRead`) | 7 days, one of a weekend, 2 boards, 1 write, 1 fault |
| `Duplicates_Serial` | `ReadersArrive`, `ReplayChangesNothing`, `MergesLoseNothing` | 3 people and 2 places, 5 relations at first, at most 7 |
| `Finding_SplitUndone` | `NewIsNew`, a statement of the repository that TLC refutes | as above |

Why the bounds are enough: the invariants relate one document, its revision and
at most two requests, so two pages, two overlapping requests and two written
revisions (three, where requests do not overlap) contain every pairing of the calls made. `Moderation_Concurrent`
leaves out hiding pages and relations, which writes nothing but `published = FALSE`,
and the creation of relations, as its relation is there from the start; the theorems
cover these calls too. It has three texts, so that an offer can be restated in other
words while the first words are being approved, and takes the two spellings and the
two slots for interchangeable (`SYMMETRY`). Two relations are needed for a hide
that fails between commits; one marker per sweep makes a backlog with two pages;
a query that holds one target makes a page of two targets exceed it. In the
crawler a lock that runs out once puts one URL into two hands, of two processes
or of one before and after a crash; the later answers then meet in every order.
Flush size 1 with two buckets is the tightest instance in which a claim still
fits (`SizesFit` holds with equality).

An archive of three pages over midnight lets a batch fill while the flusher holds
another and the day changes under both. Three runs over four pipelines are a run
that leaves something behind, one that meets it and one that believes it. Three
requests through a pool of two fill it, and two rows per flush make a flush both
full and partial. In seven days a change is written, settles, is read, bought,
missed, and bought again twice with the delays 2 and 3. Two calls to a task and two
at a time are a retry beside the call it repeats; three faults are a missed answer,
a lost report and a lost retry in one history. Chains in `Duplicates` are as long as
three people allow: two links, shorter than `MAX_MERGE_HOPS`.

`EdgeStats_Sweep` claims one marker at a time, so its second worker has nothing to
do at the same time; `StaleIsMarked` and `IInv` are proved for any batch and number
of workers (section 4).

Deadlock is checked except in `Pipelines_Builds`, `RegisterScrape_Days` and
`Captures_Jobs`, which stop after their last run, their last day, and when every
task is answered.

### Findings

`Finding_SplitUndone`: a relation that a split moved to another page keeps the id
derived from its old ends. The next ingest of the page it left finds no relation
between the old ends, derives that same id, and writes over it: the page it was
moved to loses it. `person.post.ts:786` promises "a new document, at an id no
stored edge already occupies"; the ids looked at are only those of relations
between the same two pages.

Further divergences met while modelling, without a run. Some have a property in
the modules that TLC refutes when it is put in a configuration; it is named.

* Moderation. Approving the removal of a page leaves its public relations public:
  the guard in `approve.post.ts` exempts node revisions, and no cascade runs.
  Approving a topic publishes its tags without looking at the tagged article.
  (`RelationsHavePublicEnds`, with `Live` or `Calls` of `Moderation_Ends` widened.)
  Restating a rejected correction of a relation sets the decided record back to
  pending: `revisions/create` guards against this, `proposeRevisionTransaction`
  does not (`RejectionIsKept`). The offers of the pipeline go further: `revisions.ts:562`
  says that an "applied revision is history and each one is its own record", but an
  offer under a key that comes back in another spelling is written over the revision
  on record, decided or not, so that what an admin approved is on record no more and
  waits for review again; approved while it is being restated, it leaves the relation
  saying what its revision does not state (`ContentIsOnRecord` therefore counts what a
  revision has stated). A proposal about a page that does not exist is accepted, and
  approving it creates the page from what was sent, at the id it
  named, published if the approval says so. Publishing a relation that points at nothing
  approves its newest proposal without applying it (`SettledRevisionIsServed`, once
  readers may correct a relation not yet reviewed). Two people citing one relation
  at once: the union is taken with a list read earlier, and the later commit drops
  the other's source, against `references.post.ts:18-22`. With a second slot
  `ServedRevisionStands`, `RemovalSticks`, `VisibilityIsDecided` and
  `RelationsHavePublicEnds` fail, as approval writes back what it read.
* Counters. An approval in between writes back counters the sweep had just stored
  (the ghost `lost` excuses it in `StaleIsMarked`). Without the premise that
  writes stop `QuietSettles` fails: a marker's `at` is refreshed by each write,
  so a busy page can stay at the back of a standing backlog.
* Crawler. A claim takes one URL from each of 64 host buckets however small
  `--queue-flush-size` is. If it exceeds the queue of work, the threads, the queue
  of results and the coordinator wait for each other for ever. `SizesFit` rules it
  out: it holds for 42 to 64 (the default), not below 42 nor from 65 to 84, where
  rounding up doubles the claim. A process that dies between marking pages done and
  adding their links loses the links for good, as a done page is never fetched
  again: the ghost `orphaned` records those pages, and `DoneIsFollowed` and
  `LedgerSpec` excuse them.
* Archives. A failed upload is only printed and the batch dropped, so its done
  pages are lost; a killed process loses its open batches; member names ignore the
  query of an address; `--max_batch_size` lacks `type=int`.
* Captures (`NightReadsIt`). A capture whose dispatch or analysis failed is never
  registered in `url_store`, and the nightly run reads only what is fetched there
  or done in Postgres; `page.post.ts:181-182` and `extractor.ts:102-104` say it
  reads the bucket "regardless". Sending the same bytes again is answered as a
  duplicate and starts no new job. A later capture of an address already fetched
  does not replace its archive. Cloud Tasks is taken to deliver a task again only
  where an answer failed, was missed or came after the deadline; that it may deliver
  one twice without any of these, as queues that deliver at least once do, is not
  modelled, and facts would be stored a second time. `slips` counts a call that
  fails and is killed as one more answer that may have been missed, so
  `RepeatsHaveCause` is weaker there by one.
* Pipelines. `storage.py:401` says a restore is atomic; line 417 opens the output
  in place (`IncrementalIsNeverTorn`). A run that dies writing an ordinary output
  leaves a torn file with a fresh time, which the next takes for up to date. A
  refresh asked for by name of anything but what the first target needs is not
  carried out, `koryta.py:56` against `stores/__init__.py:770`
  (`AskedIsRefreshed`). An interrupted run of an ordinary pipeline uploads what it has
  to the shared cache; only incremental ones keep it local, and `SharedIsWhole` speaks
  of those. A pipeline asked about, or restored, in one instance may be
  refreshed by the next; `Steady` excludes these from `YoungerIsMadeFrom`.
* Article answers. An interrupted run promotes what it has, dropping rows it had
  not copied yet, against `verified_facts_pipeline.py:11-13`
  (`AnswersAreKept`). A run that fails after emptying the `.tmp` loses rows that
  were only there. Verification stores an exception of the model as a verdict and
  does not ask again (`ErrorsStand`).
* Register. An empty answer to a free query leaves a company that nothing retries
  when another of its answers is there (`FailedIsRetried`). An entry written to
  every few days never settles and is never read again, as only its last write
  counts; a change written on the day of a scrape is not read; a second answer of a
  day is dropped; a retry that proves nothing counts as a miss. Of the snapshots the
  nearest is compared, on either side of the purchase: one just before it, with a
  write in between, proves nothing and hides the later one that shows the answer
  wrong, against `coverage.py:12` ("closes the hole"; `HoleIsClosed`, with
  `LastDay = 9`, no weekend and no faults). A bulletin that comes late can show an
  answer to have been right, and the back-off starts over: purchases on days 1, 5, 8
  and 10 with the delays of the run; `PurchasesBackOff` therefore speaks of entries
  left alone since they were read.
* Duplicates. Candidates for folding are keyed by target and type, so merging two
  places can fold the candidacies of different people into one
  (`MergesLoseNothing` with `Suspects = {x1, x2}`). `shared/model.ts:27` says
  `merged_into` is "never a chain", and `merge.ts:84` that "a chain should never
  form": the survivor is followed to its end, but merging a survivor away makes a
  chain of those merged into it. A reader of a chain longer than eight hops ends on
  a tombstone. Merging the last page of such a chain into its first is resolved to
  that tombstone, and `mergeRefusal` does not ask whether the survivor is one: the
  chain closes to a cycle without any race (`ReadersArrive` with `MaxHops = 1`). A payload with a bare row before a fuller one enriches on replay
  (`ReplayChangesNothing` with such a payload). Overlapping merges can make a cycle.
  Merging a public page into one that is not leaves public relations with a hidden
  end.

### Fairness

`EdgeStats_Sweep`, for `QuietSettles`: events are delivered in the end (`Mark`; the
platform delivers at least once, and `LoseMark` is the delivery whose handler
failed), the scheduler starts a sweep every minute (`StartSweep`), and a worker
that awaits the database gets an answer (`Recompute`, `StoreStats`,
`DropMarker`). Weak fairness suffices, as none of these is disabled by others
forever. The property assumes that writes of relations, failures, timeouts and
approvals of pages cease; it says nothing of a page in `lost`.

`Crawler_Queue`, for `ExhaustedEnds`: the operating system schedules the
coordinator and each thread (`Coordinate`, `Take`, `Report`), and requests end, as
they have timeouts. Nothing is assumed of lock timeouts, crashes or restarts, nor
of a flush becoming due.

`ArticleAnswers_Runs`, for `EveryRunEnds`: the run as a whole goes on (`Progress`) -
the event loop runs, and a request ends, as it has a timeout and a few retries. One
weak fairness over all its steps is enough, because each brings the end nearer.

`Archive_Pages`, for `DoneGetsArchived`: uploads go on (`Uploads`) - a batch that
gets no more pages becomes idle and the flusher finds it, the threads run and an
upload ends one way or the other. Nothing is assumed of the end of the process.

## 4. Theorems

`ModerationProofs`, for any number of pages, relations, texts, users and
requests. The properties proved first (`PointersAreOwn`,
`PublishedWereApproved`, `PagesCopyRevisions`, `ContentOnRecord`,
`HistoryStands`, `KeepsToPageHistory`) are about the store; none is inductive
without saying what a batch in flight may contain. `IInv` adds that: `StoreInv` (derived ids fit what
is stored under them, ids and times are below the clock, and the properties
themselves) and `BatchInv` (a batch files under fresh or fitting ids, overwrites
a page only with a copy of a filed revision, shows a page only if it points at
something, points and judges only at what exists), and that no two batches hold
the same fresh id. The argument: committing a safe batch keeps the store sound
and rewrites no history; the other batches stay safe, because ids filed are
fresh or derived, pointers never go back to none and nothing filed is unfiled;
and every reading step puts a safe batch in flight.

`KeepsToPageHistory` is the refinement of `PageHistory`, step by step. It made the
invariant stronger: what is published exists, and of a relation - whose offers may be
restated, and which may be rewritten once it exists - also that a revision's document
exists, that one that does not exist is only ever written unseen, and that what a
batch files is about one that exists or is written with it. Of pages none of this is
so, as a revision of a missing page can be filed and approved; there it is enough that
a page takes only copies of revisions that are no offers (`PagesTakeNoOffers`). What
a revision has `stated` only grows, and is what it states unless it is keyed
(`IdFits`). Of a commit it is then shown what
it makes of each document - leaves it, begins it, or makes it serve a revision filed
before (`WriteMoves`) - and of every other step that it leaves the store alone.

With requests that do not overlap (`NoOverlap`: one slot), `ModerationProofs` adds
`ServedRevisionsStand`, `RemovalsStick`, `VisibilityDecided`, `RejectionsAreKept`
and `RelationsHaveEnds`. A batch in flight then agrees with the store it will meet,
which `SerialInv` says on top of `IInv`: it removes nothing from what is removed,
points a page only at a revision it approves with it, turns down no revision that is
served, and changes who sees a document only if its call says so. `EndsInv` adds
what hiding a page in several commits needs: the relations still public are among
those yet to be hidden (`HidesAfterItsEdges`). Two theorems have hypotheses that the
findings of section 3 show to be needed: `RejectionsAreKept` that nobody proposes
corrections of relations or offers to fill them in, `RelationsHaveEnds` that no removal of a page and no topic
is approved and no approval hides a page (`EndsAreWatched`). They hold of
`Moderation_Ends`, and `NoOverlap` of both one-slot runs.

`EdgeStatsProofs`, for any pages, relations, workers and batch size: `Invariance`,
`Typing`, `StaleMarked`, `ClaimsAreApart`, and `QueriesAreAccepted` (a query cut
to `TARGETS_PER_QUERY` stays within the limit for every number of types and
targets). `StaleIsMarked` alone is not inductive: `ClaimedOnce` (claimed pages
are marked and claimed once) and `ReadsHold` (whatever changed since a worker
read a page's relations has broken its claim or is still owed a mark) make it so.

`CrawlerProofs`, for any URLs, links, processes, threads and sizes. `Followed`:
`DoneIsFollowed` is inductive with the types alone. `ClaimsAlwaysFit` and
`NeverEmbraced` assume `SizesFit`: a batch is numbered bucket by bucket into a
grid of `HostBuckets` by `PerBucket`, which bounds it; a claim is made only when
nothing is left to put and the queue is below the watermark, and putting moves
URLs without adding any.

The same module shows the refinement. `ImplementsLedger`:
every step of the crawler is a step of `UrlLedger` or a stutter. `FetchersAreFew`
and `RetriesEnd` bound the processes that hold a URL and the times it fails by the
locks that ran out. A bound on claims in hand is not inductive over queues, threads
and queues of results: `ClaimInv` numbers the claims and puts each in one place of
one process, `LedgerInv` adds that the pages whose links are being put are done
already, and `BoundInv` counts the holders of a URL, its failures, the standing lock
and the locks that ran out together. `EndsWithNothing` (`EndsEmptyHanded`) needs
`CountInv`: the coordinator's one number is the number of its URLs that are neither
in its hands nor reported, each of them in one place only.

`ArchiveProofs`, for any hosts, days, workers and batch sizes. `Archived`: a page
that is done is in the archive its row names, in a batch still open under that name,
or in a batch known lost. Beside types, the invariant needs `NamesAreOld` (paths
given and batches in hand are numbered before the next batch), `UploadsWhole` (a
lock is held by an upload of all the batch holds), `GivenIsKept` (`DoneIsArchived`,
of pages promised and not done yet too) and `NoneLeft` (a batch opened after
`flush_all` looked for batches holds no page that is done).

`CapturesProofs`, for any captures, requests, calls, attempts and faults.
`ArchivesFit`: with `FilesFit`, what is about to be filed already fits.
`NobodyWaits` is inductive with `Basics`: types, room for the pages in flight, and
calls and requests about pages that are filed. `RepeatsCaused`: copies alone are not
bounded by missed answers at each step, as a call the queue gave up may store later;
`Counted` adds what may still be sent - calls the queue no longer waits for, and the
task itself unless its call has stored the facts - and `Fresh` says that a page
without a task yet was never sent anything.

`PipelinesProofs`, for any tree of pipelines. `TimesCanBeBelieved` (an output younger
than one it needs was made from it or from a later one), `NothingTwice` and
`WholeIsShared` (of incremental pipelines). The invariant says that the calls under way form a path down the
tree (`Path`), that what a call was handed is what is there and nobody will refresh it
(`Kept`), that outputs are made in the past (`InThePast`), and that what was refreshed
in this run is there and not being refreshed (`Fresh`). `RunsBringUpToDate` is about
the whole run: the decision of each pipeline depends on those of what it needs, so it
is shown first that exactly one such function exists on a tree without cycles. Then
`BuildInv`: what is not to be refreshed stands (it is there, no older than what it
relies on, and nothing under it is to be refreshed either: `Standing`), whatever a
call was already handed is settled, and the first target is settled before the run
can end.

`ArticleAnswersProofs`, for any articles and any pool. `NeverStuck`: a put into the
pool always finds a permit, since permits are taken before and returned after
(`PoolInv`). `Complete`: a run that comes to its end has a row for every article.
`AnswersLast`: no step of a later run takes an answer from the output, but the
promotion of what an interrupted run has; of rows that are only in the `.tmp` it says
nothing (section 3). `RowsInv` and `AnswersInv` say where the row of each article is at each stage
of a run, and that nothing contradicts an answer of the output; `NoneAhead` that no
row is of a text still to come.

`RegisterScrapeProofs`, for any company, calendar, delays, bulletins and failures.
`RepurchasesHaveEvidence`, `RetriesBackOff`, `WrongAnswersAreNoticed` and
`EveryChangeIsRead`. What is asked is computed from the dates of what is stored, so
the invariant says what these dates tell: a snapshot tells the board unless the
register was written to since (`BoardIsRead`); between two snapshots, and before the
one being asked for, it was written to (`ReadWithCause`); once an answer of rejestr.io
agrees with a register left alone, all later ones do (`Follows`); and while a purchase
is under way its reasons stand (`BuysWithCause`), as days only pass and nothing stored
is taken back. The back-off follows from one fact about the comparison: left alone
since it was read, the register has no snapshot later than the one before both
purchases, so both are compared with it, both are misses, and the delay is at least
the second (`BothAreMisses`). It takes delays that do not decrease, as
`RETRY_BACKOFF_DAYS` are.

What lies beneath the liveness properties is proved too. Each of the four needs a
fairness assumption, which is beyond the prover; what that assumption acts on is not.
For each there is one theorem that the protocol is never stuck - the guard of a step
the fairness speaks of holds as long as something is left to do - and one that steps
lead forward only:

| Property | Never stuck | Forward only |
|---|---|---|
| `QuietSettles` | `MarkersNeverWait`: a mark can be delivered, a sweep finds oldest markers to claim, a worker can go on | `SettlingComesNearer`: without interference `WorkLeft` falls at each step; `StaleIsMarked` says that at zero counters are current or lost |
| `ExhaustedEnds` | `ExhaustedNeverStalls`: a thread can take or report, or the coordinator's next look finds results or knows all were received | `ExhaustedComesNearer`: `AnswersLeft` never grows, and falls with each step that moves an answer |
| `EveryRunEnds` | `RunsGoOn`: the pool or the coroutine that fills and empties it can go on | `RunsComeNearer`: phases left, then `StepsLeft`, fall at each step |
| `DoneGetsArchived` | `UploadsNeverStuck`: while a page that is done waits in memory, an upload can begin, end, or `flush_all` go on | `SettledForGood`: archived or lost, it stays so |

For the counters this took two more facts: claims that stand are in the hands of the
sweep (`ClaimsInHand`), and `older` orders the markers (`OlderOrders`), so that among
finitely many there are oldest ones, as many as a sweep claims (`BatchExists`). A claim
that an event broke counts twice in `WorkLeft`, as its marker is left to the next
sweep. For the crawler it is `CountInv` again: when nothing is in a queue or with a
thread, the count of what is out is zero. That the steps found possible are taken in
the end, and that the two halves make the property, TLC checks on the instances.

Assumptions: the named `ASSUME`s of the modules, which TLC evaluates in every run
- relations have pages at their ends, pages and relations have different ids, what
is live initially has live ends, bounds are positive, buckets and links are
functions on the URLs, pipelines form a tree, readers and attempts are finite sets,
delays do not decrease.

The theorems of the table assume finite sets where they count - pages, relations and
workers, articles - and, for the counters, that there is a worker.

Only model-checked: `Duplicates`, whose chains of merges and rows of a payload are
followed by recursive functions, so that what they return is induction over data
(`ReadersArrive`, `ReplayChangesNothing`, `MergesLoseNothing`); `ReadersArrive`
besides holds only while chains are no longer than `MaxHops`. And liveness itself
(`QuietSettles`, `ExhaustedEnds`, `EveryRunEnds`, `DoneGetsArchived`), as fairness is
beyond the prover.

## 5. Not modelled

* The derived fields of `functions/src/nodes.ts`, `votes.ts`, `notes.ts` and
  `revisions.ts`: each event re-queries and stores one field, without order,
  precondition or retry, so that nothing is promised of it between two events.
* Overlapping merges, and overlapping ingests of one person: the code makes no
  promise there (divergences, section 3).
* Companies and articles as payloads of ingest; marking a page for a later split.
* The uploader, scores and person mentions, which share the article runs' cache
  and pool; queries about people in the register; reset, reprioritisation and
  blocked domains of the crawler's queue.
* The compressor and the browser extension: one process each, sharing nothing with
  the rest but the calls modelled in `Captures`.
* The review queue, notifications and activity change nothing a page shows; the
  user interface and read endpoints change no state; the access rules decide who
  may call; migrations are run once by hand.
* Scrapers, parsers and analyses: batch computations over registers without a
  protocol. They are most of the repository's code, which is why the modules map
  onto a small share of its lines: the share that keeps state several actors use.
