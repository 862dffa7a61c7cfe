------------------------------ MODULE Captures ------------------------------
(***************************************************************************)
(* A page somebody is reading, from the browser to its facts.  The site      *)
(* stores it (server/api/ingest/page.post.ts) and hands it to Cloud Tasks    *)
(* (server/utils/extractor.ts); the queue calls the extractor                *)
(* (service/app.py), again whenever it gets no good answer in time; the      *)
(* extractor sends the facts to the site (api/ingest/extraction.post.ts),    *)
(* which stores whatever it is sent.  Everything may be lost on the way.     *)
(***************************************************************************)
EXTENDS Naturals, Sequences, FiniteSets

CONSTANTS
  Captures,     \* what may be sent: a page, and perhaps a passage of it
  Bytes,        \* the page of each
  Url,          \* its address
  Readers,      \* requests in flight
  Attempts,     \* calls of the extractor in flight
  MaxAttempts,  \* bound: calls the queue makes for one task
  MaxPages,     \* bound: captures and archives stored
  MaxFaults     \* bound: messages lost, calls failed and processes ended

ASSUME BoundsAssumption == MaxAttempts \in Nat \ {0} /\ {MaxPages, MaxFaults} \subseteq Nat
ASSUME NamesAssumption == {"queue", "nobody"} \cap Attempts = {}
ASSUME FiniteAssumption == IsFiniteSet(Readers) /\ IsFiniteSet(Attempts)

VARIABLES
  archives,  \* what the archives in the bucket hold
  pages,     \* `articlePages`
  requests,  \* readers' requests between two awaits
  tasks,     \* for each page, the calls left to its task and who has it now
  attempts,  \* the extractor's calls between two awaits
  copies,    \* times the facts of each page were stored in `extractions`
  fetched,   \* url_store: what it knows of each address, and its archive
  slips,     \* answers each page's task may have missed
  lost,      \* pages that lost their request, or a call or report when none was left
  dropped,   \* archives whose request was lost
  faults     \* what has gone wrong so far

site == <<archives, pages, requests, dropped>>
vars == <<site, tasks, attempts, copies, fetched, slips, lost, faults>>

Ids == 1..MaxPages
Quiet == [at |-> "idle", capture |-> "none", id |-> 0]
Resting == [at |-> "idle", page |-> 0, stored |-> FALSE]
Gone == [left |-> 0, by |-> "nobody"]
Unknown == [status |-> "absent", archive |-> 0]

Init ==
  /\ archives = <<>> /\ pages = <<>>
  /\ requests = [r \in Readers |-> Quiet]
  /\ tasks = [p \in Ids |-> Gone]
  /\ attempts = [a \in Attempts |-> Resting]
  /\ copies = [p \in Ids |-> 0] /\ slips = [p \in Ids |-> 0]
  /\ fetched = [u \in {Url[c] : c \in Captures} |-> Unknown]
  /\ lost = {} /\ dropped = {} /\ faults = 0

\* A step in which so many things go wrong.
Wrong(n) == faults' = faults + n /\ faults' <= MaxFaults
If(condition) == IF condition THEN 1 ELSE 0

(***************************************************************************)
(* POST /api/ingest/page.                                                    *)
(***************************************************************************)
SameBytes(c) == {p \in DOMAIN pages : Bytes[pages[p].capture] = Bytes[c]}
Duplicate(c) == \E p \in SameBytes(c) : pages[p].capture = c

\* Bound: requests that would store a page too many are not sent.
Room ==
  /\ Len(pages) + Cardinality({r \in Readers : requests[r].at \in {"uploading", "filing"}}) < MaxPages
  /\ Len(archives) < MaxPages

\* The query before anything is written.  A capture that is stored already is
\* answered at once, and the request is over.
Look(r, c) ==
  /\ requests[r] = Quiet /\ Room /\ ~Duplicate(c)
  /\ \/ /\ SameBytes(c) = {}
        /\ requests' = [requests EXCEPT ![r] = [at |-> "uploading", capture |-> c, id |-> 0]]
     \/ \E p \in SameBytes(c) :
          requests' = [requests EXCEPT
                         ![r] = [at |-> "filing", capture |-> c, id |-> pages[p].archive]]
  /\ UNCHANGED <<archives, pages, dropped, tasks, attempts, copies, fetched, slips, lost, faults>>

Upload(r) ==
  /\ requests[r].at = "uploading" /\ Len(archives) < MaxPages
  /\ archives' = Append(archives, Bytes[requests[r].capture])
  /\ requests' = [requests EXCEPT ![r].at = "filing", ![r].id = Len(archives) + 1]
  /\ UNCHANGED <<pages, dropped, tasks, attempts, copies, fetched, slips, lost, faults>>

AsFoundNow(r) ==  \* mutant: the archive is looked up again when the page is filed
  IF SameBytes(requests[r].capture) = {} THEN requests[r].id
  ELSE pages[CHOOSE p \in SameBytes(requests[r].capture) : TRUE].archive
StoragePath(r) == requests[r].id

File(r) ==
  /\ requests[r].at = "filing"
  /\ pages' = Append(pages, [capture |-> requests[r].capture, archive |-> StoragePath(r),
                             status |-> "stored", told |-> FALSE])
  /\ requests' = [requests EXCEPT ![r].at = "dispatching", ![r].id = Len(pages) + 1]
  /\ UNCHANGED <<archives, dropped, tasks, attempts, copies, fetched, slips, lost, faults>>

Forgets(r) == Quiet  \* mutant: a dispatch that failed is not recorded
Undispatched(r) == [requests[r] EXCEPT !.at = "undispatched"]

\* dispatchExtraction: the task is created or not, and the site hears of it or
\* not.  No task, and no answer, look alike.
Dispatch(r, created, heard) ==
  /\ requests[r].at = "dispatching"
  /\ heard => created
  /\ tasks' = IF created
              THEN [tasks EXCEPT ![requests[r].id] = [left |-> MaxAttempts, by |-> "queue"]]
              ELSE tasks
  /\ requests' = [requests EXCEPT ![r] = IF heard THEN Quiet ELSE Undispatched(r)]
  /\ UNCHANGED <<archives, pages, dropped, attempts, copies, fetched, slips, lost>>
  /\ Wrong(If(~heard))

MarkUndispatched(r) ==
  /\ requests[r].at = "undispatched"
  /\ pages' = [pages EXCEPT ![requests[r].id].status = "error"]
  /\ requests' = [requests EXCEPT ![r] = Quiet]
  /\ UNCHANGED <<archives, dropped, tasks, attempts, copies, fetched, slips, lost, faults>>

\* Something about a page went missing, and its task is gone.
Loses(p, missing) == lost' = IF missing /\ tasks'[p] = Gone THEN lost \cup {p} ELSE lost

\* The request dies: the container ends, or an await fails.
LoseRequest(r) ==
  /\ requests[r].at # "idle"
  /\ requests' = [requests EXCEPT ![r] = Quiet]
  /\ dropped' = IF requests[r].at = "filing" THEN dropped \cup {requests[r].id} ELSE dropped
  /\ UNCHANGED <<archives, pages, tasks, attempts, copies, fetched, slips>>
  /\ IF requests[r].at \in {"dispatching", "undispatched"} THEN Loses(requests[r].id, TRUE)
     ELSE UNCHANGED lost
  /\ Wrong(1)

(***************************************************************************)
(* Cloud Tasks.                                                              *)
(***************************************************************************)
\* A task whose call has ended: gone when it was answered well or has none left.
Answered(task, good) == IF good \/ task.left = 0 THEN Gone ELSE [task EXCEPT !.by = "queue"]

\* The end of a call; the queue listens only to the one it waits for.
Respond(a, good) ==
  LET p == attempts[a].page
  IN  /\ tasks' = IF tasks[p].by = a THEN [tasks EXCEPT ![p] = Answered(@, good)] ELSE tasks
      /\ attempts' = [attempts EXCEPT ![a] = Resting]

\* dispatchDeadline: the queue waits no longer, and the call goes on.
Overdue(p) ==
  /\ tasks[p].by \in Attempts
  /\ tasks' = [tasks EXCEPT ![p] = Answered(@, FALSE)]
  /\ slips' = [slips EXCEPT ![p] = @ + 1]
  /\ UNCHANGED <<site, attempts, copies, fetched, lost>>
  /\ Wrong(1)

(***************************************************************************)
(* POST /extract.                                                            *)
(***************************************************************************)
\* _update_page: never raises, so a report that is lost goes unnoticed.
Reported(p, status, told, landed) ==
  pages' = IF landed THEN [pages EXCEPT ![p].status = status, ![p].told = told] ELSE pages

\* The last report of a call.
LastReport(p, status, told, landed) ==
  /\ Reported(p, status, told, landed)
  /\ Loses(p, ~landed)

Called(p) == tasks[p].by = "queue"
Fewer(p) == tasks[p].left - 1

Deliver(p, a, landed) ==
  /\ Called(p) /\ attempts[a] = Resting
  /\ tasks' = [tasks EXCEPT ![p] = [left |-> Fewer(p), by |-> a]]
  /\ attempts' = [attempts EXCEPT ![a] = [at |-> "extracting", page |-> p, stored |-> FALSE]]
  /\ Reported(p, "extracting", pages[p].told, landed)
  /\ UNCHANGED <<archives, requests, dropped, copies, fetched, slips, lost>>
  /\ Wrong(If(~landed))

\* A service that lacks its configuration answers 503.
Misconfigured(p, landed) ==
  /\ Called(p)
  /\ tasks' = [tasks EXCEPT ![p] = Answered([left |-> Fewer(p), by |-> "queue"], FALSE)]
  /\ LastReport(p, "error", pages[p].told, landed)
  /\ UNCHANGED <<archives, requests, dropped, attempts, copies, fetched, slips>>
  /\ Wrong(1 + If(~landed))

\* oneshot.analyze: it raises, finds nothing it can read, or has an answer.
Raise(a) ==
  /\ attempts[a].at = "extracting"
  /\ attempts' = [attempts EXCEPT ![a].at = "failed"]
  /\ UNCHANGED <<site, tasks, copies, fetched, slips, lost>>
  /\ Wrong(1)

Unreadable(a, landed) ==
  /\ attempts[a].at = "extracting"
  /\ Respond(a, TRUE)
  /\ LastReport(attempts[a].page, "error", pages[attempts[a].page].told, landed)
  /\ UNCHANGED <<archives, requests, dropped, copies, fetched, slips>>
  /\ Wrong(If(~landed))

\* register_capture, best effort: the address is inserted unless it is there, and
\* marked fetched only if it is found among the new ones.
Registered(row, k, found) ==
  IF row.status = "fetched" THEN row
  ELSE IF found THEN [status |-> "fetched", archive |-> k] ELSE [row EXCEPT !.status = "new"]

Register(a, reached, found) ==
  LET page == pages[attempts[a].page]
      u == Url[page.capture]
  IN  /\ attempts[a].at = "extracting"
      /\ found => reached
      /\ fetched' = IF reached THEN [fetched EXCEPT ![u] = Registered(@, page.archive, found)]
                    ELSE fetched
      /\ attempts' = [attempts EXCEPT ![a].at = "registered"]
      /\ UNCHANGED <<site, tasks, copies, slips, lost, faults>>

\* submit_extraction: the facts are stored or not, and the extractor hears of it or
\* not.  There may be none to send.
Submit(a, stores, heard) ==
  LET p == attempts[a].page
  IN  /\ attempts[a].at = "registered"
      /\ copies' = IF stores THEN [copies EXCEPT ![p] = @ + 1] ELSE copies
      /\ slips' = IF stores /\ ~heard THEN [slips EXCEPT ![p] = @ + 1] ELSE slips
      /\ attempts' = [attempts EXCEPT ![a].at = IF heard THEN "submitted" ELSE "failed",
                                      ![a].stored = stores]
      /\ UNCHANGED <<site, tasks, fetched, lost>>
      /\ Wrong(If(~heard))

RaisesOnLoss(landed) == landed  \* mutant: a lost report fails the call
Good(landed) == TRUE

Finish(a, landed) ==
  /\ attempts[a].at = "submitted"
  /\ Respond(a, Good(landed))
  /\ LastReport(attempts[a].page, "done", attempts[a].stored, landed)
  /\ UNCHANGED <<archives, requests, dropped, copies, fetched, slips>>
  /\ Wrong(If(~landed))

ReportFailure(a, landed) ==
  /\ attempts[a].at = "failed"
  /\ Respond(a, FALSE)
  /\ LastReport(attempts[a].page, "error", pages[attempts[a].page].told, landed)
  /\ UNCHANGED <<archives, requests, dropped, copies, fetched, slips>>
  /\ Wrong(If(~landed))

\* The instance ends under a call; its connection breaks, which is a bad answer.
Kill(a) ==
  LET p == attempts[a].page
  IN  /\ attempts[a].at # "idle"
      /\ Respond(a, FALSE)
      /\ slips' = IF attempts[a].stored THEN [slips EXCEPT ![p] = @ + 1] ELSE slips
      /\ Loses(p, TRUE)
      /\ UNCHANGED <<site, copies, fetched>>
      /\ Wrong(1)

Request(r) ==
  \/ \E c \in Captures : Look(r, c)
  \/ Upload(r) \/ File(r) \/ MarkUndispatched(r) \/ LoseRequest(r)
  \/ \E created, heard \in BOOLEAN : Dispatch(r, created, heard)

Attempt(a) ==
  \/ \E p \in Ids, landed \in BOOLEAN : Deliver(p, a, landed)
  \/ Raise(a) \/ Kill(a)
  \/ \E landed \in BOOLEAN : Unreadable(a, landed) \/ Finish(a, landed) \/ ReportFailure(a, landed)
  \/ \E reached, found \in BOOLEAN : Register(a, reached, found)
  \/ \E stores, heard \in BOOLEAN : Submit(a, stores, heard)

Next ==
  \/ \E r \in Readers : Request(r)
  \/ \E a \in Attempts : Attempt(a)
  \/ \E p \in Ids : Overdue(p) \/ \E landed \in BOOLEAN : Misconfigured(p, landed)

Spec == Init /\ [][Next]_vars

(***************************************************************************)
(* Properties.                                                               *)
(***************************************************************************)
\* A page that is not answered yet has somebody working on it - the request that
\* stored it, a task in the queue, or a call - unless one of them was lost when no
\* retry was left: a job that failed, or was never started, says so.
NobodyWaitsForNothing ==
  \A p \in DOMAIN pages :
    pages[p].status \in {"stored", "extracting"} =>
      \/ p \in lost
      \/ tasks[p] # Gone
      \/ \E a \in Attempts : attempts[a].page = p
      \/ \E r \in Readers :
           requests[r].at \in {"dispatching", "undispatched"} /\ requests[r].id = p

\* The queue calls again, and the endpoint stores what it is sent; still the facts
\* of a page are stored twice only when an answer may have been missed.  A call
\* whose facts were stored and that was listened to is never made again.
RepeatsHaveCause == \A p \in Ids : copies[p] <= 1 + slips[p]

\* Each page's archive holds what was captured, although captures of the same page
\* share one; and every archive is some page's, or about to be, or was dropped by
\* a request that died: retries leave no copies nothing points at.
ArchivesFitPages ==
  /\ \A p \in DOMAIN pages :
       pages[p].archive \in DOMAIN archives
       /\ archives[pages[p].archive] = Bytes[pages[p].capture]
  /\ \A k \in DOMAIN archives :
       \/ k \in dropped
       \/ \E p \in DOMAIN pages : pages[p].archive = k
       \/ \E r \in Readers : requests[r].at = "filing" /\ requests[r].id = k

\* A page that reports facts has had some stored for it.
CountsAreTrue == \A p \in DOMAIN pages : pages[p].told => copies[p] > 0

\* Not so: once nobody works on a page any more, the nightly run, which reads the
\* fetched addresses of url_store, finds its bytes there.
NightReadsIt ==
  \A p \in DOMAIN pages :
    (/\ tasks[p] = Gone /\ p \notin lost
     /\ \A a \in Attempts : attempts[a].page # p
     /\ \A r \in Readers : requests[r] = Quiet)
    => LET row == fetched[Url[pages[p].capture]]
       IN  row.status = "fetched" /\ archives[row.archive] = Bytes[pages[p].capture]
=============================================================================
