--------------------------- MODULE CapturesProofs ---------------------------
(***************************************************************************)
(* Theorems about captured pages, for any captures, requests, calls and      *)
(* bounds: no page waits for nothing, facts stored again have a cause, and   *)
(* archives fit their pages.                                                 *)
(***************************************************************************)
EXTENDS Captures, SequenceTheorems, FiniteSetTheorems, TLAPS

Statuses == {"stored", "extracting", "done", "error"}
Page == [capture: Captures, archive: Nat, status: Statuses, told: BOOLEAN]
RequestState == [at: {"idle", "uploading", "filing", "dispatching", "undispatched"},
             capture: Captures \cup {"none"}, id: Nat]
Task == [left: Int, by: Attempts \cup {"queue", "nobody"}]
CallState == [at: {"idle", "extracting", "registered", "submitted", "failed"},
             page: Nat, stored: BOOLEAN]

Types ==
  /\ archives \in Seq({Bytes[c] : c \in Captures}) /\ pages \in Seq(Page)
  /\ requests \in [Readers -> RequestState]
  /\ tasks \in [Ids -> Task]
  /\ attempts \in [Attempts -> CallState]
  /\ copies \in [Ids -> Nat] /\ slips \in [Ids -> Nat]

\* There is room for what is being stored.
Storing == {r \in Readers : requests[r].at \in {"uploading", "filing"}}
Fits == Len(pages) + Cardinality(Storing) <= MaxPages

\* Calls are about pages that are filed, and the one the queue waits for is under way.
CallsFit ==
  /\ \A a \in Attempts : IF attempts[a].at = "idle" THEN attempts[a] = Resting
                         ELSE attempts[a].page \in DOMAIN pages
  /\ \A p \in Ids : /\ tasks[p] # Gone => p \in DOMAIN pages
                    /\ tasks[p].by \in Attempts => attempts[tasks[p].by].page = p
                    /\ tasks[p].by = "nobody" => tasks[p] = Gone

Filed(r) == requests[r].at \in {"dispatching", "undispatched"}
RequestsFit ==
  \A r \in Readers : /\ r \in Storing => requests[r].capture \in Captures
                     /\ Filed(r) => requests[r].id \in DOMAIN pages

Basics == Types /\ Fits /\ CallsFit /\ RequestsFit

(***************************************************************************)
(* Types.                                                                    *)
(***************************************************************************)
LEMMA PagesAreIds ==
  ASSUME Types, Fits
  PROVE  /\ Len(pages) \in Nat /\ DOMAIN pages = 1..Len(pages) /\ DOMAIN pages \subseteq Ids
         /\ \A p \in DOMAIN pages : pages[p] \in Page
         /\ MaxPages \in Nat
<1>1. Len(pages) \in Nat /\ DOMAIN pages = 1..Len(pages) /\ \A p \in DOMAIN pages : pages[p] \in Page
  BY LenProperties DEF Types
<1>2. Cardinality(Storing) \in Nat
  BY FS_Subset, FS_CardinalityType, FiniteAssumption DEF Storing
<1> QED
  BY <1>1, <1>2, BoundsAssumption DEF Fits, Ids

\* What a report changes of the pages.
LEMMA ReportedPages ==
  ASSUME pages \in Seq(Page), NEW p \in DOMAIN pages, NEW status \in Statuses,
         NEW told \in BOOLEAN, NEW landed \in BOOLEAN, Reported(p, status, told, landed)
  PROVE  /\ pages' \in Seq(Page) /\ Len(pages') = Len(pages) /\ DOMAIN pages' = DOMAIN pages
         /\ \A q \in DOMAIN pages :
              /\ pages'[q].archive = pages[q].archive /\ pages'[q].capture = pages[q].capture
              /\ pages'[q].status = IF landed /\ q = p THEN status ELSE pages[q].status
<1>1. CASE ~landed
  BY <1>1 DEF Reported
<1>2. CASE landed
  <2> DEFINE page == [pages[p] EXCEPT !.status = status, !.told = told]
  <2>1. pages[p] \in Page /\ DOMAIN pages = 1..Len(pages)
    BY LenProperties
  <2>2. page \in Page /\ page.archive = pages[p].archive /\ page.capture = pages[p].capture
        /\ page.status = status
    BY <2>1 DEF Page
  <2>3. pages' = [pages EXCEPT ![p] = page]
    BY <1>2 DEF Reported
  <2> HIDE DEF page
  <2>4. /\ pages' \in Seq(Page) /\ Len(pages') = Len(pages)
        /\ \A q \in 1..Len(pages) : pages'[q] = IF q = p THEN page ELSE pages[q]
    BY <2>1, <2>2, <2>3, ExceptSeq
  <2>5. DOMAIN pages' = DOMAIN pages
    BY <2>3
  <2> QED
    BY <1>2, <2>1, <2>2, <2>4, <2>5
<1> QED
  BY <1>1, <1>2

LEMMA GoneIsTask == Gone \in Task /\ Quiet \in RequestState /\ Resting \in CallState
BY DEF Gone, Task, Quiet, RequestState, Resting, CallState

\* The end of a call.
LEMMA RespondTypes ==
  ASSUME Types, NEW a \in Attempts, NEW good \in BOOLEAN, Respond(a, good)
  PROVE  tasks' \in [Ids -> Task] /\ attempts' \in [Attempts -> CallState]
<1> DEFINE p == attempts[a].page
<1>1. p \in Ids => Answered(tasks[p], good) \in Task
  BY GoneIsTask DEF Types, Answered, Task
<1>2. attempts' = [attempts EXCEPT ![a] = Resting]
  BY DEF Respond
<1>3. tasks' = tasks \/ tasks' = [tasks EXCEPT ![p] = Answered(tasks[p], good)]
  BY DEF Respond
<1> HIDE DEF p
<1> QED
  BY <1>1, <1>2, <1>3, GoneIsTask DEF Types

\* One more of something.
LEMMA OneMore ==
  ASSUME NEW S, NEW f \in [S -> Nat], NEW p, NEW g, g = f \/ g = [f EXCEPT ![p] = f[p] + 1]
  PROVE  g \in [S -> Nat]
<1>1. CASE p \in S
  BY <1>1
<1>2. CASE p \notin S
  <2>1. \A x \in S : g[x] = f[x]
    BY <1>2
  <2> QED
    BY <2>1
<1> QED
  BY <1>1, <1>2

LEMMA TypesInit == Init => Types
<1> SUFFICES ASSUME Init PROVE Types
  OBVIOUS
<1>1. archives \in Seq({Bytes[c] : c \in Captures}) /\ pages \in Seq(Page)
  BY DEF Init
<1> QED
  BY <1>1, GoneIsTask DEF Init, Types

LEMMA TypesStep == Basics /\ [Next]_vars => Types'
<1> SUFFICES ASSUME Basics, [Next]_vars PROVE Types'
  OBVIOUS
<1> USE DEF Basics
<1>0. DOMAIN pages \subseteq Ids /\ \A p \in DOMAIN pages : pages[p] \in Page
  BY PagesAreIds
<1>1. ASSUME NEW r \in Readers, NEW c \in Captures, Look(r, c) PROVE Types'
  <2>1. \E k \in Nat, at \in {"uploading", "filing"} :
          requests' = [requests EXCEPT ![r] = [at |-> at, capture |-> c, id |-> k]]
    BY <1>0, <1>1 DEF Look, SameBytes, Page
  <2> QED
    BY <2>1, <1>1 DEF Look, Types, RequestState
<1>2. ASSUME NEW r \in Readers, Upload(r) PROVE Types'
  <2>1. requests[r].capture \in Captures
    BY <1>2 DEF Upload, RequestsFit, Storing
  <2>2. archives' \in Seq({Bytes[c] : c \in Captures}) /\ Len(archives) \in Nat
    BY <2>1, <1>2 DEF Upload, Types
  <2>3. requests' = [requests EXCEPT ![r] = [requests[r] EXCEPT !.at = "filing", !.id = Len(archives) + 1]]
    BY <1>2 DEF Upload
  <2>4. [requests[r] EXCEPT !.at = "filing", !.id = Len(archives) + 1] \in RequestState
    <3>1. requests[r] \in RequestState /\ Len(archives) + 1 \in Nat
      BY <2>2 DEF Types
    <3>2. \A k \in Nat : [requests[r] EXCEPT !.at = "filing", !.id = k] \in RequestState
      BY <3>1 DEF RequestState
    <3> QED
      BY <3>1, <3>2
  <2>5. requests' \in [Readers -> RequestState]
    BY <2>3, <2>4 DEF Types
  <2> QED
    BY <2>2, <2>5, <1>2 DEF Upload, Types
<1>3. ASSUME NEW r \in Readers, File(r) PROVE Types'
  <2> DEFINE page == [capture |-> requests[r].capture, archive |-> requests[r].id,
                      status |-> "stored", told |-> FALSE]
  <2>1. page \in Page
    BY <1>3 DEF File, RequestsFit, Storing, Types, RequestState, Page, Statuses
  <2>2. pages' = Append(pages, page)
    BY <1>3 DEF File, StoragePath
  <2> HIDE DEF page
  <2>3. pages' \in Seq(Page) /\ Len(pages) \in Nat
    BY <2>1, <2>2 DEF Types
  <2>4. requests' = [requests EXCEPT ![r] = [requests[r] EXCEPT !.at = "dispatching", !.id = Len(pages) + 1]]
    BY <1>3 DEF File
  <2>5. [requests[r] EXCEPT !.at = "dispatching", !.id = Len(pages) + 1] \in RequestState
    <3>1. requests[r] \in RequestState /\ Len(pages) + 1 \in Nat
      BY <2>3 DEF Types
    <3>2. \A k \in Nat : [requests[r] EXCEPT !.at = "dispatching", !.id = k] \in RequestState
      BY <3>1 DEF RequestState
    <3> QED
      BY <3>1, <3>2
  <2>6. requests' \in [Readers -> RequestState]
    BY <2>4, <2>5 DEF Types
  <2> QED
    BY <2>3, <2>6, <1>3 DEF File, Types
<1>4. ASSUME NEW r \in Readers, NEW created \in BOOLEAN, NEW heard \in BOOLEAN,
             Dispatch(r, created, heard) PROVE Types'
  <2>1. requests' \in [Readers -> RequestState]
    BY <1>4, GoneIsTask DEF Dispatch, Undispatched, Types, RequestState
  <2>2. [left |-> MaxAttempts, by |-> "queue"] \in Task
    BY BoundsAssumption DEF Task
  <2>3. tasks' \in [Ids -> Task]
    BY <2>2, <1>4 DEF Dispatch, Types
  <2> QED
    BY <2>1, <2>3, <1>4 DEF Dispatch, Types
<1>5. ASSUME NEW r \in Readers, MarkUndispatched(r) PROVE Types'
  <2>1. requests[r].id \in DOMAIN pages /\ pages[requests[r].id].told \in BOOLEAN
    BY <1>0, <1>5 DEF MarkUndispatched, RequestsFit, Filed, Page
  <2>2. Reported(requests[r].id, "error", pages[requests[r].id].told, TRUE)
    BY <2>1, <1>0, <1>5 DEF MarkUndispatched, Reported, Page
  <2>3. pages' \in Seq(Page)
    BY <2>1, <2>2, ReportedPages DEF Types, Statuses
  <2> QED
    BY <2>3, <1>5, GoneIsTask DEF MarkUndispatched, Types
<1>6. ASSUME NEW r \in Readers, LoseRequest(r) PROVE Types'
  BY <1>6, GoneIsTask DEF LoseRequest, Types
<1>7. ASSUME NEW p \in Ids, Overdue(p) PROVE Types'
  BY <1>7, GoneIsTask DEF Overdue, site, Types, Answered, Task
<1>8. ASSUME NEW p \in Ids, NEW landed \in BOOLEAN, Misconfigured(p, landed) PROVE Types'
  <2>1. p \in DOMAIN pages /\ pages[p].told \in BOOLEAN
    BY <1>0, <1>8 DEF Misconfigured, Called, CallsFit, Gone, Page
  <2>2. pages' \in Seq(Page)
    BY <2>1, <1>8, ReportedPages DEF Misconfigured, LastReport, Types, Statuses
  <2>3. tasks' \in [Ids -> Task]
    <3> DEFINE fewer == [left |-> Fewer(p), by |-> "queue"]
    <3>1. fewer \in Task
      BY DEF Fewer, Types, Task
    <3>2. Answered(fewer, FALSE) \in Task
      BY <3>1, GoneIsTask DEF Answered, Task
    <3>3. tasks' = [tasks EXCEPT ![p] = Answered(fewer, FALSE)]
      BY <1>8 DEF Misconfigured
    <3> HIDE DEF fewer
    <3> QED
      BY <3>2, <3>3 DEF Types
  <2> QED
    BY <2>2, <2>3, <1>8 DEF Misconfigured, Types
<1>9. ASSUME NEW p \in Ids, NEW a \in Attempts, NEW landed \in BOOLEAN, Deliver(p, a, landed)
      PROVE Types'
  <2>1. p \in DOMAIN pages /\ pages[p].told \in BOOLEAN
    BY <1>0, <1>9 DEF Deliver, Called, CallsFit, Gone, Page
  <2>2. pages' \in Seq(Page)
    BY <2>1, <1>9, ReportedPages DEF Deliver, Types, Statuses
  <2>3. tasks' \in [Ids -> Task] /\ attempts' \in [Attempts -> CallState]
    BY <1>9 DEF Deliver, Fewer, Types, Task, CallState, Ids
  <2> QED
    BY <2>2, <2>3, <1>9 DEF Deliver, Types
<1>10. ASSUME NEW a \in Attempts, Raise(a) PROVE Types'
  BY <1>10 DEF Raise, site, Types, CallState
<1>11. ASSUME NEW a \in Attempts, NEW landed \in BOOLEAN,
              Unreadable(a, landed) \/ Finish(a, landed) \/ ReportFailure(a, landed)
       PROVE Types'
  <2> DEFINE p == attempts[a].page
  <2>1. p \in DOMAIN pages /\ pages[p].told \in BOOLEAN
    BY <1>0, <1>11 DEF Unreadable, Finish, ReportFailure, CallsFit, Page
  <2>2. attempts[a].stored \in BOOLEAN
    BY DEF Types, CallState
  <2>3. \E status \in Statuses, told \in BOOLEAN : Reported(p, status, told, landed)
    BY <2>1, <2>2, <1>11 DEF Unreadable, Finish, ReportFailure, LastReport, Statuses
  <2>4. pages' \in Seq(Page)
    BY <2>1, <2>3, ReportedPages DEF Types
  <2>5. \E good \in BOOLEAN : Respond(a, good)
    BY <1>11 DEF Unreadable, Finish, ReportFailure, Good
  <2>6. tasks' \in [Ids -> Task] /\ attempts' \in [Attempts -> CallState]
    BY <2>5, RespondTypes
  <2> QED
    BY <2>4, <2>6, <1>11 DEF Unreadable, Finish, ReportFailure, Types
<1>12. ASSUME NEW a \in Attempts, NEW reached \in BOOLEAN, NEW found \in BOOLEAN,
              Register(a, reached, found) PROVE Types'
  BY <1>12 DEF Register, site, Types, CallState
<1>13. ASSUME NEW a \in Attempts, NEW stores \in BOOLEAN, NEW heard \in BOOLEAN,
              Submit(a, stores, heard) PROVE Types'
  <2>1. attempts' \in [Attempts -> CallState]
    BY <1>13 DEF Submit, Types, CallState
  <2>2. copies' \in [Ids -> Nat] /\ slips' \in [Ids -> Nat]
    <3> DEFINE p == attempts[a].page
    <3>1. /\ copies' = copies \/ copies' = [copies EXCEPT ![p] = copies[p] + 1]
          /\ slips' = slips \/ slips' = [slips EXCEPT ![p] = slips[p] + 1]
      BY <1>13 DEF Submit
    <3> HIDE DEF p
    <3> QED
      BY <3>1, OneMore DEF Types
  <2> QED
    BY <2>1, <2>2, <1>13 DEF Submit, site, Types
<1>14. ASSUME NEW a \in Attempts, Kill(a) PROVE Types'
  <2>1. tasks' \in [Ids -> Task] /\ attempts' \in [Attempts -> CallState]
    BY <1>14, RespondTypes DEF Kill
  <2>2. slips' \in [Ids -> Nat]
    <3> DEFINE p == attempts[a].page
    <3>1. slips' = slips \/ slips' = [slips EXCEPT ![p] = slips[p] + 1]
      BY <1>14 DEF Kill
    <3> HIDE DEF p
    <3> QED
      BY <3>1, OneMore DEF Types
  <2> QED
    BY <2>1, <2>2, <1>14 DEF Kill, site, Types
<1>15. CASE UNCHANGED vars
  BY <1>15 DEF vars, site, Types
<1> QED
  BY <1>1, <1>2, <1>3, <1>4, <1>5, <1>6, <1>7, <1>8, <1>9, <1>10, <1>11, <1>12, <1>13, <1>14, <1>15
     DEF Next, Request, Attempt

(***************************************************************************)
(* What the two kinds of step leave alone.                                   *)
(***************************************************************************)
Asking == \E r \in Readers : Request(r)
Working ==
  \/ \E a \in Attempts : Attempt(a)
  \/ \E p \in Ids : Overdue(p) \/ \E landed \in BOOLEAN : Misconfigured(p, landed)

SamePages ==
  /\ Len(pages') = Len(pages) /\ DOMAIN pages' = DOMAIN pages
  /\ \A q \in DOMAIN pages : /\ pages'[q].archive = pages[q].archive
                             /\ pages'[q].capture = pages[q].capture

\* The page a call is about is filed.
LEMMA CallsPage ==
  ASSUME Basics, NEW a \in Attempts, attempts[a].at # "idle"
  PROVE  /\ attempts[a].page \in DOMAIN pages /\ attempts[a].page \in Ids
         /\ pages[attempts[a].page] \in Page
BY PagesAreIds DEF Basics, CallsFit

LEMMA TaskedPage ==
  ASSUME Basics, NEW p \in Ids, tasks[p].by # "nobody"
  PROVE  p \in DOMAIN pages /\ pages[p] \in Page
<1>1. tasks[p] # Gone
  BY DEF Gone
<1> QED
  BY <1>1, PagesAreIds DEF Basics, CallsFit

\* A report never moves a page.
LEMMA ReportKeeps ==
  ASSUME Basics, NEW p \in DOMAIN pages, NEW status \in Statuses, NEW told \in BOOLEAN,
         NEW landed \in BOOLEAN, Reported(p, status, told, landed)
  PROVE  /\ SamePages
         /\ \A q \in DOMAIN pages :
              pages'[q].status = IF landed /\ q = p THEN status ELSE pages[q].status
BY ReportedPages DEF Basics, Types, SamePages

\* What each action of the queue or of a call reports.
LEMMA LastReports ==
  ASSUME Basics, NEW a \in Attempts, NEW landed \in BOOLEAN,
         Unreadable(a, landed) \/ Finish(a, landed) \/ ReportFailure(a, landed)
  PROVE  /\ attempts[a].at # "idle"
         /\ \E status \in {"done", "error"}, told \in BOOLEAN :
              LastReport(attempts[a].page, status, told, landed)
<1>1. attempts[a].at # "idle"
  BY DEF Unreadable, Finish, ReportFailure
<1>2. pages[attempts[a].page].told \in BOOLEAN
  BY <1>1, CallsPage DEF Page
<1>3. attempts[a].stored \in BOOLEAN
  BY DEF Basics, Types, CallState
<1> QED
  BY <1>1, <1>2, <1>3 DEF Unreadable, Finish, ReportFailure

LEMMA WorkingKeeps ==
  ASSUME Basics, Working
  PROVE  /\ requests' = requests /\ archives' = archives /\ dropped' = dropped
         /\ SamePages
<1>0. pages' = pages => SamePages
  BY DEF SamePages
<1>1. ASSUME NEW a \in Attempts, NEW landed \in BOOLEAN,
             Unreadable(a, landed) \/ Finish(a, landed) \/ ReportFailure(a, landed)
      PROVE  SamePages
  BY <1>1, LastReports, CallsPage, ReportKeeps DEF LastReport, Statuses
<1>2. ASSUME NEW a \in Attempts, NEW p \in Ids, NEW landed \in BOOLEAN, Deliver(p, a, landed)
      PROVE  SamePages
  <2>1. p \in DOMAIN pages /\ pages[p] \in Page
    BY <1>2, TaskedPage DEF Deliver, Called
  <2> QED
    BY <1>2, <2>1, ReportKeeps DEF Deliver, Statuses, Page
<1>3. ASSUME NEW p \in Ids, NEW landed \in BOOLEAN, Misconfigured(p, landed)
      PROVE  SamePages
  <2>1. p \in DOMAIN pages /\ pages[p] \in Page
    BY <1>3, TaskedPage DEF Misconfigured, Called
  <2> QED
    BY <1>3, <2>1, ReportKeeps DEF Misconfigured, LastReport, Statuses, Page
<1>4. SamePages
  BY <1>0, <1>1, <1>2, <1>3 DEF Working, Attempt, Overdue, Raise, Kill, Register, Submit, site
<1>5. requests' = requests /\ archives' = archives /\ dropped' = dropped
  BY DEF Working, Attempt, Overdue, Raise, Kill, Register, Submit, site, Unreadable, Finish,
         ReportFailure, Deliver, Misconfigured
<1> QED
  BY <1>4, <1>5

\* A page marked undispatched is otherwise as it was.
LEMMA MarkKeeps ==
  ASSUME Basics, NEW r \in Readers, MarkUndispatched(r)
  PROVE  /\ SamePages /\ requests[r].id \in DOMAIN pages
         /\ \A q \in DOMAIN pages :
              pages'[q].status = IF q = requests[r].id THEN "error" ELSE pages[q].status
<1>1. requests[r].id \in DOMAIN pages /\ pages[requests[r].id] \in Page
  BY PagesAreIds DEF MarkUndispatched, Basics, RequestsFit, Filed
<1>2. Reported(requests[r].id, "error", pages[requests[r].id].told, TRUE)
  BY <1>1 DEF MarkUndispatched, Reported, Page
<1>3. pages[requests[r].id].told \in BOOLEAN /\ "error" \in Statuses /\ TRUE \in BOOLEAN
  BY <1>1 DEF Page, Statuses
<1>4. SamePages
  BY <1>1, <1>2, <1>3, ReportKeeps
<1>5. \A q \in DOMAIN pages :
        pages'[q].status = IF q = requests[r].id THEN "error" ELSE pages[q].status
  BY <1>1 DEF MarkUndispatched, Page
<1> QED
  BY <1>1, <1>4, <1>5

LEMMA AskingKeeps ==
  ASSUME Basics, Asking
  PROVE  /\ attempts' = attempts /\ copies' = copies /\ slips' = slips
         /\ DOMAIN pages \subseteq DOMAIN pages'
         /\ \A q \in DOMAIN pages : /\ pages'[q].archive = pages[q].archive
                                    /\ pages'[q].capture = pages[q].capture
<1>1. attempts' = attempts /\ copies' = copies /\ slips' = slips
  BY DEF Asking, Request, Look, Upload, File, Dispatch, MarkUndispatched, LoseRequest
<1>2. ASSUME NEW r \in Readers, File(r)
      PROVE  /\ DOMAIN pages \subseteq DOMAIN pages'
             /\ \A q \in DOMAIN pages : pages'[q] = pages[q]
  BY <1>2, PagesAreIds DEF File, Basics, Types
<1> QED
  BY <1>1, <1>2, MarkKeeps
     DEF Asking, Request, Look, Upload, Dispatch, LoseRequest, SamePages

(***************************************************************************)
(* Room for pages, and calls and requests about filed pages.                 *)
(***************************************************************************)
LEMMA OneMoreElement ==
  ASSUME NEW S, IsFiniteSet(S), NEW x
  PROVE  IsFiniteSet(S \cup {x}) /\ Cardinality(S \cup {x}) <= Cardinality(S) + 1
<1>1. /\ IsFiniteSet(S \cup {x}) /\ Cardinality(S) \in Nat
      /\ Cardinality(S \cup {x}) = IF x \in S THEN Cardinality(S) ELSE Cardinality(S) + 1
  BY FS_AddElement, FS_CardinalityType
<1> QED
  BY <1>1

\* The requests that still are to file a page are few.
LEMMA StoringIsFinite == IsFiniteSet(Storing) /\ Cardinality(Storing) \in Nat
BY FS_Subset, FS_CardinalityType, FiniteAssumption DEF Storing

\* What a request's step does to the requests.
LEMMA RequestMoves ==
  ASSUME Basics, NEW r \in Readers, Request(r)
  PROVE  \A s \in Readers \ {r} : requests'[s] = requests[s]
BY DEF Request, Look, Upload, File, Dispatch, MarkUndispatched, LoseRequest, Basics, Types

LEMMA FitsStep == Basics /\ [Next]_vars => Fits'
<1> SUFFICES ASSUME Basics, [Next]_vars PROVE Fits'
  OBVIOUS
<1>0. Len(pages) \in Nat /\ MaxPages \in Nat /\ Len(pages) + Cardinality(Storing) <= MaxPages
  BY PagesAreIds DEF Basics, Fits
<1>1. ASSUME Len(pages') = Len(pages), Storing' \subseteq Storing PROVE Fits'
  <2>1. Cardinality(Storing') <= Cardinality(Storing) /\ Cardinality(Storing') \in Nat
    BY <1>1, StoringIsFinite, FS_Subset, FS_CardinalityType
  <2> QED
    BY <1>0, <1>1, <2>1, StoringIsFinite DEF Fits
<1>2. ASSUME NEW r \in Readers, NEW c \in Captures, Look(r, c) PROVE Fits'
  <2>1. Storing' \subseteq Storing \cup {r}
    BY <1>2, RequestMoves DEF Storing, Request
  <2>2. Cardinality(Storing \cup {r}) <= Cardinality(Storing) + 1
        /\ IsFiniteSet(Storing \cup {r})
    BY StoringIsFinite, OneMoreElement
  <2>3. Cardinality(Storing') <= Cardinality(Storing) + 1 /\ Cardinality(Storing') \in Nat
    BY <2>1, <2>2, StoringIsFinite, FS_Subset, FS_CardinalityType
  <2>4. Len(pages) + Cardinality(Storing) < MaxPages
    BY <1>2 DEF Look, Room, Storing
  <2> QED
    BY <1>0, <1>2, <2>3, <2>4, StoringIsFinite DEF Look, Fits
<1>3. ASSUME NEW r \in Readers, File(r) PROVE Fits'
  <2>0. requests'[r].at = "dispatching"
    BY <1>3 DEF File, Basics, Types
  <2>1. Storing' \subseteq Storing \ {r}
    BY <1>3, <2>0, RequestMoves DEF Storing, Request
  <2>2. Cardinality(Storing \ {r}) = Cardinality(Storing) - 1 /\ IsFiniteSet(Storing \ {r})
    BY <1>3, StoringIsFinite, FS_RemoveElement DEF File, Storing
  <2>3. Cardinality(Storing') <= Cardinality(Storing) - 1 /\ Cardinality(Storing') \in Nat
    BY <2>1, <2>2, StoringIsFinite, FS_Subset, FS_CardinalityType
  <2>4. Len(pages') = Len(pages) + 1
    BY <1>3 DEF File, Basics, Types
  <2> QED
    BY <1>0, <2>3, <2>4, StoringIsFinite DEF Fits
<1>4. ASSUME NEW r \in Readers, Upload(r) PROVE Fits'
  BY <1>1, <1>4, RequestMoves DEF Storing, Upload, Request
<1>5. ASSUME NEW r \in Readers, NEW created \in BOOLEAN, NEW heard \in BOOLEAN,
             Dispatch(r, created, heard) PROVE Fits'
  <2>1. requests'[r].at \in {"idle", "undispatched"}
    BY <1>5 DEF Dispatch, Quiet, Undispatched, Basics, Types, RequestState
  <2> QED
    BY <1>1, <1>5, <2>1, RequestMoves DEF Storing, Dispatch, Request
<1>6. ASSUME NEW r \in Readers, MarkUndispatched(r) \/ LoseRequest(r) PROVE Fits'
  <2>0. requests' = [requests EXCEPT ![r] = Quiet]
    BY <1>6 DEF MarkUndispatched, LoseRequest
  <2>1. requests'[r].at = "idle"
    BY <2>0 DEF Quiet, Basics, Types
  <2>2. Storing' \subseteq Storing
    BY <1>6, <2>1, RequestMoves DEF Storing, Request
  <2>3. Len(pages') = Len(pages)
    BY <1>6, MarkKeeps DEF LoseRequest, SamePages
  <2> QED
    BY <1>1, <2>2, <2>3
<1>7. CASE Working
  BY <1>1, <1>7, WorkingKeeps DEF SamePages, Storing
<1>8. CASE UNCHANGED vars
  BY <1>1, <1>8 DEF vars, site, Storing
<1> QED
  BY <1>2, <1>3, <1>4, <1>5, <1>6, <1>7, <1>8 DEF Next, Request, Working

\* The end of a call: it rests, and the queue that waited for it has the task again,
\* or the task is gone.
LEMMA RespondEffect ==
  ASSUME Basics, NEW a \in Attempts, attempts[a].at # "idle", NEW good \in BOOLEAN,
         Respond(a, good)
  PROVE  /\ \A b \in Attempts : attempts'[b] = IF b = a THEN Resting ELSE attempts[b]
         /\ \A q \in Ids : IF q = attempts[a].page /\ tasks[q].by = a
                           THEN \/ tasks'[q] = Gone
                                \/ ~good /\ tasks'[q].by = "queue"
                           ELSE tasks'[q] = tasks[q]
<1> DEFINE p == attempts[a].page
<1>1. p \in Ids /\ tasks \in [Ids -> Task] /\ attempts \in [Attempts -> CallState]
  BY CallsPage DEF Basics, Types
<1>2. attempts' = [attempts EXCEPT ![a] = Resting]
  BY DEF Respond
<1>3. tasks' = IF tasks[p].by = a THEN [tasks EXCEPT ![p] = Answered(tasks[p], good)] ELSE tasks
  BY DEF Respond
<1>4. Answered(tasks[p], good) = Gone \/ (~good /\ Answered(tasks[p], good).by = "queue")
  <2> DEFINE back == [tasks[p] EXCEPT !.by = "queue"]
  <2>1. back.by = "queue"
    BY <1>1 DEF Task
  <2>2. Answered(tasks[p], good) = Gone \/ (~good /\ Answered(tasks[p], good) = back)
    BY DEF Answered
  <2> HIDE DEF back
  <2> QED
    BY <2>1, <2>2
<1> HIDE DEF p
<1>5. \A q \in Ids : IF q = p /\ tasks[q].by = a
                     THEN \/ tasks'[q] = Gone
                          \/ ~good /\ tasks'[q].by = "queue"
                     ELSE tasks'[q] = tasks[q]
  BY <1>1, <1>3, <1>4
<1> QED
  BY <1>1, <1>2, <1>5 DEF p

LEMMA Ending ==
  ASSUME Basics, NEW a \in Attempts, NEW landed \in BOOLEAN,
         Unreadable(a, landed) \/ Finish(a, landed) \/ ReportFailure(a, landed) \/ Kill(a)
  PROVE  attempts[a].at # "idle" /\ \E good \in BOOLEAN : Respond(a, good)
BY DEF Unreadable, Finish, ReportFailure, Kill, Good

LEMMA NobodysNames ==
  /\ Gone.by = "nobody" /\ Gone.left = 0 /\ Resting.at = "idle" /\ Resting.page = 0
  /\ ~Resting.stored /\ Quiet.at = "idle"
  /\ "nobody" \notin Attempts /\ "queue" \notin Attempts
BY NamesAssumption DEF Gone, Resting, Quiet

\* How the tasks and the calls change: a call is made, ends, or goes on.
LEMMA Delivered ==
  ASSUME Basics, NEW p \in Ids, NEW a \in Attempts, NEW landed \in BOOLEAN, Deliver(p, a, landed)
  PROVE  /\ p \in DOMAIN pages /\ attempts[a] = Resting
         /\ \A b \in Attempts : b # a => attempts'[b] = attempts[b]
         /\ attempts'[a].at = "extracting" /\ attempts'[a].page = p /\ ~attempts'[a].stored
         /\ \A q \in Ids : q # p => tasks'[q] = tasks[q]
         /\ tasks[p].by = "queue" /\ tasks'[p].by = a
<1>1. p \in DOMAIN pages
  BY TaskedPage DEF Deliver, Called
<1>2. attempts' = [attempts EXCEPT ![a] = [at |-> "extracting", page |-> p, stored |-> FALSE]]
  BY DEF Deliver
<1>3. tasks' = [tasks EXCEPT ![p] = [left |-> Fewer(p), by |-> a]]
  BY DEF Deliver
<1> QED
  BY <1>1, <1>2, <1>3 DEF Deliver, Called, Basics, Types

LEMMA GivenUp ==
  ASSUME Basics, NEW p \in Ids,
         Overdue(p) \/ \E landed \in BOOLEAN : Misconfigured(p, landed)
  PROVE  /\ attempts' = attempts
         /\ \A q \in Ids : q # p => tasks'[q] = tasks[q]
         /\ tasks[p].by # "nobody"
         /\ tasks'[p] = Gone \/ tasks'[p].by = "queue"
<1>1. tasks \in [Ids -> Task]
  BY DEF Basics, Types
<1>2. \A task \in Task : Answered(task, FALSE) = Gone \/ Answered(task, FALSE).by = "queue"
  BY DEF Answered, Task
<1>3. CASE Overdue(p)
  BY <1>1, <1>2, <1>3, NobodysNames DEF Overdue
<1>4. CASE \E landed \in BOOLEAN : Misconfigured(p, landed)
  <2> DEFINE fewer == [left |-> Fewer(p), by |-> "queue"]
  <2>1. fewer \in Task
    BY <1>1 DEF Fewer, Task
  <2>2. tasks' = [tasks EXCEPT ![p] = Answered(fewer, FALSE)]
    BY <1>4 DEF Misconfigured
  <2> HIDE DEF fewer
  <2> QED
    BY <1>1, <1>2, <1>4, <2>1, <2>2 DEF Misconfigured, Called
<1> QED
  BY <1>3, <1>4

LEMMA GoesOn ==
  ASSUME Basics, NEW a \in Attempts,
         \/ Raise(a)
         \/ \E reached, found \in BOOLEAN : Register(a, reached, found)
         \/ \E stores, heard \in BOOLEAN : Submit(a, stores, heard)
  PROVE  /\ tasks' = tasks /\ pages' = pages
         /\ \A b \in Attempts : b # a => attempts'[b] = attempts[b]
         /\ attempts[a].at # "idle" /\ attempts'[a].at # "idle"
         /\ attempts'[a].page = attempts[a].page
<1>1. attempts[a] \in CallState /\ attempts \in [Attempts -> CallState]
  BY DEF Basics, Types
<1>2. CASE Raise(a)
  BY <1>1, <1>2 DEF Raise, site, CallState
<1>4. CASE \E reached, found \in BOOLEAN : Register(a, reached, found)
  <2>1. /\ attempts[a].at = "extracting" /\ attempts' = [attempts EXCEPT ![a].at = "registered"]
        /\ UNCHANGED <<site, tasks>>
    BY <1>4 DEF Register
  <2> QED
    BY <1>1, <2>1 DEF site, CallState
<1>3. ASSUME NEW stores \in BOOLEAN, NEW heard \in BOOLEAN, Submit(a, stores, heard)
      PROVE  /\ tasks' = tasks /\ pages' = pages
             /\ \A b \in Attempts : b # a => attempts'[b] = attempts[b]
             /\ attempts[a].at # "idle" /\ attempts'[a].at # "idle"
             /\ attempts'[a].page = attempts[a].page
  BY <1>1, <1>3 DEF Submit, site, CallState
<1> QED
  BY <1>2, <1>3, <1>4

LEMMA CallsFitStep == Basics /\ [Next]_vars => CallsFit'
<1> SUFFICES ASSUME Basics, [Next]_vars PROVE CallsFit'
  OBVIOUS
<1> USE NobodysNames
<1>0. CallsFit
  BY DEF Basics
<1>1. CASE Asking
  <2>1. /\ attempts' = attempts /\ DOMAIN pages \subseteq DOMAIN pages'
    BY <1>1, AskingKeeps
  <2>2. ASSUME NEW p \in Ids, tasks'[p] # tasks[p]
        PROVE  /\ p \in DOMAIN pages' /\ tasks'[p].by = "queue"
    <3>1. PICK r \in Readers, created \in BOOLEAN, heard \in BOOLEAN : Dispatch(r, created, heard)
      BY <1>1, <2>2 DEF Asking, Request, Look, Upload, File, MarkUndispatched, LoseRequest
    <3>2. p = requests[r].id /\ tasks'[p] = [left |-> MaxAttempts, by |-> "queue"]
      BY <2>2, <3>1 DEF Dispatch, Basics, Types
    <3>3. p \in DOMAIN pages
      BY <3>1, <3>2 DEF Dispatch, Basics, RequestsFit, Filed
    <3> QED
      BY <2>1, <3>2, <3>3
  <2> QED
    BY <1>0, <2>1, <2>2 DEF CallsFit
<1>2. ASSUME NEW a \in Attempts, NEW good \in BOOLEAN, attempts[a].at # "idle", Respond(a, good),
             SamePages
      PROVE  CallsFit'
  <2>1. DOMAIN pages' = DOMAIN pages
    BY <1>2 DEF SamePages
  <2>2. \A q \in Ids : tasks[q].by = a => q = attempts[a].page /\ q \in DOMAIN pages
    BY <1>0, <1>2, CallsPage DEF CallsFit
  <2> QED
    BY <1>0, <1>2, <2>1, <2>2, RespondEffect DEF CallsFit
<1>3. ASSUME NEW p \in Ids, NEW a \in Attempts, NEW landed \in BOOLEAN, Deliver(p, a, landed),
             SamePages
      PROVE  CallsFit'
  <2>1. \A q \in Ids : tasks[q].by # a
    <3>1. \A q \in Ids : tasks[q].by = a => attempts[a].page \in Ids
      BY <1>0 DEF CallsFit
    <3> QED
      BY <1>3, <3>1, Delivered DEF Ids
  <2> QED
    BY <1>0, <1>3, <2>1, Delivered DEF CallsFit, SamePages
<1>4. ASSUME NEW p \in Ids, Overdue(p) \/ \E landed \in BOOLEAN : Misconfigured(p, landed),
             SamePages
      PROVE  CallsFit'
  BY <1>0, <1>4, GivenUp, TaskedPage DEF CallsFit, SamePages
<1>5. ASSUME NEW a \in Attempts,
             \/ Raise(a)
             \/ \E reached, found \in BOOLEAN : Register(a, reached, found)
             \/ \E stores, heard \in BOOLEAN : Submit(a, stores, heard)
      PROVE  CallsFit'
  BY <1>0, <1>5, GoesOn DEF CallsFit
<1>6. CASE Working
  BY <1>2, <1>3, <1>4, <1>5, <1>6, Ending, WorkingKeeps DEF Working, Attempt
<1>7. CASE UNCHANGED vars
  BY <1>0, <1>7 DEF vars, site, CallsFit
<1> QED
  BY <1>1, <1>6, <1>7 DEF Next, Asking, Working

LEMMA RequestsFitStep == Basics /\ [Next]_vars => RequestsFit'
<1> SUFFICES ASSUME Basics, [Next]_vars PROVE RequestsFit'
  OBVIOUS
<1>0. RequestsFit /\ requests \in [Readers -> RequestState]
  BY DEF Basics, Types
<1>1. ASSUME NEW r \in Readers, Request(r) PROVE RequestsFit'
  <2>1. DOMAIN pages \subseteq DOMAIN pages' /\ Len(pages) \in Nat
    BY <1>1, AskingKeeps, PagesAreIds DEF Asking, Basics
  <2> DEFINE Fit ==
        /\ requests'[r].at \in {"uploading", "filing"} => requests'[r].capture \in Captures
        /\ requests'[r].at \in {"dispatching", "undispatched"} => requests'[r].id \in DOMAIN pages'
  <2>2. Fit
    <3>1. ASSUME NEW c \in Captures, Look(r, c) PROVE Fit
      BY <1>0, <3>1 DEF Look
    <3>2. CASE Upload(r)
      BY <1>0, <3>2 DEF Upload, RequestsFit, Storing, RequestState
    <3>3. CASE File(r)
      <4>1. DOMAIN pages' = 1..(Len(pages) + 1)
        BY <3>3, <2>1 DEF File, Basics, Types
      <4>2. requests'[r].at = "dispatching" /\ requests'[r].id = Len(pages) + 1
        BY <1>0, <3>3 DEF File, RequestState
      <4> QED
        BY <2>1, <4>1, <4>2
    <3>4. ASSUME NEW created \in BOOLEAN, NEW heard \in BOOLEAN, Dispatch(r, created, heard)
          PROVE  Fit
      BY <1>0, <2>1, <3>4 DEF Dispatch, Quiet, Undispatched, RequestState, RequestsFit, Filed
    <3>5. CASE MarkUndispatched(r) \/ LoseRequest(r)
      <4>1. requests' = [requests EXCEPT ![r] = Quiet]
        BY <3>5 DEF MarkUndispatched, LoseRequest
      <4> QED
        BY <1>0, <4>1 DEF Quiet
    <3> QED
      BY <1>1, <3>1, <3>2, <3>3, <3>4, <3>5 DEF Request
  <2> QED
    BY <1>0, <1>1, <2>1, <2>2, RequestMoves DEF RequestsFit, Storing, Filed
<1>2. CASE Working
  BY <1>0, <1>2, WorkingKeeps DEF RequestsFit, Storing, Filed, SamePages
<1>3. CASE UNCHANGED vars
  BY <1>0, <1>3 DEF vars, site, RequestsFit, Storing, Filed
<1> QED
  BY <1>1, <1>2, <1>3 DEF Next, Working

LEMMA BasicsInit == Init => Basics
<1> SUFFICES ASSUME Init PROVE Basics
  OBVIOUS
<1>1. Len(pages) = 0 /\ \A r \in Readers : requests[r].at = "idle"
  BY DEF Init, Quiet
<1>2. Storing = {}
  BY <1>1 DEF Storing
<1>3. Fits
  BY <1>1, <1>2, FS_EmptySet, BoundsAssumption DEF Fits
<1>4. CallsFit
  BY NobodysNames DEF Init, CallsFit
<1>5. RequestsFit
  BY <1>1, <1>2 DEF RequestsFit, Filed
<1> QED
  BY <1>3, <1>4, <1>5, TypesInit DEF Basics

LEMMA BasicsStep == Basics /\ [Next]_vars => Basics'
BY TypesStep, FitsStep, CallsFitStep, RequestsFitStep DEF Basics

(***************************************************************************)
(* Archives fit their pages: those about to be filed do already.             *)
(***************************************************************************)
FilesFit ==
  \A r \in Readers : requests[r].at = "filing" =>
    /\ requests[r].id \in DOMAIN archives
    /\ archives[requests[r].id] = Bytes[requests[r].capture]

ArchivesInv == ArchivesFitPages /\ FilesFit

\* A step that leaves the archives alone, and forgets no request about to file.
LEMMA NothingFiled ==
  ASSUME ArchivesInv, archives' = archives, SamePages, dropped \subseteq dropped',
         \A r \in Readers :
           \/ requests'[r] = requests[r]
           \/ /\ requests'[r].at # "filing"
              /\ requests[r].at = "filing" => requests[r].id \in dropped'
  PROVE  ArchivesInv'
<1>1. /\ \A p \in DOMAIN pages' :
           pages'[p].archive \in DOMAIN archives'
           /\ archives'[pages'[p].archive] = Bytes[pages'[p].capture]
      /\ FilesFit'
  BY DEF ArchivesInv, ArchivesFitPages, FilesFit, SamePages
<1>2. ASSUME NEW k \in DOMAIN archives'
      PROVE  \/ k \in dropped'
             \/ \E p \in DOMAIN pages' : pages'[p].archive = k
             \/ \E r \in Readers : requests'[r].at = "filing" /\ requests'[r].id = k
  <2>1. CASE k \in dropped
    BY <2>1
  <2>2. CASE \E p \in DOMAIN pages : pages[p].archive = k
    BY <2>2 DEF SamePages
  <2>3. CASE \E r \in Readers : requests[r].at = "filing" /\ requests[r].id = k
    BY <2>3
  <2> QED
    BY <1>2, <2>1, <2>2, <2>3 DEF ArchivesInv, ArchivesFitPages
<1> QED
  BY <1>1, <1>2 DEF ArchivesInv, ArchivesFitPages

LEMMA ArchivesStep == Basics /\ ArchivesInv /\ [Next]_vars => ArchivesInv'
<1> SUFFICES ASSUME Basics, ArchivesInv, [Next]_vars PROVE ArchivesInv'
  OBVIOUS
<1>0. requests \in [Readers -> RequestState] /\ Len(pages) \in Nat /\ DOMAIN pages = 1..Len(pages)
  BY PagesAreIds DEF Basics, Types
<1>1. ASSUME NEW r \in Readers, NEW c \in Captures, Look(r, c) PROVE ArchivesInv'
  <2>1. /\ archives' = archives /\ pages' = pages /\ dropped' = dropped
        /\ requests[r].at = "idle"
    BY <1>1, NobodysNames DEF Look
  <2>2. requests'[r].at = "filing" =>
          /\ requests'[r].id \in DOMAIN archives
          /\ archives[requests'[r].id] = Bytes[requests'[r].capture]
    <3>1. CASE requests' = [requests EXCEPT ![r] = [at |-> "uploading", capture |-> c, id |-> 0]]
      BY <1>0, <3>1
    <3>2. ASSUME NEW p \in SameBytes(c),
                 requests' = [requests EXCEPT
                                ![r] = [at |-> "filing", capture |-> c, id |-> pages[p].archive]]
          PROVE  <2>2
      BY <1>0, <3>2 DEF SameBytes, ArchivesInv, ArchivesFitPages
    <3> QED
      BY <1>1, <3>1, <3>2 DEF Look
  <2>3. \A s \in Readers : s # r => requests'[s] = requests[s]
    BY <1>1, RequestMoves DEF Request
  <2>4. FilesFit'
    BY <2>1, <2>2, <2>3 DEF ArchivesInv, FilesFit
  <2> QED
    BY <2>1, <2>3, <2>4 DEF ArchivesInv, ArchivesFitPages
<1>2. ASSUME NEW r \in Readers, Upload(r) PROVE ArchivesInv'
  <2>1. /\ requests'[r].at = "filing" /\ requests'[r].id = Len(archives) + 1
        /\ requests'[r].capture = requests[r].capture
    BY <1>0, <1>2 DEF Upload, RequestState
  <2>2. /\ Len(archives) \in Nat /\ DOMAIN archives = 1..Len(archives)
        /\ DOMAIN archives' = 1..(Len(archives) + 1)
        /\ \A k \in DOMAIN archives : archives'[k] = archives[k]
        /\ archives'[Len(archives) + 1] = Bytes[requests[r].capture]
    BY <1>2 DEF Upload, Basics, Types
  <2>3. \A s \in Readers : s # r => requests'[s] = requests[s]
    BY <1>2, RequestMoves DEF Request
  <2>4. pages' = pages /\ dropped' = dropped /\ requests[r].at = "uploading"
    BY <1>2 DEF Upload
  <2>5. FilesFit'
    BY <2>1, <2>2, <2>3 DEF ArchivesInv, FilesFit
  <2>6. \A p \in DOMAIN pages' :
          pages'[p].archive \in DOMAIN archives'
          /\ archives'[pages'[p].archive] = Bytes[pages'[p].capture]
    BY <2>2, <2>4 DEF ArchivesInv, ArchivesFitPages
  <2>7. ASSUME NEW k \in DOMAIN archives'
        PROVE  \/ k \in dropped'
               \/ \E p \in DOMAIN pages' : pages'[p].archive = k
               \/ \E s \in Readers : requests'[s].at = "filing" /\ requests'[s].id = k
    <3>1. k \in DOMAIN archives \/ k = Len(archives) + 1
      BY <2>2, <2>7
    <3> QED
      BY <2>1, <2>3, <2>4, <3>1 DEF ArchivesInv, ArchivesFitPages
  <2> QED
    BY <2>5, <2>6, <2>7 DEF ArchivesInv, ArchivesFitPages
<1>3. ASSUME NEW r \in Readers, File(r) PROVE ArchivesInv'
  <2> DEFINE page == [capture |-> requests[r].capture, archive |-> requests[r].id,
                      status |-> "stored", told |-> FALSE]
  <2>1. /\ pages' = Append(pages, page) /\ requests[r].at = "filing"
        /\ archives' = archives /\ dropped' = dropped
    BY <1>3 DEF File, StoragePath
  <2>2. page.capture = requests[r].capture /\ page.archive = requests[r].id
    OBVIOUS
  <2> HIDE DEF page
  <2>3. /\ DOMAIN pages' = 1..(Len(pages) + 1)
        /\ \A p \in DOMAIN pages : pages'[p] = pages[p]
        /\ pages'[Len(pages) + 1] = page
    BY <1>0, <2>1 DEF Basics, Types
  <2>4. requests'[r].at = "dispatching"
    BY <1>0, <1>3 DEF File
  <2>5. \A s \in Readers : s # r => requests'[s] = requests[s]
    BY <1>3, RequestMoves DEF Request
  <2>6. FilesFit'
    BY <2>1, <2>4, <2>5 DEF ArchivesInv, FilesFit
  <2>7. ASSUME NEW p \in DOMAIN pages'
        PROVE  /\ pages'[p].archive \in DOMAIN archives'
               /\ archives'[pages'[p].archive] = Bytes[pages'[p].capture]
    <3>1. p \in DOMAIN pages \/ p = Len(pages) + 1
      BY <1>0, <2>3, <2>7
    <3> QED
      BY <2>1, <2>2, <2>3, <3>1 DEF ArchivesInv, ArchivesFitPages, FilesFit
  <2>8. DOMAIN pages \subseteq DOMAIN pages' /\ Len(pages) + 1 \in DOMAIN pages'
    BY <1>0, <2>3
  <2>9. ASSUME NEW k \in DOMAIN archives'
        PROVE  \/ k \in dropped'
               \/ \E p \in DOMAIN pages' : pages'[p].archive = k
               \/ \E s \in Readers : requests'[s].at = "filing" /\ requests'[s].id = k
    BY <2>1, <2>2, <2>3, <2>5, <2>8 DEF ArchivesInv, ArchivesFitPages
  <2> QED
    BY <2>6, <2>7, <2>9 DEF ArchivesInv, ArchivesFitPages
<1>4. ASSUME NEW r \in Readers, NEW created \in BOOLEAN, NEW heard \in BOOLEAN,
             Dispatch(r, created, heard) PROVE ArchivesInv'
  <2>1. requests'[r].at # "filing" /\ requests[r].at # "filing"
    BY <1>0, <1>4, NobodysNames DEF Dispatch, Undispatched, RequestState
  <2>2. archives' = archives /\ SamePages /\ dropped' = dropped
    BY <1>4 DEF Dispatch, SamePages
  <2> QED
    BY <1>4, <2>1, <2>2, RequestMoves, NothingFiled DEF Request
<1>5. ASSUME NEW r \in Readers, MarkUndispatched(r) \/ LoseRequest(r) PROVE ArchivesInv'
  <2>1. requests' = [requests EXCEPT ![r] = Quiet]
    BY <1>5 DEF MarkUndispatched, LoseRequest
  <2>2. requests'[r].at # "filing"
    BY <1>0, <2>1, NobodysNames
  <2>3. archives' = archives /\ SamePages
    BY <1>5, MarkKeeps DEF MarkUndispatched, LoseRequest, SamePages
  <2>4. dropped \subseteq dropped' /\ (requests[r].at = "filing" => requests[r].id \in dropped')
    BY <1>5 DEF MarkUndispatched, LoseRequest
  <2> QED
    BY <1>5, <2>2, <2>3, <2>4, RequestMoves, NothingFiled DEF Request
<1>6. CASE Working
  BY <1>6, WorkingKeeps, NothingFiled
<1>7. CASE UNCHANGED vars
  BY <1>7, NothingFiled DEF vars, site, SamePages
<1> QED
  BY <1>1, <1>2, <1>3, <1>4, <1>5, <1>6, <1>7 DEF Next, Request, Working

\* Each page's archive holds what was captured, and no archive is left that no page,
\* request or lost request accounts for: the handler of POST /api/ingest/page, for
\* any number of requests at a time.
THEOREM ArchivesFit == Spec => []ArchivesFitPages
<1>1. Init => ArchivesInv
  BY NobodysNames DEF Init, ArchivesInv, ArchivesFitPages, FilesFit
<1>2. (Basics /\ ArchivesInv) /\ [Next]_vars => (Basics /\ ArchivesInv)'
  BY BasicsStep, ArchivesStep
<1>3. ArchivesInv => ArchivesFitPages
  BY DEF ArchivesInv
<1> QED
  BY <1>1, <1>2, <1>3, BasicsInit, PTL DEF Spec

(***************************************************************************)
(* Nobody waits for nothing.                                                 *)
(***************************************************************************)
Waits(p) == pages[p].status \in {"stored", "extracting"}
WorkedOn(p) ==
  \/ p \in lost
  \/ tasks[p] # Gone
  \/ \E a \in Attempts : attempts[a].page = p
  \/ \E r \in Readers : Filed(r) /\ requests[r].id = p

LEMMA WaitingSaysSo ==
  NobodyWaitsForNothing <=> \A p \in DOMAIN pages : Waits(p) => WorkedOn(p)
BY DEF NobodyWaitsForNothing, Waits, WorkedOn, Filed

\* What each report leaves of those who wait.
LEMMA LastReportLeaves ==
  ASSUME Basics, NEW p \in DOMAIN pages, NEW status \in {"done", "error"}, NEW told \in BOOLEAN,
         NEW landed \in BOOLEAN, LastReport(p, status, told, landed)
  PROVE  /\ Waits(p)' => WorkedOn(p)'
         /\ \A q \in DOMAIN pages : q # p => Waits(q)' = Waits(q)
         /\ lost \subseteq lost'
<1>1. SamePages /\ \A q \in DOMAIN pages :
        pages'[q].status = IF landed /\ q = p THEN status ELSE pages[q].status
  BY ReportKeeps DEF LastReport, Statuses
<1>2. lost' = IF ~landed /\ tasks'[p] = Gone THEN lost \cup {p} ELSE lost
  BY DEF LastReport, Loses
<1> QED
  BY <1>1, <1>2 DEF Waits, WorkedOn

LEMMA WaitingStep ==
  Basics /\ NobodyWaitsForNothing /\ [Next]_vars => NobodyWaitsForNothing'
<1> SUFFICES ASSUME Basics, NobodyWaitsForNothing, [Next]_vars,
                    NEW p \in DOMAIN pages', Waits(p)'
             PROVE  WorkedOn(p)'
  BY WaitingSaysSo DEF NobodyWaitsForNothing, Waits, WorkedOn, Filed
<1>0. /\ DOMAIN pages \subseteq Ids /\ Len(pages) \in Nat /\ DOMAIN pages = 1..Len(pages)
      /\ requests \in [Readers -> RequestState]
      /\ \A q \in DOMAIN pages : Waits(q) => WorkedOn(q)
  BY PagesAreIds, WaitingSaysSo DEF Basics, Types
<1>1. ASSUME NEW r \in Readers, (\E c \in Captures : Look(r, c)) \/ Upload(r)
      PROVE  WorkedOn(p)'
  <2>1. ~Filed(r) /\ pages' = pages /\ tasks' = tasks /\ attempts' = attempts /\ lost' = lost
    BY <1>1, NobodysNames DEF Look, Upload, Filed
  <2>2. Request(r)
    BY <1>1 DEF Request
  <2> QED
    BY <1>0, <2>1, <2>2, RequestMoves DEF Waits, WorkedOn, Filed
<1>2. ASSUME NEW r \in Readers, File(r) PROVE WorkedOn(p)'
  <2>1. DOMAIN pages' = 1..(Len(pages) + 1) /\ \A q \in DOMAIN pages : pages'[q] = pages[q]
    BY <1>2, <1>0 DEF File, Basics, Types
  <2>2. requests'[r].at = "dispatching" /\ requests'[r].id = Len(pages) + 1
    BY <1>0, <1>2 DEF File, RequestState
  <2>3. CASE p = Len(pages) + 1
    BY <2>2, <2>3 DEF WorkedOn, Filed
  <2>4. CASE p # Len(pages) + 1
    <3>1. p \in DOMAIN pages /\ Waits(p)
      BY <1>0, <2>1, <2>4 DEF Waits
    <3>2. ~Filed(r) /\ tasks' = tasks /\ attempts' = attempts /\ lost' = lost
      BY <1>2 DEF File, Filed
    <3> QED
      BY <1>0, <1>2, <3>1, <3>2, RequestMoves DEF WorkedOn, Filed, Request
  <2> QED
    BY <2>3, <2>4
<1>3. ASSUME NEW r \in Readers, NEW created \in BOOLEAN, NEW heard \in BOOLEAN,
             Dispatch(r, created, heard) PROVE WorkedOn(p)'
  <2>1. pages' = pages /\ attempts' = attempts /\ lost' = lost
    BY <1>3 DEF Dispatch
  <2>2. tasks \in [Ids -> Task] /\ requests[r].id \in Ids
    BY <1>0, <1>3 DEF Dispatch, Basics, Types, RequestsFit, Filed
  <2>3. tasks'[p] # tasks[p] => p = requests[r].id /\ tasks'[p].by = "queue"
    BY <1>3, <2>2 DEF Dispatch
  <2>4. tasks'[p] # Gone \/ tasks'[p] = tasks[p]
    BY <2>3, NobodysNames
  <2>5. CASE p = requests[r].id /\ heard
    <3>1. tasks'[p].by = "queue"
      BY <1>3, <2>2, <2>5 DEF Dispatch
    <3> QED
      BY <3>1, NobodysNames DEF WorkedOn
  <2>6. CASE p = requests[r].id /\ ~heard
    <3>1. requests'[r] = [requests[r] EXCEPT !.at = "undispatched"]
      BY <1>0, <1>3, <2>6 DEF Dispatch, Undispatched
    <3>2. requests'[r].at = "undispatched" /\ requests'[r].id = p
      BY <1>0, <2>6, <3>1 DEF RequestState
    <3> QED
      BY <3>2 DEF WorkedOn, Filed
  <2>7. CASE p # requests[r].id
    BY <1>0, <1>3, <2>1, <2>4, <2>7, RequestMoves DEF WorkedOn, Waits, Filed, Request
  <2> QED
    BY <2>5, <2>6, <2>7
<1>4. ASSUME NEW r \in Readers, LoseRequest(r) PROVE WorkedOn(p)'
  <2>1. pages' = pages /\ attempts' = attempts /\ tasks' = tasks
    BY <1>4 DEF LoseRequest
  <2>2. lost' = IF Filed(r) /\ tasks'[requests[r].id] = Gone THEN lost \cup {requests[r].id} ELSE lost
    BY <1>4 DEF LoseRequest, Loses, Filed
  <2> QED
    BY <1>0, <1>4, <2>1, <2>2, RequestMoves DEF WorkedOn, Waits, Filed, Request
<1>5. ASSUME NEW r \in Readers, MarkUndispatched(r) PROVE WorkedOn(p)'
  <2>1. attempts' = attempts /\ tasks' = tasks /\ lost' = lost
    BY <1>5 DEF MarkUndispatched
  <2>2. p \in DOMAIN pages /\ p # requests[r].id /\ Waits(p)
    BY <1>5, MarkKeeps DEF SamePages, Waits
  <2> QED
    BY <1>0, <1>5, <2>1, <2>2, RequestMoves DEF WorkedOn, Filed, Request
<1>6. CASE Working
  <2>0. requests' = requests /\ p \in DOMAIN pages /\ p \in Ids /\ p # 0
    BY <1>0, <1>6, WorkingKeeps DEF SamePages
  <2>1. ASSUME NEW a \in Attempts, NEW landed \in BOOLEAN,
               Unreadable(a, landed) \/ Finish(a, landed) \/ ReportFailure(a, landed)
        PROVE  WorkedOn(p)'
    <3>1. PICK status \in {"done", "error"}, told \in BOOLEAN :
            LastReport(attempts[a].page, status, told, landed)
      BY <2>1, LastReports
    <3>2. CASE p = attempts[a].page
      BY <2>0, <3>1, <3>2, LastReportLeaves
    <3>3. CASE p # attempts[a].page
      <4>1. Waits(p) /\ lost \subseteq lost'
        BY <2>0, <2>1, <3>1, <3>3, LastReports, CallsPage, LastReportLeaves
      <4>2. tasks'[p] = tasks[p] /\ \A b \in Attempts : attempts[b].page = p => attempts'[b] = attempts[b]
        BY <2>0, <2>1, <3>3, Ending, RespondEffect
      <4> QED
        BY <1>0, <2>0, <4>1, <4>2 DEF WorkedOn, Filed
    <3> QED
      BY <3>2, <3>3
  <2>2. ASSUME NEW a \in Attempts, Kill(a) PROVE WorkedOn(p)'
    <3>1. Waits(p) /\ lost' = IF tasks'[attempts[a].page] = Gone THEN lost \cup {attempts[a].page} ELSE lost
      BY <2>2 DEF Kill, Loses, site, Waits
    <3>2. \/ p = attempts[a].page
          \/ /\ tasks'[p] = tasks[p]
             /\ \A b \in Attempts : attempts[b].page = p => attempts'[b] = attempts[b]
      BY <2>0, <2>2, Ending, RespondEffect
    <3> QED
      BY <1>0, <2>0, <3>1, <3>2 DEF WorkedOn, Filed
  <2>3. ASSUME NEW q \in Ids, NEW a \in Attempts, NEW landed \in BOOLEAN, Deliver(q, a, landed)
        PROVE  WorkedOn(p)'
    <3>1. CASE p = q
      BY <2>3, <3>1, Delivered DEF WorkedOn
    <3>2. CASE p # q
      <4>1. q \in DOMAIN pages /\ pages[q] \in Page
        BY <2>3, TaskedPage DEF Deliver, Called
      <4>2. Waits(p)
        BY <2>0, <2>3, <3>2, <4>1, ReportKeeps DEF Deliver, Waits, Statuses, Page
      <4>3. lost' = lost
        BY <2>3 DEF Deliver
      <4> QED
        BY <1>0, <2>0, <2>3, <3>2, <4>2, <4>3, Delivered, NobodysNames DEF WorkedOn, Filed
    <3> QED
      BY <3>1, <3>2
  <2>4. ASSUME NEW q \in Ids, NEW landed \in BOOLEAN, Misconfigured(q, landed) PROVE WorkedOn(p)'
    <3>1. q \in DOMAIN pages /\ pages[q] \in Page
      BY <2>4, TaskedPage DEF Misconfigured, Called
    <3>2. LastReport(q, "error", pages[q].told, landed) /\ pages[q].told \in BOOLEAN
      BY <2>4, <3>1 DEF Misconfigured, Page
    <3>3. CASE p = q
      BY <2>0, <3>1, <3>2, <3>3, LastReportLeaves
    <3>4. CASE p # q
      <4>1. Waits(p) /\ lost \subseteq lost'
        BY <2>0, <3>1, <3>2, <3>4, LastReportLeaves
      <4> QED
        BY <1>0, <2>0, <2>4, <3>4, <4>1, GivenUp DEF WorkedOn, Filed
    <3> QED
      BY <3>3, <3>4
  <2>5. ASSUME NEW q \in Ids, Overdue(q) PROVE WorkedOn(p)'
    <3>1. Waits(p) /\ lost' = lost
      BY <2>5 DEF Overdue, site, Waits
    <3>2. attempts[tasks[q].by].page = q /\ tasks[q].by \in Attempts
      BY <2>5 DEF Overdue, Basics, CallsFit
    <3> QED
      BY <1>0, <2>0, <2>5, <3>1, <3>2, GivenUp DEF WorkedOn, Filed
  <2>6. ASSUME NEW a \in Attempts,
               \/ Raise(a)
               \/ \E reached, found \in BOOLEAN : Register(a, reached, found)
               \/ \E stores, heard \in BOOLEAN : Submit(a, stores, heard)
        PROVE  WorkedOn(p)'
    <3>1. lost' = lost
      BY <2>6 DEF Raise, Register, Submit
    <3> QED
      BY <1>0, <2>0, <2>6, <3>1, GoesOn DEF WorkedOn, Waits, Filed
  <2> QED
    BY <1>6, <2>1, <2>2, <2>3, <2>4, <2>5, <2>6 DEF Working, Attempt
<1>7. CASE UNCHANGED vars
  BY <1>0, <1>7 DEF vars, site, WorkedOn, Waits, Filed
<1> QED
  BY <1>1, <1>2, <1>3, <1>4, <1>5, <1>6, <1>7 DEF Next, Request, Working

\* A page that is neither done nor failed has a request, a task or a call at work on
\* it, or lost one when none was left: for any numbers of requests, calls, attempts
\* and faults.
THEOREM NobodyWaits == Spec => []NobodyWaitsForNothing
<1>1. Init => NobodyWaitsForNothing
  BY DEF Init, NobodyWaitsForNothing
<1>2. (Basics /\ NobodyWaitsForNothing) /\ [Next]_vars => (Basics /\ NobodyWaitsForNothing)'
  BY BasicsStep, WaitingStep
<1> QED
  BY <1>1, <1>2, BasicsInit, PTL DEF Spec

(***************************************************************************)
(* Facts stored again have a cause.  What a page may still be sent - by calls  *)
(* the queue gave up, and by its task unless the call it waits for has stored   *)
(* its facts - is counted with what it was sent.                               *)
(***************************************************************************)
Stray(p) == {a \in Attempts : /\ attempts[a].page = p /\ tasks[p].by # a
                              /\ attempts[a].at \in {"extracting", "registered"}}
Stored(a) == attempts[a].at = "submitted" /\ attempts[a].stored
Live(p) == IF tasks[p] = Gone \/ \E a \in Attempts : tasks[p].by = a /\ Stored(a) THEN 0 ELSE 1

Counted(p) == copies[p] + Cardinality(Stray(p)) + Live(p) <= 1 + slips[p]

\* Pages without a task have never been sent anything.
Untouched(p) == tasks[p] = Gone /\ copies[p] = 0 /\ \A a \in Attempts : attempts[a].page # p
Dispatching(r) == requests[r].at = "dispatching"
Fresh ==
  /\ \A p \in Ids : p \notin DOMAIN pages => Untouched(p)
  /\ \A r \in Readers : Dispatching(r) => Untouched(requests[r].id)
  /\ \A r, s \in Readers : Dispatching(r) /\ Dispatching(s) /\ r # s => requests[r].id # requests[s].id

\* Work is only done where there is a task or a call.
LEMMA WorkTouches ==
  ASSUME Basics, Working, NEW p \in Ids, Untouched(p)
  PROVE  Untouched(p)'
<1> USE NobodysNames
<1>0. tasks[p].by = "nobody" /\ p # 0
  BY DEF Untouched, Ids
<1>1. ASSUME NEW a \in Attempts, NEW landed \in BOOLEAN,
             Unreadable(a, landed) \/ Finish(a, landed) \/ ReportFailure(a, landed) \/ Kill(a)
      PROVE  Untouched(p)'
  <2>1. copies' = copies
    BY <1>1 DEF Unreadable, Finish, ReportFailure, Kill
  <2> QED
    BY <1>0, <1>1, <2>1, Ending, RespondEffect DEF Untouched
<1>2. ASSUME NEW q \in Ids, NEW a \in Attempts, NEW landed \in BOOLEAN, Deliver(q, a, landed)
      PROVE  Untouched(p)'
  <2>1. copies' = copies
    BY <1>2 DEF Deliver
  <2> QED
    BY <1>0, <1>2, <2>1, Delivered DEF Untouched
<1>3. ASSUME NEW q \in Ids, Overdue(q) \/ \E landed \in BOOLEAN : Misconfigured(q, landed)
      PROVE  Untouched(p)'
  <2>1. copies' = copies
    BY <1>3 DEF Overdue, Misconfigured
  <2> QED
    BY <1>0, <1>3, <2>1, GivenUp DEF Untouched
<1>4. ASSUME NEW a \in Attempts,
             \/ Raise(a)
             \/ \E reached, found \in BOOLEAN : Register(a, reached, found)
             \/ \E stores, heard \in BOOLEAN : Submit(a, stores, heard)
      PROVE  Untouched(p)'
  <2>1. copies' = copies \/ copies' = [copies EXCEPT ![attempts[a].page] = copies[attempts[a].page] + 1]
    BY <1>4 DEF Raise, Register, Submit
  <2>2. copies'[p] = copies[p]
    BY <1>4, <2>1 DEF Untouched, Basics, Types
  <2> QED
    BY <1>4, <2>2, GoesOn DEF Untouched
<1> QED
  BY <1>1, <1>2, <1>3, <1>4 DEF Working, Attempt

LEMMA FreshStep == Basics /\ Fresh /\ [Next]_vars => Fresh'
<1> SUFFICES ASSUME Basics, Fresh, [Next]_vars PROVE Fresh'
  OBVIOUS
<1>0. requests \in [Readers -> RequestState] /\ tasks \in [Ids -> Task]
  BY DEF Basics, Types
<1>1. \A r \in Readers : Dispatching(r) => requests[r].id \in DOMAIN pages /\ requests[r].id \in Ids
  BY PagesAreIds DEF Basics, RequestsFit, Filed, Dispatching
<1>2. ASSUME NEW r \in Readers, (\E c \in Captures : Look(r, c)) \/ Upload(r) \/ MarkUndispatched(r)
                                  \/ LoseRequest(r)
      PROVE  Fresh'
  <2>1. tasks' = tasks /\ copies' = copies /\ attempts' = attempts
    BY <1>2 DEF Look, Upload, MarkUndispatched, LoseRequest
  <2>2. Request(r) /\ DOMAIN pages \subseteq DOMAIN pages'
    BY <1>2, AskingKeeps DEF Request, Asking
  <2>3. ~Dispatching(r)'
    <3>1. CASE \E c \in Captures : Look(r, c)
      BY <1>0, <3>1 DEF Look, Dispatching
    <3>2. CASE Upload(r)
      BY <1>0, <3>2 DEF Upload, Dispatching, RequestState
    <3>3. CASE MarkUndispatched(r) \/ LoseRequest(r)
      <4>1. requests' = [requests EXCEPT ![r] = Quiet]
        BY <3>3 DEF MarkUndispatched, LoseRequest
      <4> QED
        BY <1>0, <4>1 DEF Dispatching, Quiet
    <3> QED
      BY <1>2, <3>1, <3>2, <3>3
  <2> QED
    BY <2>1, <2>2, <2>3, RequestMoves DEF Fresh, Untouched, Dispatching
<1>3. ASSUME NEW r \in Readers, File(r) PROVE Fresh'
  <2>1. tasks' = tasks /\ copies' = copies /\ attempts' = attempts
    BY <1>3 DEF File
  <2>2. Len(pages) \in Nat /\ DOMAIN pages = 1..Len(pages) /\ DOMAIN pages' = 1..(Len(pages) + 1)
    BY <1>3, PagesAreIds DEF File, Basics, Types
  <2>3. Cardinality(Storing) # 0
    BY <1>3, StoringIsFinite, FS_EmptySet DEF File, Storing
  <2>4. Len(pages) + 1 \in Ids /\ Len(pages) + 1 \notin DOMAIN pages
    BY <2>2, <2>3, StoringIsFinite, BoundsAssumption DEF Basics, Fits, Ids
  <2>5. requests'[r].id = Len(pages) + 1 /\ \A s \in Readers : s # r => requests'[s] = requests[s]
    BY <1>0, <1>3, RequestMoves DEF File, RequestState, Request
  <2>6. DOMAIN pages \subseteq DOMAIN pages'
    BY <2>2
  <2> QED
    BY <1>1, <2>1, <2>4, <2>5, <2>6 DEF Fresh, Untouched, Dispatching
<1>4. ASSUME NEW r \in Readers, NEW created \in BOOLEAN, NEW heard \in BOOLEAN,
             Dispatch(r, created, heard) PROVE Fresh'
  <2>1. copies' = copies /\ attempts' = attempts /\ pages' = pages /\ Dispatching(r)
    BY <1>4 DEF Dispatch, Dispatching
  <2>2. \A q \in Ids : q # requests[r].id => tasks'[q] = tasks[q]
    BY <1>0, <1>4 DEF Dispatch
  <2>3. ~Dispatching(r)' /\ \A s \in Readers : s # r => requests'[s] = requests[s]
    <3>1. requests'[r] \in {Quiet, Undispatched(r)}
      BY <1>0, <1>4 DEF Dispatch
    <3>2. Quiet.at # "dispatching" /\ Undispatched(r).at # "dispatching"
      BY <1>0 DEF Quiet, Undispatched, RequestState
    <3> QED
      BY <1>4, <3>1, <3>2, RequestMoves DEF Request, Dispatching
  <2>4. \A q \in Ids : q # requests[r].id /\ Untouched(q) => Untouched(q)'
    BY <2>1, <2>2 DEF Untouched
  <2> QED
    BY <1>1, <2>1, <2>3, <2>4 DEF Fresh, Dispatching
<1>5. CASE Working
  BY <1>1, <1>5, WorkTouches, WorkingKeeps DEF Fresh, Dispatching, SamePages
<1>6. CASE UNCHANGED vars
  BY <1>6 DEF vars, site, Fresh, Untouched, Dispatching
<1> QED
  BY <1>2, <1>3, <1>4, <1>5, <1>6 DEF Next, Request, Working

LEMMA StrayIsFinite ==
  ASSUME NEW p
  PROVE  /\ IsFiniteSet(Stray(p)) /\ Cardinality(Stray(p)) \in Nat
         /\ IsFiniteSet(Stray(p)') /\ Cardinality(Stray(p)') \in Nat
         /\ Live(p) \in {0, 1} /\ Live(p)' \in {0, 1}
<1>1. Stray(p) \subseteq Attempts /\ Stray(p)' \subseteq Attempts
  BY DEF Stray
<1> QED
  BY <1>1, FS_Subset, FS_CardinalityType, FiniteAssumption DEF Live

\* A step after which a page has no more stray calls, counted by what else it does.
LEMMA NoMoreStrays ==
  ASSUME Basics, NEW p \in Ids, Counted(p), Stray(p)' \subseteq Stray(p),
         copies' \in [Ids -> Nat], slips' \in [Ids -> Nat],
         copies'[p] + Live(p)' + slips[p] <= copies[p] + Live(p) + slips'[p]
  PROVE  Counted(p)'
<1>1. Cardinality(Stray(p)') <= Cardinality(Stray(p))
  BY StrayIsFinite, FS_Subset
<1>2. copies[p] \in Nat /\ slips[p] \in Nat /\ copies'[p] \in Nat /\ slips'[p] \in Nat
  BY DEF Basics, Types
<1> QED
  BY <1>1, <1>2, StrayIsFinite DEF Counted

\* The end of a call of a page.
LEMMA EndCounts ==
  ASSUME Basics, NEW a \in Attempts, attempts[a].at # "idle", NEW good \in BOOLEAN,
         Respond(a, good), NEW p \in Ids, Counted(p)
  PROVE  /\ Stray(p)' \subseteq Stray(p)
         /\ attempts[a].page # p \/ good \/ ~Stored(a) => Live(p)' <= Live(p)
<1> USE NobodysNames
<1>1. /\ \A b \in Attempts : attempts'[b] = IF b = a THEN Resting ELSE attempts[b]
      /\ \A q \in Ids : IF q = attempts[a].page /\ tasks[q].by = a
                        THEN tasks'[q] = Gone \/ (~good /\ tasks'[q].by = "queue")
                        ELSE tasks'[q] = tasks[q]
  BY RespondEffect
<1>2. Stray(p)' \subseteq Stray(p)
  BY <1>1 DEF Stray, Ids
<1>3. CASE p = attempts[a].page /\ tasks[p].by = a
  <2>1. tasks[p] # Gone
    BY <1>3
  <2>2. CASE good
    BY <1>1, <1>2, <1>3, <2>2, StrayIsFinite DEF Live
  <2>3. CASE ~good /\ ~Stored(a)
    <3>1. Live(p) = 1
      BY <1>3, <2>1, <2>3 DEF Live
    <3> QED
      BY <1>2, <3>1, StrayIsFinite
  <2> QED
    BY <1>2, <1>3, <2>2, <2>3
<1>4. CASE ~(p = attempts[a].page /\ tasks[p].by = a)
  <2>1. tasks'[p] = tasks[p]
    BY <1>1, <1>4
  <2>2. tasks[p].by # a
    BY <1>4 DEF Basics, CallsFit
  <2>3. Live(p)' = Live(p)
    BY <1>1, <2>1, <2>2 DEF Live, Stored
  <2> QED
    BY <1>2, <2>3, StrayIsFinite
<1> QED
  BY <1>3, <1>4

LEMMA CountedStep ==
  ASSUME Basics, Fresh, [Next]_vars, NEW p \in Ids, Counted(p)
  PROVE  Counted(p)'
<1> USE NobodysNames
<1>0. /\ copies \in [Ids -> Nat] /\ slips \in [Ids -> Nat] /\ tasks \in [Ids -> Task]
      /\ copies' \in [Ids -> Nat] /\ slips' \in [Ids -> Nat]
      /\ copies[p] \in Nat /\ slips[p] \in Nat /\ copies'[p] \in Nat /\ slips'[p] \in Nat
      /\ Live(p) \in {0, 1} /\ Live(p)' \in {0, 1}
  BY TypesStep, StrayIsFinite DEF Basics, Types
<1>1. CASE Asking
  <2>1. attempts' = attempts /\ copies' = copies /\ slips' = slips
    BY <1>1, AskingKeeps
  <2>2. CASE tasks'[p] = tasks[p]
    <3>1. Stray(p)' = Stray(p) /\ Live(p)' = Live(p)
      BY <2>1, <2>2 DEF Stray, Live, Stored
    <3> QED
      BY <1>0, <2>1, <3>1 DEF Counted
  <2>3. CASE tasks'[p] # tasks[p]
    <3>1. PICK r \in Readers, created \in BOOLEAN, heard \in BOOLEAN : Dispatch(r, created, heard)
      BY <1>1, <2>3 DEF Asking, Request, Look, Upload, File, MarkUndispatched, LoseRequest
    <3>2. p = requests[r].id /\ Dispatching(r)
      BY <1>0, <2>3, <3>1 DEF Dispatch, Dispatching
    <3>3. Untouched(p)
      BY <3>2 DEF Fresh
    <3>4. Stray(p)' = {}
      BY <2>1, <3>3 DEF Untouched, Stray
    <3>5. Cardinality(Stray(p)') = 0
      BY <3>4, FS_EmptySet
    <3> QED
      BY <1>0, <2>1, <3>3, <3>5 DEF Untouched, Counted
  <2> QED
    BY <2>2, <2>3
<1>2. ASSUME NEW a \in Attempts, NEW landed \in BOOLEAN,
             Unreadable(a, landed) \/ Finish(a, landed) \/ ReportFailure(a, landed)
      PROVE  Counted(p)'
  <2>1. /\ attempts[a].at # "idle" /\ copies' = copies /\ slips' = slips
        /\ \E good \in BOOLEAN : Respond(a, good) /\ (good \/ ~Stored(a))
    BY <1>2 DEF Unreadable, Finish, ReportFailure, Good, Stored
  <2>2. Stray(p)' \subseteq Stray(p) /\ Live(p)' <= Live(p)
    BY <2>1, EndCounts
  <2> QED
    BY <1>0, <2>1, <2>2, NoMoreStrays
<1>3. ASSUME NEW a \in Attempts, Kill(a) PROVE Counted(p)'
  <2>1. attempts[a].at # "idle" /\ copies' = copies /\ Respond(a, FALSE)
    BY <1>3 DEF Kill
  <2>2. /\ Stray(p)' \subseteq Stray(p)
        /\ attempts[a].page # p \/ ~Stored(a) => Live(p)' <= Live(p)
    BY <2>1, EndCounts
  <2>3. CASE attempts[a].page = p /\ attempts[a].stored
    <3>1. slips'[p] = slips[p] + 1
      BY <1>0, <1>3, <2>3 DEF Kill
    <3>2. copies'[p] + Live(p)' + slips[p] <= copies[p] + Live(p) + slips'[p]
      BY <1>0, <2>1, <3>1
    <3> QED
      BY <1>0, <2>2, <3>2, NoMoreStrays
  <2>4. CASE ~(attempts[a].page = p /\ attempts[a].stored)
    <3>1. slips'[p] = slips[p]
      BY <1>0, <1>3, <2>4 DEF Kill
    <3>2. Live(p)' <= Live(p)
      BY <2>2, <2>4 DEF Stored
    <3>3. copies'[p] + Live(p)' + slips[p] <= copies[p] + Live(p) + slips'[p]
      BY <1>0, <2>1, <3>1, <3>2
    <3> QED
      BY <1>0, <2>2, <3>3, NoMoreStrays
  <2> QED
    BY <2>3, <2>4
<1>4. ASSUME NEW q \in Ids, NEW a \in Attempts, NEW landed \in BOOLEAN, Deliver(q, a, landed)
      PROVE  Counted(p)'
  <2>1. copies' = copies /\ slips' = slips
    BY <1>4 DEF Deliver
  <2>2. \A b \in Attempts : tasks[p].by = b => attempts[b].page = p
    BY DEF Basics, CallsFit
  <2>3. attempts[a].page = 0 /\ p # 0
    BY <1>4, Delivered DEF Ids
  <2>4. Stray(p)' \subseteq Stray(p) /\ Live(p)' <= Live(p)
    <3>1. CASE p = q
      <4>1. Stray(p)' \subseteq Stray(p)
        BY <1>4, <2>3, <3>1, Delivered DEF Stray
      <4>2. Live(p) = 1
        BY <1>4, <3>1, Delivered DEF Live
      <4> QED
        BY <1>0, <4>1, <4>2
    <3>2. CASE p # q
      <4>1. Stray(p)' \subseteq Stray(p)
        BY <1>4, <2>3, <3>2, Delivered DEF Stray
      <4>2. Live(p)' = Live(p)
        BY <1>4, <2>2, <2>3, <3>2, Delivered DEF Live, Stored
      <4> QED
        BY <1>0, <4>1, <4>2
    <3> QED
      BY <3>1, <3>2
  <2> QED
    BY <1>0, <2>1, <2>4, NoMoreStrays
<1>5. ASSUME NEW q \in Ids, NEW landed \in BOOLEAN, Misconfigured(q, landed) PROVE Counted(p)'
  <2>1. copies' = copies /\ slips' = slips /\ tasks[q].by = "queue"
    BY <1>5 DEF Misconfigured, Called
  <2>2. Stray(p)' \subseteq Stray(p)
    BY <1>5, <2>1, GivenUp DEF Stray
  <2>3. Live(p)' <= Live(p)
    <3>1. CASE p = q
      <4>1. Live(p) = 1
        BY <2>1, <3>1 DEF Live
      <4> QED
        BY <1>0, <4>1
    <3>2. CASE p # q
      <4>1. Live(p)' = Live(p)
        BY <1>5, <3>2, GivenUp DEF Live, Stored
      <4> QED
        BY <1>0, <4>1
    <3> QED
      BY <3>1, <3>2
  <2> QED
    BY <1>0, <2>1, <2>2, <2>3, NoMoreStrays
<1>6. ASSUME NEW q \in Ids, Overdue(q) PROVE Counted(p)'
  <2>1. copies' = copies /\ attempts' = attempts
    BY <1>6 DEF Overdue
  <2>2. CASE p # q
    <3>1. tasks'[p] = tasks[p] /\ slips'[p] = slips[p]
      BY <1>0, <1>6, <2>2 DEF Overdue
    <3>2. Stray(p)' = Stray(p) /\ Live(p)' = Live(p)
      BY <2>1, <3>1 DEF Stray, Live, Stored
    <3> QED
      BY <1>0, <2>1, <3>1, <3>2 DEF Counted
  <2>3. CASE p = q
    <3> DEFINE b == tasks[p].by
    <3>1. b \in Attempts /\ tasks[p] # Gone /\ slips'[p] = slips[p] + 1
      BY <1>0, <1>6, <2>3 DEF Overdue
    <3>2. CASE attempts[b].at \in {"extracting", "registered"}
      <4>1. Stray(p)' \subseteq Stray(p) \cup {b}
        BY <2>1 DEF Stray
      <4>2. /\ IsFiniteSet(Stray(p) \cup {b})
            /\ Cardinality(Stray(p) \cup {b}) <= Cardinality(Stray(p)) + 1
        BY StrayIsFinite, OneMoreElement
      <4>3. Cardinality(Stray(p)') <= Cardinality(Stray(p) \cup {b})
        BY <4>1, <4>2, FS_Subset
      <4>4. Cardinality(Stray(p) \cup {b}) \in Nat
        BY <4>2, FS_CardinalityType
      <4>5. Live(p) = 1
        BY <3>1, <3>2 DEF Live, Stored
      <4> QED
        BY <1>0, <2>1, <3>1, <4>2, <4>3, <4>4, <4>5, StrayIsFinite DEF Counted
    <3>3. CASE attempts[b].at \notin {"extracting", "registered"}
      <4>1. Stray(p)' \subseteq Stray(p)
        BY <2>1, <3>3 DEF Stray
      <4>2. copies'[p] + Live(p)' + slips[p] <= copies[p] + Live(p) + slips'[p]
        BY <1>0, <2>1, <3>1
      <4> QED
        BY <1>0, <4>1, <4>2, NoMoreStrays
    <3> QED
      BY <3>2, <3>3
  <2> QED
    BY <2>2, <2>3
<1>7. ASSUME NEW a \in Attempts, Raise(a) \/ \E reached, found \in BOOLEAN : Register(a, reached, found)
      PROVE  Counted(p)'
  <2>1. copies' = copies /\ slips' = slips /\ attempts[a].at = "extracting" /\ ~Stored(a)'
    <3>1. attempts[a].at = "extracting" /\ attempts'[a].at \in {"failed", "registered"}
      BY <1>7 DEF Raise, Register, Basics, Types, CallState
    <3> QED
      BY <1>7, <3>1 DEF Raise, Register, Stored
  <2>2. Stray(p)' \subseteq Stray(p) /\ Live(p)' = Live(p)
    BY <1>7, <2>1, GoesOn DEF Stray, Live, Stored
  <2> QED
    BY <1>0, <2>1, <2>2, NoMoreStrays
<1>8. ASSUME NEW a \in Attempts, NEW stores \in BOOLEAN, NEW heard \in BOOLEAN,
             Submit(a, stores, heard)
      PROVE  Counted(p)'
  <2>0. /\ tasks' = tasks /\ attempts[a].at = "registered" /\ attempts'[a].page = attempts[a].page
        /\ \A b \in Attempts : b # a => attempts'[b] = attempts[b]
    BY <1>8, GoesOn DEF Submit
  <2>1. attempts'[a].at = (IF heard THEN "submitted" ELSE "failed") /\ attempts'[a].stored = stores
    BY <1>8 DEF Submit, Basics, Types, CallState
  <2>2. Stray(p)' \subseteq Stray(p)
    BY <2>0, <2>1 DEF Stray
  <2>3. CASE p # attempts[a].page
    <3>1. copies'[p] = copies[p] /\ slips'[p] = slips[p]
      BY <1>0, <1>8, <2>3 DEF Submit
    <3>2. tasks[p].by # a
      BY <2>3 DEF Basics, CallsFit
    <3>3. Live(p)' = Live(p)
      BY <2>0, <3>2 DEF Live, Stored
    <3> QED
      BY <1>0, <2>2, <3>1, <3>3, NoMoreStrays
  <2>4. CASE p = attempts[a].page
    <3>1. /\ copies'[p] = IF stores THEN copies[p] + 1 ELSE copies[p]
          /\ slips'[p] = IF stores /\ ~heard THEN slips[p] + 1 ELSE slips[p]
      BY <1>0, <1>8, <2>4 DEF Submit
    <3>2. CASE tasks[p].by = a
      <4>1. Live(p) = 1
        BY <2>0, <3>2 DEF Live, Stored
      <4>2. stores /\ heard => Live(p)' = 0
        BY <2>0, <2>1, <3>2 DEF Live, Stored
      <4>3. copies'[p] + Live(p)' + slips[p] <= copies[p] + Live(p) + slips'[p]
        BY <1>0, <3>1, <4>1, <4>2
      <4> QED
        BY <1>0, <2>2, <4>3, NoMoreStrays
    <3>3. CASE tasks[p].by # a
      <4>1. a \in Stray(p) /\ Stray(p)' \subseteq Stray(p) \ {a}
        BY <2>0, <2>1, <2>4, <3>3 DEF Stray
      <4>2. IsFiniteSet(Stray(p) \ {a}) /\ Cardinality(Stray(p) \ {a}) = Cardinality(Stray(p)) - 1
        BY <4>1, StrayIsFinite, FS_RemoveElement
      <4>3. Cardinality(Stray(p)') <= Cardinality(Stray(p)) - 1
        BY <4>1, <4>2, FS_Subset
      <4>4. Live(p)' = Live(p)
        BY <2>0, <3>3 DEF Live, Stored
      <4> QED
        BY <1>0, <3>1, <4>3, <4>4, StrayIsFinite DEF Counted
    <3> QED
      BY <3>2, <3>3
  <2> QED
    BY <2>3, <2>4
<1>9. CASE UNCHANGED vars
  BY <1>9 DEF vars, site, Counted, Stray, Live, Stored
<1> QED
  BY <1>1, <1>2, <1>3, <1>4, <1>5, <1>6, <1>7, <1>8, <1>9 DEF Next, Attempt, Asking

RepeatsInv == Fresh /\ \A p \in Ids : Counted(p)

\* The facts of a page are stored once, and once more only for each answer its task
\* may have missed: an answer never heard, a call the queue gave up, a call that was
\* killed after it had stored them.
THEOREM RepeatsCaused == Spec => []RepeatsHaveCause
<1>1. Init => RepeatsInv
  <2> SUFFICES ASSUME Init PROVE RepeatsInv
    OBVIOUS
  <2>1. /\ \A p \in Ids : tasks[p] = Gone /\ copies[p] = 0 /\ slips[p] = 0
        /\ \A a \in Attempts : attempts[a].page = 0
        /\ \A r \in Readers : requests[r].at = "idle"
    BY NobodysNames DEF Init
  <2>2. Fresh
    BY <2>1 DEF Fresh, Untouched, Dispatching, Ids
  <2>3. ASSUME NEW p \in Ids PROVE Counted(p)
    <3>1. Stray(p) = {} /\ Live(p) = 0
      BY <2>1 DEF Stray, Live, Ids
    <3> QED
      BY <2>1, <3>1, FS_EmptySet DEF Counted
  <2> QED
    BY <2>2, <2>3 DEF RepeatsInv
<1>2. (Basics /\ RepeatsInv) /\ [Next]_vars => (Basics /\ RepeatsInv)'
  <2>1. ASSUME Basics, RepeatsInv, [Next]_vars PROVE \A p \in Ids : Counted(p)'
    BY <2>1, CountedStep DEF RepeatsInv
  <2> QED
    BY <2>1, BasicsStep, FreshStep DEF RepeatsInv, Ids
<1>3. Basics /\ RepeatsInv => RepeatsHaveCause
  <2> SUFFICES ASSUME Basics, RepeatsInv, NEW p \in Ids PROVE copies[p] <= 1 + slips[p]
    BY DEF RepeatsHaveCause
  <2>1. copies[p] \in Nat /\ slips[p] \in Nat /\ Counted(p)
    BY DEF Basics, Types, RepeatsInv
  <2> QED
    BY <2>1, StrayIsFinite DEF Counted
<1> QED
  BY <1>1, <1>2, <1>3, BasicsInit, PTL DEF Spec
=============================================================================
