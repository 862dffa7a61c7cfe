------------------------------ MODULE EdgeStats ------------------------------
(***************************************************************************)
(* The counters a page carries about its own relations, `stats.edges`, and   *)
(* the protocol that keeps them current (functions/src/edges.ts): a trigger  *)
(* on every write of an edge marks the pages it starts at as dirty, and a    *)
(* sweep, one at a time, recomputes the marked pages and drops each marker   *)
(* unless somebody rewrote it meanwhile.  Approving a revision rewrites the  *)
(* whole page, counters included (applyRevision), and is the one writer that *)
(* does not go through the protocol.                                         *)
(***************************************************************************)
EXTENDS Integers, FiniteSets

CONSTANTS
  Nodes,            \* pages that relations start at
  Edges,            \* relations
  Starts,           \* pages a relation may start at, a function on Edges
  Target,           \* the page a relation ends at, a function on Edges
  Says,             \* what a relation can say that the counters depend on
  Approvals,        \* pages approved in this instance, while counters move
  Deletions,        \* pages a migration may delete in this instance
  Workers,          \* SWEEP_CONCURRENCY recomputes running at once
  SweepBatch,       \* SWEEP_BATCH, markers one sweep claims
  MaxDisjunctions,  \* MAX_DISJUNCTIONS, what Firestore accepts in a query
  TransitiveTypes   \* how many TRANSITIVE_EDGE_TYPES there are

ASSUME PagesAssumption ==
  /\ Starts \in [Edges -> SUBSET Nodes]
  /\ Approvals \subseteq Nodes /\ Deletions \subseteq Nodes
ASSUME BatchAssumption == SweepBatch \in Nat \ {0}
ASSUME DisjunctionsAssumption ==
  /\ MaxDisjunctions \in Nat /\ TransitiveTypes \in Nat \ {0}
  /\ TransitiveTypes <= MaxDisjunctions

VARIABLES
  edges,    \* what is stored of each relation
  pages,    \* the pages that exist
  stats,    \* `stats.edges` of each page: the relations it was computed from
  owed,     \* pages the trigger has still to mark, for writes not yet delivered
  dirty,    \* pages with a marker in `edgeStatsDirty`
  older,    \* <<m, n>>: the marker of m was written before that of n
  queue,    \* markers the running sweep claimed and no worker has taken
  intact,   \* claimed markers that nobody rewrote since
  work,     \* what each worker of the sweep is doing
  held,     \* counters an approval read and is about to write back
  lost      \* pages whose counters went stale through a hole of the code, until
            \* next read: a marker that was not written, an approval that put
            \* back counters it had read before they were recomputed

vars == <<edges, pages, stats, owed, dirty, older, queue, intact, work, held,
          lost>>
sweep == <<queue, intact, work>>
markers == <<dirty, older, intact>>

Absent == [stored |-> FALSE]
Relation == [stored: {TRUE}, source: Nodes, says: Says]
Versions(e) ==
  {Absent} \cup [stored: {TRUE}, source: Starts[e], says: Says]
NotHeld == [read |-> FALSE]
Resting == [at |-> "rest"]

\* What computeEdgeStats makes of the relations of n; nothing is counted twice.
Counted(n) ==
  {<<e, edges[e]>> : e \in {f \in Edges : /\ edges[f].stored
                                          /\ edges[f].source = n}}
Counters == SUBSET (Edges \X Relation)

Current(n) == stats[n] = Counted(n)

Init ==
  /\ edges = [e \in Edges |-> Absent]
  /\ pages = Nodes
  /\ stats = [n \in Nodes |-> Counted(n)]
  /\ owed = {} /\ dirty = {} /\ older = {}
  /\ queue = {} /\ intact = {}
  /\ work = [w \in Workers |-> Resting]
  /\ held = [n \in Nodes |-> NotHeld]
  /\ lost = {}

(***************************************************************************)
(* onEdgeWritten.                                                            *)
(***************************************************************************)
\* Both ends of the move, not just the current one.
Sources(before, after) ==
  {edge.source : edge \in {x \in {before, after} : x.stored}}

\* A relation is added, corrected, moved to another page (a merge, a split) or
\* deleted (a migration), and the event waits for delivery.
WriteEdge(e) ==
  \E after \in Versions(e) :
    /\ after # edges[e]
    /\ edges' = [edges EXCEPT ![e] = after]
    /\ owed' = owed \cup Sources(edges[e], after)
    /\ UNCHANGED <<pages, stats, dirty, older, sweep, held, lost>>

\* The marker of n is written over, with a new update time.
Rewrite(n) ==
  /\ dirty' = dirty \cup {n}
  /\ older' = {pair \in older : pair[1] # n /\ pair[2] # n}
                \cup {<<m, n>> : m \in dirty \ {n}}
  /\ intact' = intact \ {n}

\* Deliveries come in any order,
Mark(n) ==
  /\ n \in owed
  /\ owed' = owed \ {n}
  /\ Rewrite(n)
  /\ UNCHANGED <<edges, pages, stats, queue, work, held, lost>>

\* more than once,
Redeliver(n) ==
  /\ n \in owed
  /\ Rewrite(n)
  /\ UNCHANGED <<edges, pages, stats, owed, queue, work, held, lost>>

\* and a marker that cannot be written is not tried again: the trigger does not
\* ask for retries.
LoseMark(n) ==
  /\ n \in owed
  /\ owed' = owed \ {n}
  /\ lost' = lost \cup {n}
  /\ UNCHANGED <<edges, pages, stats, dirty, older, sweep, held>>

(***************************************************************************)
(* sweepEdgeStats.                                                           *)
(***************************************************************************)
Unlimited == TRUE  \* mutant: sweeps overlap, without `maxInstances: 1`
Swept == queue = {} /\ \A w \in Workers : work[w] = Resting

\* The oldest markers, as many as one sweep claims.
OldestBatch ==
  {batch \in SUBSET dirty :
     /\ Cardinality(batch) <= SweepBatch
     /\ batch # dirty => Cardinality(batch) = SweepBatch
     /\ \A m \in batch, n \in dirty \ batch : <<m, n>> \in older}

StartSweep ==
  /\ Swept /\ dirty # {}
  /\ \E batch \in OldestBatch : queue' = batch /\ intact' = batch
  /\ UNCHANGED <<edges, pages, stats, owed, dirty, older, work, held, lost>>

\* A worker takes a claimed marker and reads the relations of the page.
Recompute(w) ==
  /\ work[w] = Resting
  /\ \E n \in queue :
       /\ queue' = queue \ {n}
       /\ work' = [work EXCEPT ![w] =
                     [at |-> "read", node |-> n, counted |-> Counted(n)]]
       /\ lost' = lost \ {n}
  /\ UNCHANGED <<edges, pages, stats, owed, dirty, older, intact, held>>

\* It then asks who owns the pages these end at, in queries of bounded size.
TargetsAsWritten == MaxDisjunctions  \* mutant: the types are not reckoned with
TargetsPerQuery == MaxDisjunctions \div TransitiveTypes

\* Firestore refuses a query of too many disjunctions.
Refused(targets) ==
  LET largest == IF Cardinality(targets) < TargetsPerQuery
                 THEN Cardinality(targets) ELSE TargetsPerQuery
  IN  largest * TransitiveTypes > MaxDisjunctions

TargetsOf(counted) == {Target[pair[1]] : pair \in counted}

\* The counters are stored, unless the page is gone.
StoreStats(w) ==
  /\ work[w].at = "read"
  /\ ~Refused(TargetsOf(work[w].counted))
  /\ LET n == work[w].node IN
     /\ work' = [work EXCEPT ![w].at = IF n \in pages THEN "stored" ELSE "gone"]
     /\ stats' = IF n \in pages THEN [stats EXCEPT ![n] = work[w].counted]
                 ELSE stats
  /\ UNCHANGED <<edges, pages, owed, dirty, older, queue, intact, held, lost>>

\* The marker goes if nobody rewrote it, or if the page is gone; otherwise the
\* next sweep picks it up.
DropAnyway(w) == TRUE  \* mutant: no precondition on the update time
MayDrop(w) == work[w].at = "gone" \/ work[w].node \in intact

DropMarker(w) ==
  /\ work[w].at \in {"stored", "gone"}
  /\ LET n == work[w].node IN
     /\ IF MayDrop(w)
        THEN /\ dirty' = dirty \ {n}
             /\ older' = {pair \in older : pair[1] # n /\ pair[2] # n}
        ELSE UNCHANGED <<dirty, older>>
     /\ intact' = intact \ {n}
  /\ work' = [work EXCEPT ![w] = Resting]
  /\ UNCHANGED <<edges, pages, stats, owed, queue, held, lost>>

\* A read, the update or the deletion fails: the marker stays in place.
FailRecompute(w) ==
  /\ work[w] # Resting
  /\ work' = [work EXCEPT ![w] = Resting]
  /\ intact' = intact \ {work[w].node}
  /\ UNCHANGED <<edges, pages, stats, owed, dirty, older, queue, held, lost>>

\* The sweep runs out of time and stops where it is.
TimeOut ==
  /\ ~Swept
  /\ queue' = {} /\ intact' = {}
  /\ work' = [w \in Workers |-> Resting]
  /\ UNCHANGED <<edges, pages, stats, owed, dirty, older, held, lost>>

(***************************************************************************)
(* The other writers of a page.                                              *)
(***************************************************************************)
\* Approving reads the page ...
ReadPage(n) ==
  /\ n \in pages /\ held[n] = NotHeld
  /\ held' = [held EXCEPT ![n] = [read |-> TRUE, counters |-> stats[n]]]
  /\ UNCHANGED <<edges, pages, stats, owed, dirty, older, sweep, lost>>

\* ... and sets it whole, with the counters it read.
WritePage(n) ==
  /\ held[n].read /\ n \in pages
  /\ stats' = [stats EXCEPT ![n] = held[n].counters]
  /\ lost' = IF held[n].counters = stats[n] THEN lost ELSE lost \cup {n}
  /\ held' = [held EXCEPT ![n] = NotHeld]
  /\ UNCHANGED <<edges, pages, owed, dirty, older, sweep>>

\* A migration deletes a page its relations still name.
DeletePage(n) ==
  /\ n \in pages
  /\ pages' = pages \ {n}
  /\ UNCHANGED <<edges, stats, owed, dirty, older, sweep, held, lost>>

Next ==
  \/ \E e \in Edges : WriteEdge(e)
  \/ \E n \in Nodes : Mark(n) \/ Redeliver(n) \/ LoseMark(n)
  \/ \E n \in Approvals : ReadPage(n) \/ WritePage(n)
  \/ \E n \in Deletions : DeletePage(n)
  \/ \E w \in Workers :
       Recompute(w) \/ StoreStats(w) \/ DropMarker(w) \/ FailRecompute(w)
  \/ StartSweep \/ TimeOut

\* Events are delivered in the end, the scheduler starts a sweep again and
\* again, and a sweep that has started makes progress.
Fairness ==
  /\ \A n \in Nodes : WF_vars(Mark(n))
  /\ WF_vars(StartSweep)
  /\ \A w \in Workers :
       WF_vars(Recompute(w)) /\ WF_vars(StoreStats(w)) /\ WF_vars(DropMarker(w))

Spec == Init /\ [][Next]_vars
FairSpec == Spec /\ Fairness

-----------------------------------------------------------------------------
\* Counters, markers and claims are about pages, and what is stored of a page
\* was counted from relations.
TypeOK ==
  /\ edges \in [Edges -> Relation \cup {Absent}]
  /\ pages \subseteq Nodes
  /\ stats \in [Nodes -> Counters]
  /\ owed \subseteq Nodes /\ dirty \subseteq Nodes /\ lost \subseteq Nodes
  /\ older \subseteq dirty \X dirty
  /\ queue \subseteq Nodes /\ intact \subseteq Nodes
  /\ work \in [Workers -> {Resting}
                 \cup [at: {"read", "stored", "gone"}, node: Nodes,
                       counted: Counters]]
  /\ held \in [Nodes -> {NotHeld} \cup [read: {TRUE}, counters: Counters]]

\* Counters that no longer match the relations of a page are known to be stale:
\* the page is marked, or the event that will mark it is on its way.  An edge
\* that lands in the middle of a recompute is not "folded into no one's stats"
\* (sweepEdgeStats), whichever of the two writes and the marker come first.
StaleIsMarked ==
  \A n \in pages : Current(n) \/ n \in owed \cup dirty \cup lost

\* Once nobody writes relations any more and failures cease, the counters of
\* every page are brought up to date and stay so, however large the backlog.
Interference ==
  \/ \E e \in Edges : WriteEdge(e)
  \/ \E n \in Nodes : Redeliver(n) \/ LoseMark(n) \/ WritePage(n)
  \/ \E w \in Workers : FailRecompute(w)
  \/ TimeOut
QuietSettles ==
  <>[][~Interference]_vars =>
    <>[](\A n \in pages : Current(n) \/ n \in lost)

\* Approving a revision carries the counters of the page across
\* (applyRevision: "Everything the node owns rather than the revision
\* (`published`, and the counters the triggers maintain) is carried across").
ApprovalKeepsCounters ==
  [][\A n \in Nodes : WritePage(n) => stats' = stats]_vars

(***************************************************************************)
(* The inductive invariant behind StaleIsMarked.                             *)
(***************************************************************************)
Busy(w) == work[w].at # "rest"

\* A page is claimed once, and stays marked while it is.
ClaimedOnce ==
  /\ intact \subseteq dirty /\ queue \subseteq dirty
  /\ \A w \in Workers : Busy(w) =>
       /\ work[w].node \in dirty \ queue
       /\ \A v \in Workers \ {w} : Busy(v) => work[v].node # work[w].node

\* Whatever changed since a worker read the relations of a page has broken the
\* claim on its marker, or will when the event is delivered.
Noticed(n) == n \in owed \cup lost \/ n \notin intact
ReadsHold ==
  \A w \in Workers :
    LET n == work[w].node IN
    /\ work[w].at = "read" => work[w].counted = Counted(n) \/ Noticed(n)
    /\ work[w].at = "stored" => Current(n) \/ Noticed(n)
    /\ work[w].at = "gone" => n \notin pages

IInv == TypeOK /\ StaleIsMarked /\ ClaimedOnce /\ ReadsHold
=============================================================================
