----------------------------- MODULE Moderation -----------------------------
(***************************************************************************)
(* The editorial core of the site: readers propose, admins approve, reject,  *)
(* publish, hide and correct, on pages (nodes) and relations (edges).        *)
(* Each API handler reads documents, decides, and commits one write batch:   *)
(* it is a step that reads and a later step that commits, and the requests   *)
(* in flight interleave in between.  No handler uses a transaction.          *)
(***************************************************************************)
EXTENDS Documents

CONSTANTS
  Requests,      \* slots for API requests in flight at the same time
  Calls,         \* which API calls clients make in this instance
  Verdicts,      \* values of `publish` sent with an approval
  Topics,        \* nodes of type topic
  Tags,          \* edges of type tagged
  Ingested,      \* documents the pipelines had written and approved before
  Live,          \* those of them that are published
  Chunk,         \* EDGE_PUBLISH_CHUNK, edges hidden by one commit
  MaxClock       \* bound: revisions written after the start

AllCalls ==
  {"proposeNode", "proposeEdit", "proposeRemoval", "approve", "reject",
   "publishNode", "hideNode", "createEdge", "correctEdge", "proposeEdge",
   "enrichEdge", "deleteEdge", "publishEdges", "hideEdges", "citeEdge",
   "approveTopic"}

ASSUME CallsAssumption == Calls \subseteq AllCalls
ASSUME VerdictsAssumption == Verdicts \subseteq {"keep", "show", "hide"}
ASSUME KindsAssumption == Topics \subseteq Nodes /\ Tags \subseteq Edges
ASSUME BoundsAssumption == Chunk \in Nat \ {0} /\ MaxClock \in Nat
ASSUME IngestedAssumption ==
  /\ Live \subseteq Ingested /\ Ingested \subseteq Docs
  /\ \A e \in Live \cap Edges : Source[e] \in Live /\ Target[e] \in Live

VARIABLES
  docs,      \* the documents of `nodes` and `edges`
  revs,      \* the documents of `revisions`, a function from their ids
  req,       \* what each request slot is doing
  clock      \* revisions written so far; their `update_time`

vars == <<docs, revs, req, clock>>

Idle == [at |-> "idle"]

FirstData == [text |-> FirstText, refs |-> {}, removed |-> FALSE]

Init ==
  /\ docs = [d \in Docs |->
               IF d \in Ingested
               THEN RevisionTargetData(FirstData, Blank, d \in Live, IngestedId(d))
               ELSE Blank]
  /\ revs = [id \in {IngestedId(d) : d \in Ingested} |->
               Filing(id.doc, FirstData, "approved", 0)]
  /\ req = [r \in Requests |-> Idle]
  /\ clock = 1

(***************************************************************************)
(* The shape of every handler.                                               *)
(***************************************************************************)
Receives(r, call) == req[r] = Idle /\ call \in Calls

\* The handler has read what it needs and built its batch.
WillCommit(r, body, batch) ==
  /\ req' = [req EXCEPT ![r] = [at |-> "commit", body |-> body,
                                batch |-> batch]]
  /\ UNCHANGED <<docs, revs>>

\* A handler that writes a revision takes its time, and a fresh id if it needs
\* one, before it commits.
TakesTime == clock < MaxClock /\ clock' = clock + 1

Write(batch) ==
  /\ docs' = DocsAfter(docs, batch)
  /\ revs' = RevisionsAfter(revs, batch)

(***************************************************************************)
(* POST /api/revisions/create                                                *)
(***************************************************************************)
\* Firestore allocates ids nobody has used, in a request neither.
Unused(n) ==
  /\ ~docs[n].exists
  /\ \A id \in DOMAIN revs : revs[id].doc # n
  /\ \A r \in Requests :
       req[r].at = "commit" =>
         \A id \in DOMAIN req[r].batch.file : req[r].batch.file[id].doc # n

\* A new page: the node, a draft pointing at nothing, and the revision that
\* proposes it, in one commit that depends on nothing read before.
ProposeNode(r) ==
  /\ Receives(r, "proposeNode")
  /\ TakesTime
  /\ \E n \in Nodes, t \in Texts :
       /\ Unused(n)
       /\ Write(CreateRevisionTransaction(n,
                  [text |-> t, refs |-> {}, removed |-> FALSE],
                  FreshId(clock), clock, FALSE, Blank, FALSE))
  /\ UNCHANGED req

\* A proposal already decided is left as it is and asked again.
AskedBefore(asked) == asked  \* mutant: a decided proposal is written over
ProposedUnder(asked) == IF asked \in DOMAIN revs THEN FreshId(clock) ELSE asked

\* A change to a page, or its removal, which keeps the text it read.  A change
\* that changes nothing is refused; a proposal still pending is handed back.
\* Nobody asks whether the page exists: of one that does not, what was sent is
\* all that is proposed.
ProposeForNode(r, call, n, u, data) ==
  LET asked == AskedId(n, u, data) IN
  /\ Receives(r, call)
  /\ TakesTime
  /\ asked \in DOMAIN revs => revs[asked].status # "pending"
  /\ WillCommit(r, [call |-> call],
                ProposeRevisionTransaction(n, data, ProposedUnder(asked), clock))

ProposeEdit(r) ==
  \E n \in Nodes, u \in Users, t \in Texts :
    /\ docs[n].exists => t # docs[n].text
    /\ ProposeForNode(r, "proposeEdit", n, u,
                      [text |-> t, refs |-> {}, removed |-> FALSE])

ProposeRemoval(r) ==
  \E n \in Nodes, u \in Users :
    ProposeForNode(r, "proposeRemoval", n, u,
                   [text |-> docs[n].text, refs |-> {}, removed |-> TRUE])

(***************************************************************************)
(* POST /api/revisions/approve and /api/revisions/reject                     *)
(***************************************************************************)
\* Only an edge revision that would leave the edge live is checked.  A page that
\* does not exist begins with the revision.
Approve(r) ==
  /\ Receives(r, "approve")
  /\ \E id \in DOMAIN revs, publish \in Verdicts :
       LET d == revs[id].doc IN
       /\ d \in Edges /\ ShownAs(publish, docs[d]) => Publishable(docs, d)
       /\ WillCommit(r, [call |-> "approve", doc |-> d, publish |-> publish],
                     ApplyRevision(id, revs[id], docs[d], publish))
  /\ UNCHANGED clock

ServesNone(id) == FALSE  \* mutant: any revision can be rejected
Serves(id) == docs[revs[id].doc].pointer = id

\* The revision a document points at cannot be rejected.
Reject(r) ==
  /\ Receives(r, "reject")
  /\ \E id \in DOMAIN revs :
       /\ ~Serves(id)
       /\ WillCommit(r, [call |-> "reject"],
                     [EmptyBatch EXCEPT !.judge = Only(id, "rejected")])
  /\ UNCHANGED clock

(***************************************************************************)
(* POST /api/nodes/publish                                                   *)
(***************************************************************************)
\* Publishing needs an approved revision.
PublishNode(r) ==
  /\ Receives(r, "publishNode")
  /\ \E n \in Nodes :
       /\ docs[n].exists /\ HasApproved(docs[n])
       /\ WillCommit(r, [call |-> "publishNode"],
                     [EmptyBatch EXCEPT !.show = Only(n, TRUE)])
  /\ UNCHANGED clock

\* Hiding first looks up the public relations of the page ...
HideNode(r) ==
  /\ Receives(r, "hideNode")
  /\ \E n \in Nodes :
       /\ docs[n].exists
       /\ req' = [req EXCEPT ![r] =
                    [at |-> "hide", node |-> n,
                     edges |-> {e \in EdgesOf(n) : PageIsPublic(docs[e])}]]
  /\ UNCHANGED <<docs, revs, clock>>

\* ... hides those, a chunk to a commit ...
CascadeUnpublishEdges(r) ==
  /\ req[r].at = "hide"
  /\ \E chunk \in SUBSET req[r].edges :
       /\ chunk # {}
       /\ \/ Cardinality(chunk) = Chunk
          \/ Cardinality(chunk) < Chunk /\ chunk = req[r].edges
       /\ Write(HideInBatch(chunk))
       /\ req' = [req EXCEPT ![r].edges = @ \ chunk]
  /\ UNCHANGED clock

\* ... and the page itself last.
HideNodeAtLast(r) ==
  /\ req[r].at = "hide" /\ req[r].edges = {}
  /\ Write(HideInBatch({req[r].node}))
  /\ req' = [req EXCEPT ![r] = Idle]
  /\ UNCHANGED clock

(***************************************************************************)
(* POST /api/edges/create and update                                         *)
(***************************************************************************)
\* Nothing is written over a relation that is already there.
CreateEdge(r) ==
  /\ Receives(r, "createEdge")
  /\ TakesTime
  /\ \E e \in Edges, t \in Texts :
       /\ ~docs[e].exists
       /\ WillCommit(r, [call |-> "createEdge", doc |-> e],
                     CreateRevisionTransaction(e,
                       [text |-> t, refs |-> {}, removed |-> FALSE],
                       FreshId(clock), clock, FALSE, Blank, FALSE))

\* What a correction or an enrichment of the stored relation `e` states.
Corrected(e, t) == [text |-> t, refs |-> docs[e].refs, removed |-> FALSE]

\* An admin's correction is its own review.  It is skipped only where the
\* relation already says so and points at a revision.
CorrectEdge(r) ==
  /\ Receives(r, "correctEdge")
  /\ TakesTime
  /\ \E e \in Edges, t \in Texts :
       /\ docs[e].exists /\ ~docs[e].removed
       /\ t # docs[e].text \/ ~HasApproved(docs[e])
       /\ WillCommit(r, [call |-> "correctEdge"],
                     CreateRevisionTransaction(e, Corrected(e, t),
                       FreshId(clock), clock, TRUE, docs[e],
                       docs[e].published))

\* Anybody else's is a proposal, stored under what it proposes.
ProposeEdge(r) ==
  /\ Receives(r, "proposeEdge")
  /\ TakesTime
  /\ \E e \in Edges, t \in Texts :
       /\ docs[e].exists /\ ~docs[e].removed
       /\ t # docs[e].text
       /\ WillCommit(r, [call |-> "proposeEdge"],
                     ProposeRevisionTransaction(e, Corrected(e, t),
                       ProposalId(e, Corrected(e, t)), clock))

(***************************************************************************)
(* POST /api/ingest/person, where a row tells more than the stored relation  *)
(***************************************************************************)
\* The relation is filled in at once where the pipeline is vouched for, removed
\* or not, and otherwise offered under the key of the row: an offer already
\* filed, decided or not, is written over by the next that says the same.
EnrichEdge(r) ==
  /\ Receives(r, "enrichEdge")
  /\ TakesTime
  /\ \E e \in Edges, x \in Enrichments :
       /\ docs[e].exists /\ docs[e].text = x.stored
       /\ \/ WillCommit(r, [call |-> "enrichEdge"],
                        CreateRevisionTransaction(e, Corrected(e, x.filled),
                          FreshId(clock), clock, TRUE, docs[e],
                          docs[e].published))
          \/ WillCommit(r, [call |-> "enrichEdge"],
                        ProposeRevisionTransaction(e, Corrected(e, x.filled),
                          KeyedProposalId(e, x.identity), clock))

(***************************************************************************)
(* POST /api/edges/delete and [id]/references                                *)
(***************************************************************************)
\* A soft delete, approved as it is written, and off the site.
DeleteEdge(r) ==
  /\ Receives(r, "deleteEdge")
  /\ TakesTime
  /\ \E e \in Edges :
       /\ docs[e].exists /\ ~docs[e].removed
       /\ WillCommit(r, [call |-> "deleteEdge"],
                     CreateRevisionTransaction(e,
                       [text |-> docs[e].text, refs |-> docs[e].refs,
                        removed |-> TRUE],
                       FreshId(clock), clock, TRUE, docs[e], FALSE))

\* Sources are merged into the list that was read and the relation rewritten
\* with it at once; the revision waits for review.
CiteEdge(r) ==
  /\ Receives(r, "citeEdge")
  /\ TakesTime
  /\ \E e \in Edges, add \in SUBSET Articles, drop \in SUBSET Articles :
       /\ add \cup drop # {}
       /\ docs[e].exists
       /\ WillCommit(r, [call |-> "citeEdge", doc |-> e, add |-> add,
                         drop |-> drop],
                     CreateRevisionTransaction(e,
                       [text |-> docs[e].text,
                        refs |-> (docs[e].refs \ drop) \cup add,
                        removed |-> FALSE],
                       FreshId(clock), clock, FALSE, docs[e],
                       docs[e].published))

(***************************************************************************)
(* POST /api/edges/publish                                                   *)
(***************************************************************************)
\* The request is refused whole if one relation is removed or has an end that
\* is not public.
PublishEdges(r) ==
  /\ Receives(r, "publishEdges")
  /\ \E es \in SUBSET Edges :
       /\ es # {}
       /\ \A e \in es : /\ docs[e].exists /\ ~docs[e].removed
                        /\ Publishable(docs, e)
       /\ WillCommit(r, [call |-> "publishEdges", edges |-> es],
                     PublishEdgesInBatch(docs, revs, es))
  /\ UNCHANGED clock

HideEdges(r) ==
  /\ Receives(r, "hideEdges")
  /\ \E es \in SUBSET Edges :
       /\ es # {}
       /\ \A e \in es : docs[e].exists
       /\ WillCommit(r, [call |-> "hideEdges"], HideInBatch(es))
  /\ UNCHANGED clock

(***************************************************************************)
(* POST /api/topics/[id]/approve                                             *)
(***************************************************************************)
\* A topic not yet approved and public is approved and shown in one commit,
ApproveTopic(r) ==
  /\ Receives(r, "approveTopic")
  /\ \E n \in Topics, es \in SUBSET Tags :
       /\ docs[n].exists
       /\ IF HasApproved(docs[n]) /\ PageIsPublic(docs[n])
          THEN req' = [req EXCEPT ![r] =
                         [at |-> "tag", node |-> n, edges |-> es]]
          ELSE /\ Candidates(revs, n) # {}
               /\ LET id == PublishCandidateRevision(revs, n)
                  IN  req' = [req EXCEPT ![r] =
                                [at |-> "topic", node |-> n, edges |-> es,
                                 batch |-> ApplyRevision(id, revs[id],
                                                         docs[n], "show")]]
  /\ UNCHANGED <<docs, revs, clock>>

CommitTopic(r) ==
  /\ req[r].at = "topic"
  /\ Write(req[r].batch)
  /\ req' = [req EXCEPT ![r] = [at |-> "tag", node |-> req[r].node,
                                edges |-> req[r].edges]]
  /\ UNCHANGED clock

\* and then those of the named tags that point at it are read and published.
TagArticles(r) ==
  /\ req[r].at = "tag"
  /\ WillCommit(r, [call |-> "approveTopic"],
                PublishEdgesInBatch(docs, revs,
                  {e \in req[r].edges : /\ Target[e] = req[r].node
                                        /\ docs[e].exists
                                        /\ ~docs[e].removed}))
  /\ UNCHANGED clock

(***************************************************************************)
(* What happens to a request in flight.                                      *)
(***************************************************************************)
Commit(r) ==
  /\ req[r].at = "commit"
  /\ Write(req[r].batch)
  /\ req' = [req EXCEPT ![r] = Idle]
  /\ UNCHANGED clock

\* The connection, the instance or the commit fails; what an earlier commit of
\* the same request wrote stays.
Fail(r) ==
  /\ req[r] # Idle
  /\ req' = [req EXCEPT ![r] = Idle]
  /\ UNCHANGED <<docs, revs, clock>>

Next ==
  \E r \in Requests :
    \/ ProposeNode(r) \/ ProposeEdit(r) \/ ProposeRemoval(r)
    \/ Approve(r) \/ Reject(r)
    \/ PublishNode(r)
    \/ HideNode(r) \/ CascadeUnpublishEdges(r) \/ HideNodeAtLast(r)
    \/ CreateEdge(r) \/ CorrectEdge(r) \/ ProposeEdge(r) \/ EnrichEdge(r)
    \/ DeleteEdge(r) \/ CiteEdge(r) \/ PublishEdges(r) \/ HideEdges(r)
    \/ ApproveTopic(r) \/ CommitTopic(r) \/ TagArticles(r)
    \/ Commit(r) \/ Fail(r)

Spec == Init /\ [][Next]_vars

-----------------------------------------------------------------------------
(***************************************************************************)
(* Properties that hold however requests interleave.                         *)
(***************************************************************************)
BatchTypeOK(b) ==
  /\ DOMAIN b.set \subseteq Docs
  /\ \A d \in DOMAIN b.set : b.set[d] \in Document
  /\ DOMAIN b.show \subseteq Docs
  /\ \A d \in DOMAIN b.show : b.show[d] \in BOOLEAN
  /\ DOMAIN b.point \subseteq Docs
  /\ \A d \in DOMAIN b.point : b.point[d] \in RevisionIds
  /\ DOMAIN b.file \subseteq RevisionIds
  /\ \A id \in DOMAIN b.file : b.file[id] \in Revision
  /\ DOMAIN b.judge \subseteq RevisionIds
  /\ \A id \in DOMAIN b.judge : b.judge[id] \in Statuses

RequestTypeOK(q) ==
  \/ q = Idle
  \/ q.at = "commit" /\ BatchTypeOK(q.batch)
  \/ q \in [at: {"hide"}, node: Nodes, edges: SUBSET Edges]
  \/ /\ q.at = "topic" /\ BatchTypeOK(q.batch)
     /\ q.node \in Topics /\ q.edges \subseteq Tags
  \/ q \in [at: {"tag"}, node: Topics, edges: SUBSET Tags]

\* Every document, revision and batch in flight has the shape the handlers
\* give it; `published` in particular is always a decision, never left open.
TypeOK ==
  /\ docs \in [Docs -> Document]
  /\ DOMAIN revs \subseteq RevisionIds
  /\ \A id \in DOMAIN revs : revs[id] \in Revision
  /\ DOMAIN req = Requests
  /\ \A r \in Requests : RequestTypeOK(req[r])
  /\ clock \in Nat

\* The revision a document points at exists and is about that document,
\* whatever stale snapshot the pointer was written back from.
PointerIsOwnRevision ==
  \A d \in Docs :
    docs[d].pointer # NoRevision =>
      /\ docs[d].pointer \in DOMAIN revs
      /\ revs[docs[d].pointer].doc = d

\* A page is published only if a revision of it was approved
\* (nodes/publish.post.ts: "a node needs an approved revision before it can go
\* live"), although the check and the write are two steps.
PublishedPageWasApproved ==
  \A n \in Nodes : docs[n].published => docs[n].pointer # NoRevision

\* A page is a materialised copy of the revision it points at
\* (applyRevision): concurrent approvals never mix one revision's pointer with
\* another's text.
PageCopiesItsRevision ==
  \A n \in Nodes :
    docs[n].pointer # NoRevision =>
      /\ docs[n].text = revs[docs[n].pointer].data.text
      /\ docs[n].refs = revs[docs[n].pointer].data.refs
      /\ revs[docs[n].pointer].data.removed => docs[n].removed

\* A revision of d states what `doc` says, or has stated it.
IsOnRecord(d, doc, rs) ==
  \E id \in DOMAIN rs :
    /\ rs[id].doc = d
    /\ \E data \in rs[id].stated : data.text = doc.text /\ data.refs = doc.refs

\* Nothing is said that was not filed: what a document says - a draft or a
\* published one, approved or not - some revision of it states, so that the
\* history of the page accounts for it (revisions.ts: every write of a document
\* files its revision in the same batch).  Only an offer of the pipeline may
\* have been restated since (RevisionsAreHistory).
ContentIsOnRecord ==
  \A d \in Docs : docs[d].exists => IsOnRecord(d, docs[d], revs)

\* A revision, once filed, keeps its target and what it states: history is not
\* rewritten, not even by a restated proposal stored over an older one.  The
\* exception is an offer the pipeline makes under a key (person.post.ts), which
\* may come back in other words, and then waits for review.
RevisionsAreHistory ==
  [][\A id \in DOMAIN revs :
       /\ id \in DOMAIN revs'
       /\ revs'[id].doc = revs[id].doc
       /\ revs'[id].data # revs[id].data =>
            id.kind = "keyed" /\ revs'[id].status = "pending"]_vars

(***************************************************************************)
(* What the past of a document can be relied on for: PageHistory, in which   *)
(* neither requests nor the status of a revision appear.                     *)
(***************************************************************************)
FiledStatements ==
  [id \in DOMAIN revs |-> [doc |-> revs[id].doc, data |-> revs[id].data,
                           stated |-> revs[id].stated]]

History == INSTANCE PageHistory
             WITH Pages <- Nodes, Relations <- Edges, None <- NoRevision,
                  Offers <- [kind: {"keyed"}, doc: Edges, key: Identities],
                  filed <- FiledStatements

\* A document begins as a draft nobody sees or, a page, by serving a revision
\* already on record; a page changes only by serving one; a relation always says
\* what was filed, and none is lost (create.post.ts, revisions.ts), however
\* requests interleave.
ImplementsPageHistory == History!Spec

(***************************************************************************)
(* Properties of requests that do not overlap.                               *)
(***************************************************************************)
\* The revision a page serves stands: it is approved, neither turned down nor
\* waiting again (reject.post.ts: "Rejecting the snapshot a page is currently
\* serving would leave it saying something nobody stands behind").
ServedRevisionStands ==
  \A n \in Nodes :
    docs[n].pointer # NoRevision =>
      revs[docs[n].pointer].status = "approved"

\* A revision that was turned down stays on record as turned down until an
\* admin approves it (reject.post.ts, create.post.ts).
RejectionIsKept ==
  [][\A id \in DOMAIN revs :
       revs[id].status = "rejected" => revs'[id].status # "pending"]_vars

\* Approving an ordinary edit does not resurrect a page or a relation somebody
\* had removed (applyRevision), and neither does any other call.
RemovalSticks ==
  [][\A d \in Docs : docs[d].removed => docs'[d].removed]_vars

Commits(r, call) ==
  /\ req[r].at = "commit" /\ req[r].body.call = call
  /\ <<docs', revs'>> # <<docs, revs>> /\ req'[r] = Idle

\* The requests whose next commit decides who can see a document.
SaysWhoSees(q) ==
  \/ q.at \in {"hide", "topic"}
  \/ /\ q.at = "commit"
     /\ \/ q.body.call \in {"publishNode", "publishEdges", "hideEdges",
                            "deleteEdge", "approveTopic"}
        \/ q.body.call = "approve" /\ q.body.publish # "keep"

Decides(r) == SaysWhoSees(req[r])

\* Nothing is put on the site or taken off it but by an admin's call that says
\* so: neither a proposal, a correction, a citation or a rejection does it, nor
\* an approval left without a verdict on visibility (applyRevision:
\* "publish ?? stored.published").
VisibilityIsDecided ==
  [][(\E d \in Docs : docs'[d].published # docs[d].published) =>
       \E r \in Requests : Decides(r) /\ req'[r] # req[r]]_vars

\* No relation is public unless both its ends are (nodes/publish.post.ts,
\* edges/publish.post.ts).
RelationsHavePublicEnds ==
  \A e \in Edges : PageIsPublic(docs[e]) => Publishable(docs, e)

\* Publishing a relation settles a revision the relation already says
\* (publishEdgeInBatch: "the stored document already holds the approved
\* snapshot").
SettledRevisionIsServed ==
  [][\A r \in Requests, e \in Edges :
       /\ Commits(r, "publishEdges")
       /\ docs'[e].pointer # docs[e].pointer
       => docs'[e].text = revs'[docs'[e].pointer].data.text]_vars
=============================================================================
