----------------------------- MODULE Documents -----------------------------
(***************************************************************************)
(* What the moderation handlers read and write: the documents of the       *)
(* Firestore collections `nodes` and `edges`, the `revisions` that state    *)
(* what they should say, and the write batches a handler commits.           *)
(* Pure definitions: no variables.  shared/model.ts, server/utils/          *)
(* revisions.ts and server/utils/edgePublication.ts.                        *)
(***************************************************************************)
EXTENDS Integers, FiniteSets

CONSTANTS
  Nodes,      \* ids of pages: people, places, articles, topics, regions
  Edges,      \* ids of relations; an id is derived from the relation's identity
  Source,     \* the page an edge starts at, a function from Edges to Nodes
  Target,     \* the page an edge ends at
  Texts,      \* what a document can say, apart from its sources
  FirstText,  \* what an ingested document says
  Articles,   \* articles a relation can cite
  Users,      \* who may propose
  Identities, \* what the pipeline's rows say, whatever their spelling
  Enrichments \* what a stored text becomes when such a row fills its blanks

ASSUME EndsAssumption ==
  /\ Source \in [Edges -> Nodes]
  /\ Target \in [Edges -> Nodes]
ASSUME DisjointAssumption == Nodes \cap Edges = {}
ASSUME TextAssumption == FirstText \in Texts
\* A text that was filled in from a row lacks nothing of it.
ASSUME EnrichmentsAssumption ==
  /\ Enrichments \subseteq [stored: Texts, identity: Identities, filled: Texts]
  /\ \A x, y \in Enrichments : x.identity = y.identity => x.filled # y.stored

Docs == Nodes \cup Edges

\* What a revision states: never the fields the document owns, except that a
\* removal states `deleted`.
Data == [text: Texts, refs: SUBSET Articles, removed: BOOLEAN]

Statuses == {"pending", "approved", "rejected"}

(***************************************************************************)
(* Revision ids.  Most are allocated by Firestore and fresh; a standing     *)
(* proposal is stored under an id derived from what it proposes: its content *)
(* or, where the caller gives one, a key that does not tell spellings apart. *)
(***************************************************************************)
IngestedId(d)        == [kind |-> "ingested", doc |-> d]
FreshId(k)           == [kind |-> "fresh", n |-> k]
ProposalId(d, data)  == [kind |-> "proposal", doc |-> d, data |-> data]
KeyedProposalId(d, key) == [kind |-> "keyed", doc |-> d, key |-> key]
AskedIdOfUser(d, u, data) ==  \* mutant: one id for all a user asks of a page
  [kind |-> "asked", doc |-> d, by |-> u,
   data |-> [text |-> FirstText, refs |-> {}, removed |-> FALSE]]
AskedId(d, u, data)  == [kind |-> "asked", doc |-> d, by |-> u, data |-> data]
NoRevision           == [kind |-> "none"]

RevisionIds ==
  [kind: {"ingested"}, doc: Docs]
    \cup [kind: {"fresh"}, n: Nat]
    \cup [kind: {"proposal"}, doc: Docs, data: Data]
    \cup [kind: {"keyed"}, doc: Edges, key: Identities]
    \cup [kind: {"asked"}, doc: Docs, by: Users, data: Data]

\* `stated` is a ghost: what the revision has stated since it was first filed.
Revision == [doc: Docs, data: Data, status: Statuses, at: Nat,
             stated: SUBSET Data]

Filing(d, data, status, at) ==
  [doc |-> d, data |-> data, status |-> status, at |-> at, stated |-> {data}]

Document ==
  [exists: BOOLEAN, text: Texts, refs: SUBSET Articles, removed: BOOLEAN,
   published: BOOLEAN, pointer: RevisionIds \cup {NoRevision}]

\* A document nobody has written: `snapshot.data() ?? {}`.  FirstText stands for
\* the fields it does not have.
Blank ==
  [exists |-> FALSE, text |-> FirstText, refs |-> {}, removed |-> FALSE,
   published |-> FALSE, pointer |-> NoRevision]

\* A revision of it was approved: `revision_id` is set.
ExistsIsEnough(doc) == doc.exists  \* mutant: the pointer is not looked at
HasApproved(doc) == doc.pointer # NoRevision

\* An approved removal outranks the published flag.
PageIsPublic(doc) == doc.published /\ ~doc.removed

(***************************************************************************)
(* The document a revision write leaves behind: what the revision states    *)
(* and, over it, what the stored document owns.  A stored `deleted` wins,    *)
(* an absent one lets a removal state it.                                    *)
(***************************************************************************)
LosesRemoval(data, stored, published, pointer) ==  \* mutant
  [exists |-> TRUE, text |-> data.text, refs |-> data.refs,
   removed |-> data.removed, published |-> published, pointer |-> pointer]

RevisionTargetData(data, stored, published, pointer) ==
  [exists |-> TRUE, text |-> data.text, refs |-> data.refs,
   removed |-> stored.removed \/ data.removed,
   published |-> published, pointer |-> pointer]

\* `publish ?? stored.published`, publish being one of "keep", "show", "hide".
ShownIfSaid(publish, stored) == publish = "show"  \* mutant: silence hides

ShownAs(publish, stored) ==
  IF publish = "keep" THEN stored.published ELSE publish = "show"

(***************************************************************************)
(* Write batches.  A handler collects its writes and commits them at once:   *)
(*   set    documents overwritten whole     file   revisions written whole   *)
(*   show   `published` of a document       judge  `status` of a revision    *)
(*   point  `revision_id` of a document                                      *)
(***************************************************************************)
NoWrites == [x \in {} |-> x]
EmptyBatch == [set |-> NoWrites, show |-> NoWrites, point |-> NoWrites,
               file |-> NoWrites, judge |-> NoWrites]
Only(key, value) == [x \in {key} |-> value]
Each(keys, value) == [x \in keys |-> value]

DocsAfter(docs, batch) ==
  [d \in Docs |->
     LET base == IF d \in DOMAIN batch.set THEN batch.set[d] ELSE docs[d]
     IN  [base EXCEPT
            !.published = IF d \in DOMAIN batch.show THEN batch.show[d] ELSE @,
            !.pointer = IF d \in DOMAIN batch.point THEN batch.point[d] ELSE @]]

RevisionsAfter(revs, batch) ==
  [id \in DOMAIN revs \cup DOMAIN batch.file |->
     IF id \in DOMAIN batch.file
     THEN IF id \in DOMAIN revs
          THEN [batch.file[id] EXCEPT !.stated = @ \cup revs[id].stated]
          ELSE batch.file[id]
     ELSE IF id \in DOMAIN batch.judge
          THEN [revs[id] EXCEPT !.status = batch.judge[id]]
          ELSE revs[id]]

\* A revision is filed and the target overwritten with it - whether or not the
\* revision is approved.  Only the pointer waits for approval.
FilesWhatItRead(d, data, id, at, approve, stored, published) ==  \* mutant
  [file |-> Only(id, Filing(d, [data EXCEPT !.text = stored.text],
                            IF approve THEN "approved" ELSE "pending", at)),
   set |-> Only(d, RevisionTargetData(data, stored, published,
                     IF approve THEN id ELSE stored.pointer)),
   show |-> NoWrites, point |-> NoWrites, judge |-> NoWrites]

CreateRevisionTransaction(d, data, id, at, approve, stored, published) ==
  [file |-> Only(id, Filing(d, data, IF approve THEN "approved" ELSE "pending",
                            at)),
   set |-> Only(d, RevisionTargetData(data, stored, published,
                     IF approve THEN id ELSE stored.pointer)),
   show |-> NoWrites, point |-> NoWrites, judge |-> NoWrites]

WrittenAtOnce(d, data, id, at) ==  \* mutant: a proposal is filed like a draft
  CreateRevisionTransaction(d, data, id, at, FALSE, Blank, FALSE)

\* A proposal is filed and its target left alone.
ProposeRevisionTransaction(d, data, id, at) ==
  [EmptyBatch EXCEPT
     !.file = Only(id, Filing(d, data, "pending", at))]

\* The target becomes a copy of the revision, which becomes approved.
PointsOnly(id, revision, stored, publish) ==  \* mutant: the page keeps its text
  [set |-> Only(revision.doc,
             [stored EXCEPT !.published = ShownAs(publish, stored),
                            !.pointer = id]),
   judge |-> Only(id, "approved"),
   show |-> NoWrites, point |-> NoWrites, file |-> NoWrites]

ApplyRevision(id, revision, stored, publish) ==
  [set |-> Only(revision.doc,
             RevisionTargetData(revision.data, stored,
                                ShownAs(publish, stored), id)),
   judge |-> Only(id, "approved"),
   show |-> NoWrites, point |-> NoWrites, file |-> NoWrites]

(***************************************************************************)
(* Publishing relations.                                                     *)
(***************************************************************************)
\* Both ends exist and are public.
Publishable(docs, e) ==
  \A n \in {Source[e], Target[e]} : docs[n].exists /\ PageIsPublic(docs[n])

EdgesFrom(n) == {e \in Edges : Source[e] = n}  \* mutant: one query of the two
EdgesOf(n) == {e \in Edges : n \in {Source[e], Target[e]}}

\* The revisions of a document that were not rejected, and the newest of them.
Candidates(revs, d) ==
  {id \in DOMAIN revs : revs[id].doc = d /\ revs[id].status # "rejected"}
PublishCandidateRevision(revs, d) ==
  CHOOSE id \in Candidates(revs, d) :
    \A other \in Candidates(revs, d) : revs[other].at <= revs[id].at

\* Edges of `es` are shown; one that points at no revision is pointed at its
\* candidate, which becomes approved.  The document is not rewritten.
PublishEdgesInBatch(docs, revs, es) ==
  LET settled == {e \in es : /\ ~HasApproved(docs[e])
                             /\ Candidates(revs, e) # {}}
  IN  [show |-> Each(es, TRUE),
       point |-> [e \in settled |-> PublishCandidateRevision(revs, e)],
       judge |-> Each({PublishCandidateRevision(revs, e) : e \in settled},
                      "approved"),
       set |-> NoWrites, file |-> NoWrites]

HideInBatch(ds) == [EmptyBatch EXCEPT !.show = Each(ds, FALSE)]
=============================================================================
