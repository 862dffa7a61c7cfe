-------------------------- MODULE ModerationProofs --------------------------
(***************************************************************************)
(* Proofs that Moderation keeps IInv, and with it the properties that hold   *)
(* however requests interleave; that it implements PageHistory; and then,    *)
(* for requests that do not overlap, that it keeps SerialInv and EndsInv; for *)
(* any pages, relations, texts, users, requests and ids.                     *)
(***************************************************************************)
EXTENDS Moderation, WellFoundedInduction, TLAPS

-----------------------------------------------------------------------------
(***************************************************************************)
(* The inductive invariant behind the first group of properties: besides     *)
(* them, what a batch in flight may contain for its commit to be safe        *)
(* whenever it comes.                                                        *)
(***************************************************************************)
\* What a derived id says of the revision stored under it.
IdFits(id, revision) ==
  /\ id.kind \in {"ingested", "proposal", "asked", "keyed"} =>
       revision.doc = id.doc
  /\ id.kind \in {"proposal", "asked"} => revision.data = id.data
  /\ revision.data \in revision.stated
  /\ id.kind # "keyed" => revision.stated = {revision.data}

\* The page is a copy of the revision it points at.
CopiesRevision(n, doc, rs) ==
  /\ doc.pointer \in DOMAIN rs
  /\ rs[doc.pointer].doc = n
  /\ doc.text = rs[doc.pointer].data.text
  /\ doc.refs = rs[doc.pointer].data.refs
  /\ rs[doc.pointer].data.removed => doc.removed

\* What holds of documents ds and revisions rs once `now` ids were handed out.
StoreInv(ds, rs, now) ==
  /\ \A id \in DOMAIN rs :
       /\ IdFits(id, rs[id]) /\ rs[id].at < now
       /\ id.kind = "fresh" => id.n < now
       /\ rs[id].doc \in Edges => ds[rs[id].doc].exists
  /\ \A d \in Docs :
       ds[d].published => ds[d].exists
  /\ \A d \in Docs :
       ds[d].pointer # NoRevision =>
         /\ ds[d].exists
         /\ ds[d].pointer \in DOMAIN rs
         /\ rs[ds[d].pointer].doc = d
  /\ \A d \in Docs : ds[d].exists => IsOnRecord(d, ds[d], rs)
  /\ \A n \in Nodes :
       /\ ds[n].published => ds[n].pointer # NoRevision
       /\ ds[n].pointer # NoRevision => CopiesRevision(n, ds[n], rs)

\* Fresh ids are not in use; derived ids fit what they will hold.
FilesSafely(b, rs, now) ==
  \A id \in DOMAIN b.file :
    /\ id.kind \in {"fresh", "proposal", "asked", "keyed"}
    /\ id.kind = "keyed" => b.file[id].status = "pending"
    /\ IdFits(id, b.file[id]) /\ b.file[id].at < now
    /\ id.kind = "fresh" => id.n < now /\ id \notin DOMAIN rs

\* A page is overwritten only with a copy of a filed revision; a relation may
\* also point at the revision filed in the same commit.
SetsSafely(b, rs) ==
  \A d \in DOMAIN b.set :
    /\ b.set[d].exists
    /\ d \in Nodes => CopiesRevision(d, b.set[d], rs)
    /\ IsOnRecord(d, b.set[d], rs) \/ IsOnRecord(d, b.set[d], b.file)
    /\ \/ b.set[d].pointer = NoRevision
       \/ /\ b.set[d].pointer \in DOMAIN rs
          /\ rs[b.set[d].pointer].doc = d
       \/ /\ b.set[d].pointer \in DOMAIN b.file
          /\ b.file[b.set[d].pointer].doc = d

Unseen(doc) == ~doc.published /\ doc.pointer = NoRevision

\* Only a document that exists is shown or pointed at a revision, and a page
\* only where it points at one; a revision of a relation is of one that exists
\* or is written with it.
UpdatesSafely(b, ds, rs) ==
  /\ \A e \in DOMAIN b.set \cap Edges : ds[e].exists \/ Unseen(b.set[e])
  /\ \A id \in DOMAIN b.file :
       b.file[id].doc \in Edges =>
         b.file[id].doc \in DOMAIN b.set \/ ds[b.file[id].doc].exists
  /\ \A d \in DOMAIN b.show :
       b.show[d] => ds[d].exists /\ (d \in Nodes => ds[d].pointer # NoRevision)
  /\ \A d \in DOMAIN b.point :
       /\ d \in Edges /\ ds[d].exists
       /\ b.point[d] \in DOMAIN rs /\ rs[b.point[d]].doc = d
  /\ DOMAIN b.judge \subseteq DOMAIN rs

BatchInv(b, ds, rs, now) ==
  FilesSafely(b, rs, now) /\ SetsSafely(b, rs) /\ UpdatesSafely(b, ds, rs)

InFlight == {r \in Requests : req[r].at \in {"commit", "topic"}}

\* No fresh id is in two batches.
FreshApart(b, c) ==
  \A id \in DOMAIN b.file \cap DOMAIN c.file : id.kind # "fresh"

\* Typing, a sound store, and batches in flight that keep it sound.
IInv ==
  /\ TypeOK
  /\ StoreInv(docs, revs, clock)
  /\ \A r \in InFlight : BatchInv(req[r].batch, docs, revs, clock)
  /\ \A r, s \in InFlight : r # s => FreshApart(req[r].batch, req[s].batch)

(***************************************************************************)
(* The inductive invariants behind the second group: while no other request *)
(* writes, a batch in flight still agrees with the store it was read from.   *)
(***************************************************************************)
NoOverlap == \A r, s \in Requests : r = s

\* Nothing is known of a document nobody has written, and the revision a page
\* points at is approved.
StoreStands(ds, rs) ==
  /\ \A d \in Docs : ~ds[d].exists => ds[d] = Blank
  /\ \A n \in Nodes :
       ds[n].pointer # NoRevision => rs[ds[n].pointer].status = "approved"

\* Some client makes a call that files a revision under an id it derives.
Restates == {"proposeEdge", "enrichEdge"} \cap Calls # {}

\* A removal is kept, a page is pointed only at a revision approved with it,
\* the revision a page points at is not turned down, and only a correction or
\* an enrichment of a relation is filed over a revision on record.
Agrees(b, ds, rs) ==
  /\ \A d \in DOMAIN b.set : ds[d].removed => b.set[d].removed
  /\ \A d \in DOMAIN b.show : ds[d].exists
  /\ \A n \in DOMAIN b.set \cap Nodes :
       b.set[n].pointer # NoRevision =>
         /\ b.set[n].pointer \in DOMAIN b.judge
         /\ b.judge[b.set[n].pointer] = "approved"
  /\ \A id \in DOMAIN b.judge :
       /\ b.judge[id] # "pending"
       /\ b.judge[id] = "rejected" => \A n \in Nodes : ds[n].pointer # id
  /\ \A id \in DOMAIN b.file \cap DOMAIN rs :
       Restates /\ rs[id].doc \in Edges
  /\ DOMAIN b.file \cap DOMAIN b.judge = {}

LeavesVisibility(b, ds) ==
  /\ DOMAIN b.show = {}
  /\ \A d \in DOMAIN b.set : b.set[d].published = ds[d].published

Fits(q, ds, rs) ==
  /\ q.at \in {"commit", "topic"} => Agrees(q.batch, ds, rs)
  /\ q.at = "commit" /\ ~SaysWhoSees(q) => LeavesVisibility(q.batch, ds)
  /\ q.at = "hide" => \A d \in {q.node} \cup q.edges : ds[d].exists

SerialInv ==
  StoreStands(docs, revs) /\ \A r \in Requests : Fits(req[r], docs, revs)

(***************************************************************************)
(* Where, besides, no call takes an end off the site unseen: no removal of   *)
(* a page is proposed, no approval hides it, and no topic's tags are shown   *)
(* without a look at their other end.                                        *)
(***************************************************************************)
EndsAreWatched ==
  Calls \cap {"proposeRemoval", "approveTopic"} = {} /\ "hide" \notin Verdicts

RemovesNoPage(rs) ==
  \A id \in DOMAIN rs : rs[id].doc \in Nodes => ~rs[id].data.removed

\* Pages stay public, and a relation is shown only where its ends are.
KeepsEnds(b, ds) ==
  /\ \A n \in DOMAIN b.set \cap Nodes :
       PageIsPublic(ds[n]) => PageIsPublic(b.set[n])
  /\ \A n \in DOMAIN b.show \cap Nodes : b.show[n]
  /\ \A e \in DOMAIN b.set \cap Edges :
       PageIsPublic(b.set[e]) => Publishable(ds, e)
  /\ \A e \in DOMAIN b.show \cap Edges : b.show[e] => Publishable(ds, e)

\* A page about to be hidden has no public relation but those hidden first.
HidesAfterItsEdges(q, ds) ==
  \A e \in EdgesOf(q.node) : PageIsPublic(ds[e]) => e \in q.edges

FitsEnds(q, ds) ==
  /\ q.at \notin {"topic", "tag"}
  /\ q.at = "commit" =>
       RemovesNoPage(q.batch.file) /\ KeepsEnds(q.batch, ds)
  /\ q.at = "hide" => HidesAfterItsEdges(q, ds)

EndsInv ==
  /\ RelationsHavePublicEnds
  /\ RemovesNoPage(revs)
  /\ \A r \in Requests : FitsEnds(req[r], docs)

-----------------------------------------------------------------------------
(***************************************************************************)
(* Ids.                                                                      *)
(***************************************************************************)
\* NoRevision is nobody's id.
LEMMA NoRevisionIsNoId == NoRevision \notin RevisionIds
  BY DEF NoRevision, RevisionIds

\* What a document is overwritten with is a document.
LEMMA TargetTyped ==
  ASSUME NEW data \in Data, NEW stored \in Document, NEW published \in BOOLEAN,
         NEW pointer \in RevisionIds \cup {NoRevision}
  PROVE  RevisionTargetData(data, stored, published, pointer) \in Document
  BY DEF RevisionTargetData, Data, Document

LEMMA BlankTyped == Blank \in Document
  BY TextAssumption DEF Blank, Document

(***************************************************************************)
(* What a write does to each document and each revision.                     *)
(***************************************************************************)
Base(ds, b, d) == IF d \in DOMAIN b.set THEN b.set[d] ELSE ds[d]

LEMMA SameFieldsSameDocument ==
  ASSUME NEW a \in Document, NEW b \in Document,
         a.exists = b.exists, a.text = b.text, a.refs = b.refs,
         a.removed = b.removed, a.published = b.published,
         a.pointer = b.pointer
  PROVE  a = b
  BY DEF Document

LEMMA DocsAfterFields ==
  ASSUME NEW ds \in [Docs -> Document], NEW b, BatchTypeOK(b), NEW d \in Docs
  PROVE  /\ DocsAfter(ds, b)[d] \in Document
         /\ DocsAfter(ds, b)[d].exists = Base(ds, b, d).exists
         /\ DocsAfter(ds, b)[d].text = Base(ds, b, d).text
         /\ DocsAfter(ds, b)[d].refs = Base(ds, b, d).refs
         /\ DocsAfter(ds, b)[d].removed = Base(ds, b, d).removed
         /\ DocsAfter(ds, b)[d].published =
              IF d \in DOMAIN b.show THEN b.show[d]
              ELSE Base(ds, b, d).published
         /\ DocsAfter(ds, b)[d].pointer =
              IF d \in DOMAIN b.point THEN b.point[d]
              ELSE Base(ds, b, d).pointer
<1>1. Base(ds, b, d) \in Document
  BY DEF Base, BatchTypeOK
<1>2. d \in DOMAIN b.show => b.show[d] \in BOOLEAN
  BY DEF BatchTypeOK
<1>3. d \in DOMAIN b.point => b.point[d] \in RevisionIds
  BY DEF BatchTypeOK
<1>4. DocsAfter(ds, b)[d] =
        [Base(ds, b, d) EXCEPT
           !.published = IF d \in DOMAIN b.show THEN b.show[d] ELSE @,
           !.pointer = IF d \in DOMAIN b.point THEN b.point[d] ELSE @]
  BY DEF DocsAfter, Base
<1> QED
  BY <1>1, <1>2, <1>3, <1>4 DEF Document

LEMMA DocsAfterTyped ==
  ASSUME NEW ds \in [Docs -> Document], NEW b, BatchTypeOK(b)
  PROVE  DocsAfter(ds, b) \in [Docs -> Document]
<1>1. \A d \in Docs : DocsAfter(ds, b)[d] \in Document
  BY DocsAfterFields
<1> QED
  BY <1>1 DEF DocsAfter

RecordTypeOK(rs) ==
  /\ DOMAIN rs \subseteq RevisionIds
  /\ \A id \in DOMAIN rs : rs[id] \in Revision

\* `after` are the revisions rs once batch b is committed.
FiledInto(after, rs, b) ==
  /\ DOMAIN after = DOMAIN rs \cup DOMAIN b.file
  /\ RecordTypeOK(after)
  /\ \A id \in DOMAIN b.file :
       /\ after[id].doc = b.file[id].doc
       /\ after[id].data = b.file[id].data
       /\ after[id].at = b.file[id].at
       /\ after[id].status = b.file[id].status
       /\ after[id].stated =
            b.file[id].stated \cup (IF id \in DOMAIN rs THEN rs[id].stated ELSE {})
  /\ \A id \in DOMAIN rs \ DOMAIN b.file :
       /\ after[id].doc = rs[id].doc
       /\ after[id].data = rs[id].data
       /\ after[id].at = rs[id].at
       /\ after[id].stated = rs[id].stated

LEMMA RevisionsAfterFields ==
  ASSUME NEW rs, RecordTypeOK(rs), NEW b, BatchTypeOK(b)
  PROVE  FiledInto(RevisionsAfter(rs, b), rs, b)
<1>1. DOMAIN RevisionsAfter(rs, b) = DOMAIN rs \cup DOMAIN b.file
  BY DEF RevisionsAfter
<1>2. ASSUME NEW id \in DOMAIN b.file
      PROVE  /\ RevisionsAfter(rs, b)[id] \in Revision
             /\ RevisionsAfter(rs, b)[id].doc = b.file[id].doc
             /\ RevisionsAfter(rs, b)[id].data = b.file[id].data
             /\ RevisionsAfter(rs, b)[id].at = b.file[id].at
             /\ RevisionsAfter(rs, b)[id].status = b.file[id].status
             /\ RevisionsAfter(rs, b)[id].stated =
                  b.file[id].stated
                    \cup (IF id \in DOMAIN rs THEN rs[id].stated ELSE {})
  <2>1. b.file[id] \in Revision
    BY DEF BatchTypeOK
  <2>2. CASE id \in DOMAIN rs
    <3>1. rs[id] \in Revision
      BY <2>2 DEF RecordTypeOK
    <3>2. RevisionsAfter(rs, b)[id] =
            [b.file[id] EXCEPT !.stated = @ \cup rs[id].stated]
      BY <2>2 DEF RevisionsAfter
    <3> QED
      BY <2>1, <2>2, <3>1, <3>2 DEF Revision
  <2>3. CASE id \notin DOMAIN rs
    <3>1. RevisionsAfter(rs, b)[id] = b.file[id]
      BY <2>3 DEF RevisionsAfter
    <3> QED
      BY <2>1, <2>3, <3>1
  <2> QED
    BY <2>2, <2>3
<1>3. ASSUME NEW id \in DOMAIN rs \ DOMAIN b.file
      PROVE  /\ RevisionsAfter(rs, b)[id] \in Revision
             /\ RevisionsAfter(rs, b)[id].doc = rs[id].doc
             /\ RevisionsAfter(rs, b)[id].data = rs[id].data
             /\ RevisionsAfter(rs, b)[id].at = rs[id].at
             /\ RevisionsAfter(rs, b)[id].stated = rs[id].stated
  <2>1. rs[id] \in Revision
    BY DEF RecordTypeOK
  <2>2. id \in DOMAIN b.judge => b.judge[id] \in Statuses
    BY DEF BatchTypeOK
  <2>3. RevisionsAfter(rs, b)[id] =
          IF id \in DOMAIN b.judge
          THEN [rs[id] EXCEPT !.status = b.judge[id]] ELSE rs[id]
    BY DEF RevisionsAfter
  <2> QED
    BY <2>1, <2>2, <2>3 DEF Revision
<1> QED
  BY <1>1, <1>2, <1>3 DEF FiledInto, RecordTypeOK, BatchTypeOK

-----------------------------------------------------------------------------
(***************************************************************************)
(* A safe write keeps the store sound.                                       *)
(***************************************************************************)
\* SetsSafely, or a new page pointing at nothing, which only ProposeNode
\* writes, and at once.
Overwrites(b, ds, rs) ==
  \A d \in DOMAIN b.set :
    /\ b.set[d].exists
    /\ d \in Nodes =>
         \/ CopiesRevision(d, b.set[d], rs)
         \/ /\ ds[d].pointer = NoRevision
            /\ b.set[d].pointer = NoRevision /\ ~b.set[d].published
            /\ ~ds[d].exists
    /\ IsOnRecord(d, b.set[d], rs) \/ IsOnRecord(d, b.set[d], b.file)
    /\ \/ b.set[d].pointer = NoRevision
       \/ /\ b.set[d].pointer \in DOMAIN rs
          /\ rs[b.set[d].pointer].doc = d
       \/ /\ b.set[d].pointer \in DOMAIN b.file
          /\ b.file[b.set[d].pointer].doc = d

\* A sound and typed store at time `now`, and a batch safe to commit by `later`.
Sound(ds, rs, now) ==
  /\ ds \in [Docs -> Document]
  /\ RecordTypeOK(rs)
  /\ now \in Nat
  /\ StoreInv(ds, rs, now)

Safe(b, ds, rs, later) ==
  /\ BatchTypeOK(b)
  /\ FilesSafely(b, rs, later)
  /\ Overwrites(b, ds, rs)
  /\ UpdatesSafely(b, ds, rs)

LEMMA BatchInvIsSafe ==
  ASSUME NEW b, NEW ds, NEW rs, NEW later, BatchTypeOK(b),
         BatchInv(b, ds, rs, later)
  PROVE  Safe(b, ds, rs, later)
  BY DEF Safe, BatchInv, SetsSafely, Overwrites

\* What a revision on record may become: its target stays, nothing it stated is
\* forgotten, and only an offer under a key is restated, to be reviewed again.
Keeps(after, rs) ==
  \A id \in DOMAIN rs :
    /\ id \in DOMAIN after
    /\ after[id].doc = rs[id].doc
    /\ rs[id].stated \subseteq after[id].stated
    /\ after[id].data # rs[id].data =>
         id.kind = "keyed" /\ after[id].status = "pending"
    /\ id.kind # "keyed" => after[id].stated = rs[id].stated

LEMMA WriteKeepsHistory ==
  ASSUME NEW ds, NEW rs, NEW now, Sound(ds, rs, now),
         NEW b, NEW later, Safe(b, ds, rs, later)
  PROVE  Keeps(RevisionsAfter(rs, b), rs)
<1> SUFFICES ASSUME NEW id \in DOMAIN rs
             PROVE  /\ id \in DOMAIN RevisionsAfter(rs, b)
                    /\ RevisionsAfter(rs, b)[id].doc = rs[id].doc
                    /\ rs[id].stated \subseteq RevisionsAfter(rs, b)[id].stated
                    /\ RevisionsAfter(rs, b)[id].data # rs[id].data =>
                         /\ id.kind = "keyed"
                         /\ RevisionsAfter(rs, b)[id].status = "pending"
                    /\ id.kind # "keyed" =>
                         RevisionsAfter(rs, b)[id].stated = rs[id].stated
  BY DEF Keeps
<1>1. FiledInto(RevisionsAfter(rs, b), rs, b)
  BY RevisionsAfterFields DEF Sound, Safe
<1>2. CASE id \notin DOMAIN b.file
  BY <1>1, <1>2 DEF FiledInto
<1>3. CASE id \in DOMAIN b.file
  <2>1. /\ id.kind \in {"proposal", "asked", "keyed"}
        /\ id.kind = "keyed" => b.file[id].status = "pending"
    BY <1>3 DEF Safe, FilesSafely
  <2>2. IdFits(id, b.file[id]) /\ IdFits(id, rs[id])
    BY <1>3 DEF Safe, FilesSafely, Sound, StoreInv
  <2>3. /\ b.file[id].doc = rs[id].doc
        /\ id.kind # "keyed" =>
             /\ b.file[id].data = rs[id].data
             /\ b.file[id].stated = rs[id].stated
    BY <2>1, <2>2 DEF IdFits
  <2> QED
    BY <1>1, <1>3, <2>1, <2>3 DEF FiledInto
<1> QED
  BY <1>2, <1>3

\* An offer under a key is about a relation.
LEMMA PagesTakeNoOffers ==
  ASSUME NEW ds, NEW rs, NEW now, Sound(ds, rs, now), NEW id \in DOMAIN rs,
         rs[id].doc \in Nodes
  PROVE  /\ id.kind # "keyed"
         /\ id \notin [kind: {"keyed"}, doc: Edges, key: Identities]
<1>1. id \in RevisionIds /\ IdFits(id, rs[id])
  BY DEF Sound, RecordTypeOK, StoreInv
<1>2. id.kind = "keyed" => id.doc \in Edges
  BY <1>1 DEF RevisionIds
<1>3. id.kind # "keyed"
  BY <1>1, <1>2, DisjointAssumption DEF IdFits
<1> QED
  BY <1>3

LEMMA CopyStays ==
  ASSUME NEW ds, NEW rs, NEW now, Sound(ds, rs, now),
         NEW b, NEW later, Safe(b, ds, rs, later),
         NEW n \in Nodes, NEW doc, CopiesRevision(n, doc, rs)
  PROVE  CopiesRevision(n, doc, RevisionsAfter(rs, b))
<1>1. doc.pointer \in DOMAIN rs /\ rs[doc.pointer].doc = n
  BY DEF CopiesRevision
<1>2. doc.pointer.kind # "keyed"
  BY <1>1, PagesTakeNoOffers
<1> QED
  BY <1>1, <1>2, WriteKeepsHistory DEF CopiesRevision, Keeps

LEMMA RecordStays ==
  ASSUME NEW ds, NEW rs, NEW now, Sound(ds, rs, now),
         NEW b, NEW later, Safe(b, ds, rs, later),
         NEW d, NEW doc, IsOnRecord(d, doc, rs)
  PROVE  IsOnRecord(d, doc, RevisionsAfter(rs, b))
<1>1. PICK id \in DOMAIN rs :
        /\ rs[id].doc = d
        /\ \E data \in rs[id].stated :
             data.text = doc.text /\ data.refs = doc.refs
  BY DEF IsOnRecord
<1> QED
  BY <1>1, WriteKeepsHistory DEF IsOnRecord, Keeps

\* A document that exists goes on existing, and a page that points at a
\* revision goes on pointing at one.
LEMMA WriteOnlyAdds ==
  ASSUME NEW ds, NEW rs, NEW now, Sound(ds, rs, now),
         NEW b, NEW later, Safe(b, ds, rs, later), NEW d \in Docs
  PROVE  /\ ds[d].exists => DocsAfter(ds, b)[d].exists
         /\ d \in Nodes /\ ds[d].pointer # NoRevision =>
              DocsAfter(ds, b)[d].pointer # NoRevision
<1>1. /\ DocsAfter(ds, b)[d].exists = Base(ds, b, d).exists
      /\ DocsAfter(ds, b)[d].pointer =
           IF d \in DOMAIN b.point THEN b.point[d] ELSE Base(ds, b, d).pointer
  BY DocsAfterFields DEF Sound, Safe
<1>2. ds[d].exists => DocsAfter(ds, b)[d].exists
  BY <1>1 DEF Base, Safe, Overwrites
<1>3. ASSUME d \in Nodes, ds[d].pointer # NoRevision
      PROVE  DocsAfter(ds, b)[d].pointer # NoRevision
  <2>1. d \notin DOMAIN b.point
    BY <1>3, DisjointAssumption DEF Safe, UpdatesSafely
  <2>2. d \in DOMAIN b.set => b.set[d].pointer \in RevisionIds
    BY <1>3 DEF Safe, Overwrites, CopiesRevision, Sound, RecordTypeOK
  <2> QED
    BY <1>1, <1>3, <2>1, <2>2, NoRevisionIsNoId DEF Base
<1> QED
  BY <1>2, <1>3

LEMMA WriteKeepsIds ==
  ASSUME NEW ds, NEW rs, NEW now, Sound(ds, rs, now),
         NEW b, NEW later \in Nat, now <= later, Safe(b, ds, rs, later)
  PROVE  \A id \in DOMAIN RevisionsAfter(rs, b) :
           /\ IdFits(id, RevisionsAfter(rs, b)[id])
           /\ RevisionsAfter(rs, b)[id].at < later
           /\ id.kind = "fresh" => id.n < later
<1> SUFFICES ASSUME NEW id \in DOMAIN RevisionsAfter(rs, b)
             PROVE  /\ IdFits(id, RevisionsAfter(rs, b)[id])
                    /\ RevisionsAfter(rs, b)[id].at < later
                    /\ id.kind = "fresh" => id.n < later
  OBVIOUS
<1>1. FiledInto(RevisionsAfter(rs, b), rs, b)
  BY RevisionsAfterFields DEF Sound, Safe
<1>2. CASE id \in DOMAIN b.file
  <2>1. /\ IdFits(id, b.file[id]) /\ b.file[id].at < later
        /\ id.kind = "fresh" => id.n < later
    BY <1>2 DEF Safe, FilesSafely
  <2>2. ASSUME id \in DOMAIN rs, id.kind # "keyed"
        PROVE  rs[id].stated = b.file[id].stated
    <3>1. id.kind \in {"proposal", "asked"}
      BY <1>2, <2>2 DEF Safe, FilesSafely
    <3>2. IdFits(id, rs[id])
      BY <2>2 DEF Sound, StoreInv
    <3> QED
      BY <2>1, <2>2, <3>1, <3>2 DEF IdFits
  <2>3. id.kind # "keyed" =>
          RevisionsAfter(rs, b)[id].stated = b.file[id].stated
    BY <1>1, <1>2, <2>2 DEF FiledInto
  <2> QED
    BY <1>1, <1>2, <2>1, <2>3 DEF FiledInto, IdFits
<1>3. CASE id \in DOMAIN rs \ DOMAIN b.file
  <2>1. IdFits(id, rs[id]) /\ rs[id].at < now /\ rs[id].at \in Nat
    BY <1>3 DEF Sound, RecordTypeOK, Revision, StoreInv
  <2>2. id.kind = "fresh" => id.n \in Nat
    BY <1>3 DEF Sound, RecordTypeOK, RevisionIds
  <2>3. id.kind = "fresh" => id.n < now
    BY <1>3 DEF Sound, StoreInv
  <2> QED
    BY <1>1, <1>3, <2>1, <2>2, <2>3 DEF FiledInto, IdFits, Sound
<1> QED
  BY <1>1, <1>2, <1>3 DEF FiledInto

LEMMA WriteKeepsPointers ==
  ASSUME NEW ds, NEW rs, NEW now, Sound(ds, rs, now),
         NEW b, NEW later, Safe(b, ds, rs, later), NEW d \in Docs,
         DocsAfter(ds, b)[d].pointer # NoRevision
  PROVE  /\ DocsAfter(ds, b)[d].exists
         /\ DocsAfter(ds, b)[d].pointer \in DOMAIN RevisionsAfter(rs, b)
         /\ RevisionsAfter(rs, b)[DocsAfter(ds, b)[d].pointer].doc = d
<1> DEFINE rs1 == RevisionsAfter(rs, b)
           p == DocsAfter(ds, b)[d].pointer
<1>1. /\ DocsAfter(ds, b)[d].exists = Base(ds, b, d).exists
      /\ p = IF d \in DOMAIN b.point THEN b.point[d]
             ELSE Base(ds, b, d).pointer
  BY DocsAfterFields DEF Sound, Safe
<1>2. FiledInto(rs1, rs, b)
  BY RevisionsAfterFields DEF Sound, Safe
<1>3. \A i \in DOMAIN rs : i \in DOMAIN rs1 /\ rs1[i].doc = rs[i].doc
  BY WriteKeepsHistory DEF Keeps
<1>4. CASE d \in DOMAIN b.point
  <2>1. ds[d].exists /\ p \in DOMAIN rs /\ rs[p].doc = d
    BY <1>1, <1>4 DEF Safe, UpdatesSafely
  <2> QED
    BY <2>1, <1>3, WriteOnlyAdds
<1>5. CASE d \notin DOMAIN b.point /\ d \in DOMAIN b.set
  <2>1. DocsAfter(ds, b)[d].exists /\ p = b.set[d].pointer
    BY <1>1, <1>5 DEF Base, Safe, Overwrites
  <2>2. \/ p \in DOMAIN rs /\ rs[p].doc = d
        \/ p \in DOMAIN b.file /\ b.file[p].doc = d
    BY <2>1, <1>5 DEF Safe, Overwrites
  <2> QED
    BY <2>1, <2>2, <1>2, <1>3 DEF FiledInto
<1>6. CASE d \notin DOMAIN b.point /\ d \notin DOMAIN b.set
  <2>1. p = ds[d].pointer
    BY <1>1, <1>6 DEF Base
  <2>2. ds[d].exists /\ p \in DOMAIN rs /\ rs[p].doc = d
    BY <2>1 DEF Sound, StoreInv
  <2> QED
    BY <2>2, <1>3, WriteOnlyAdds
<1> QED
  BY <1>4, <1>5, <1>6

LEMMA WriteKeepsPages ==
  ASSUME NEW ds, NEW rs, NEW now, Sound(ds, rs, now),
         NEW b, NEW later, Safe(b, ds, rs, later), NEW n \in Nodes
  PROVE  LET doc == DocsAfter(ds, b)[n] IN
         /\ doc.published => doc.pointer # NoRevision
         /\ doc.pointer # NoRevision =>
              CopiesRevision(n, doc, RevisionsAfter(rs, b))
<1> DEFINE doc == DocsAfter(ds, b)[n]
<1>0. n \in Docs /\ n \notin DOMAIN b.point
  BY DisjointAssumption DEF Docs, Safe, UpdatesSafely
<1>1. /\ doc.text = Base(ds, b, n).text
      /\ doc.refs = Base(ds, b, n).refs
      /\ doc.removed = Base(ds, b, n).removed
      /\ doc.pointer = Base(ds, b, n).pointer
      /\ doc.published = IF n \in DOMAIN b.show THEN b.show[n]
                         ELSE Base(ds, b, n).published
  BY <1>0, DocsAfterFields DEF Sound, Safe
<1>2. ASSUME NEW old, CopiesRevision(n, old, rs), doc.text = old.text,
             doc.refs = old.refs, doc.removed = old.removed,
             doc.pointer = old.pointer
      PROVE  CopiesRevision(n, doc, RevisionsAfter(rs, b))
  BY <1>2, CopyStays DEF CopiesRevision
<1>3. CASE n \in DOMAIN b.set /\ CopiesRevision(n, b.set[n], rs)
  <2>1. doc.pointer \in RevisionIds
    BY <1>1, <1>3 DEF Base, CopiesRevision, Sound, RecordTypeOK
  <2>2. CopiesRevision(n, doc, RevisionsAfter(rs, b))
    BY <1>1, <1>2, <1>3 DEF Base
  <2> QED
    BY <2>1, <2>2, NoRevisionIsNoId
<1>4. CASE n \in DOMAIN b.set /\ ~CopiesRevision(n, b.set[n], rs)
  <2>1. /\ ds[n].pointer = NoRevision
        /\ b.set[n].pointer = NoRevision /\ ~b.set[n].published
    BY <1>4 DEF Safe, Overwrites
  <2>2. n \in DOMAIN b.show => ~b.show[n]
    BY <2>1 DEF Safe, UpdatesSafely
  <2> QED
    BY <1>1, <1>4, <2>1, <2>2 DEF Base
<1>5. CASE n \notin DOMAIN b.set
  <2>1. /\ ds[n].published => ds[n].pointer # NoRevision
        /\ ds[n].pointer # NoRevision => CopiesRevision(n, ds[n], rs)
    BY DEF Sound, StoreInv
  <2>2. n \in DOMAIN b.show /\ b.show[n] => ds[n].pointer # NoRevision
    BY DEF Safe, UpdatesSafely
  <2>3. doc.published => ds[n].pointer # NoRevision
    BY <1>1, <1>5, <2>1, <2>2 DEF Base
  <2>4. doc.pointer = ds[n].pointer
    BY <1>1, <1>5 DEF Base
  <2>5. ds[n].pointer # NoRevision =>
          CopiesRevision(n, doc, RevisionsAfter(rs, b))
    BY <1>1, <1>2, <1>5, <2>1 DEF Base
  <2> QED
    BY <2>3, <2>4, <2>5
<1> QED
  BY <1>3, <1>4, <1>5

LEMMA WriteKeepsRecord ==
  ASSUME NEW ds, NEW rs, NEW now, Sound(ds, rs, now),
         NEW b, NEW later, Safe(b, ds, rs, later), NEW d \in Docs,
         DocsAfter(ds, b)[d].exists
  PROVE  IsOnRecord(d, DocsAfter(ds, b)[d], RevisionsAfter(rs, b))
<1> DEFINE doc == DocsAfter(ds, b)[d]
           rs1 == RevisionsAfter(rs, b)
<1>1. /\ doc.exists = Base(ds, b, d).exists
      /\ doc.text = Base(ds, b, d).text /\ doc.refs = Base(ds, b, d).refs
  BY DocsAfterFields DEF Sound, Safe
<1>2. FiledInto(rs1, rs, b)
  BY RevisionsAfterFields DEF Sound, Safe
<1>3. IsOnRecord(d, Base(ds, b, d), rs1)
  <2>1. CASE d \notin DOMAIN b.set
    BY <1>1, <2>1, RecordStays DEF Base, Sound, StoreInv
  <2>2. CASE d \in DOMAIN b.set /\ IsOnRecord(d, b.set[d], rs)
    BY <2>2, RecordStays DEF Base
  <2>3. CASE d \in DOMAIN b.set /\ IsOnRecord(d, b.set[d], b.file)
    <3>1. PICK id \in DOMAIN b.file :
            /\ b.file[id].doc = d
            /\ \E data \in b.file[id].stated :
                 data.text = b.set[d].text /\ data.refs = b.set[d].refs
      BY <2>3 DEF IsOnRecord
    <3>2. /\ id \in DOMAIN rs1 /\ rs1[id].doc = d
          /\ b.file[id].stated \subseteq rs1[id].stated
      BY <1>2, <3>1 DEF FiledInto
    <3> QED
      BY <2>3, <3>1, <3>2 DEF Base, IsOnRecord
  <2> QED
    BY <2>1, <2>2, <2>3 DEF Safe, Overwrites
<1> QED
  BY <1>1, <1>3 DEF IsOnRecord

LEMMA WriteKeepsWhatExists ==
  ASSUME NEW ds, NEW rs, NEW now, Sound(ds, rs, now),
         NEW b, NEW later, Safe(b, ds, rs, later)
  PROVE  /\ \A id \in DOMAIN RevisionsAfter(rs, b) :
              RevisionsAfter(rs, b)[id].doc \in Edges =>
                DocsAfter(ds, b)[RevisionsAfter(rs, b)[id].doc].exists
         /\ \A d \in Docs :
              DocsAfter(ds, b)[d].published => DocsAfter(ds, b)[d].exists
<1> DEFINE ds1 == DocsAfter(ds, b)
           rs1 == RevisionsAfter(rs, b)
<1>1. ASSUME NEW id \in DOMAIN rs1, rs1[id].doc \in Edges
      PROVE  ds1[rs1[id].doc].exists
  <2>1. FiledInto(rs1, rs, b)
    BY RevisionsAfterFields DEF Sound, Safe
  <2>2. rs1[id].doc \in Docs
    BY <2>1 DEF FiledInto, RecordTypeOK, Revision
  <2>3. ds1[rs1[id].doc].exists = Base(ds, b, rs1[id].doc).exists
    BY <2>2, DocsAfterFields DEF Sound, Safe
  <2>4. rs1[id].doc \in DOMAIN b.set \/ ds[rs1[id].doc].exists
    <3>1. CASE id \in DOMAIN b.file
      BY <1>1, <2>1, <3>1 DEF FiledInto, Safe, UpdatesSafely
    <3>2. CASE id \in DOMAIN rs \ DOMAIN b.file
      BY <1>1, <2>1, <3>2 DEF FiledInto, Sound, StoreInv
    <3> QED
      BY <2>1, <3>1, <3>2 DEF FiledInto
  <2> QED
    BY <2>3, <2>4 DEF Base, Safe, Overwrites
<1>2. ASSUME NEW d \in Docs, ds1[d].published
      PROVE  ds1[d].exists
  <2>1. /\ ds1[d].exists = Base(ds, b, d).exists
        /\ ds1[d].published = IF d \in DOMAIN b.show THEN b.show[d]
                              ELSE Base(ds, b, d).published
    BY DocsAfterFields DEF Sound, Safe
  <2>2. CASE d \in DOMAIN b.set
    BY <2>1, <2>2 DEF Base, Safe, Overwrites
  <2>3. CASE d \notin DOMAIN b.set
    BY <1>2, <2>1, <2>3 DEF Base, Safe, UpdatesSafely, Sound, StoreInv
  <2> QED
    BY <2>2, <2>3
<1> QED
  BY <1>1, <1>2

LEMMA WriteKeepsSound ==
  ASSUME NEW ds, NEW rs, NEW now, Sound(ds, rs, now),
         NEW b, NEW later \in Nat, now <= later, Safe(b, ds, rs, later)
  PROVE  Sound(DocsAfter(ds, b), RevisionsAfter(rs, b), later)
<1>1. DocsAfter(ds, b) \in [Docs -> Document]
  BY DocsAfterTyped DEF Sound, Safe
<1>2. RecordTypeOK(RevisionsAfter(rs, b))
  BY RevisionsAfterFields DEF FiledInto, Sound, Safe
<1>3. StoreInv(DocsAfter(ds, b), RevisionsAfter(rs, b), later)
  BY WriteKeepsIds, WriteKeepsWhatExists, WriteKeepsPointers, WriteKeepsRecord,
     WriteKeepsPages
     DEF StoreInv
<1> QED
  BY <1>1, <1>2, <1>3 DEF Sound

\* What a write may make of a document: nothing, a draft, or another state of
\* it, in which a page points only at a revision that was on record before, and
\* which a relation has only if it existed.
LEMMA WriteMoves ==
  ASSUME NEW ds, NEW rs, NEW now, Sound(ds, rs, now),
         NEW b, NEW later, Safe(b, ds, rs, later), NEW d \in Docs
  PROVE  LET doc == DocsAfter(ds, b)[d] IN
         \/ doc = ds[d]
         \/ /\ ~ds[d].exists /\ Unseen(ds[d])
            /\ doc.exists /\ Unseen(doc)
         \/ /\ doc.exists
            /\ d \in Edges => ds[d].exists
            /\ d \in Nodes => doc.pointer \in DOMAIN rs
<1> DEFINE doc == DocsAfter(ds, b)[d]
<1>1. /\ doc \in Document /\ ds[d] \in Document
      /\ doc.exists = Base(ds, b, d).exists
      /\ doc.text = Base(ds, b, d).text
      /\ doc.refs = Base(ds, b, d).refs
      /\ doc.removed = Base(ds, b, d).removed
      /\ doc.published = IF d \in DOMAIN b.show THEN b.show[d]
                         ELSE Base(ds, b, d).published
      /\ doc.pointer = IF d \in DOMAIN b.point THEN b.point[d]
                       ELSE Base(ds, b, d).pointer
  BY DocsAfterFields DEF Sound, Safe
<1>2. /\ ds[d].exists => doc.exists
      /\ ds[d].published => ds[d].exists
      /\ ds[d].pointer # NoRevision => ds[d].exists
  BY WriteOnlyAdds DEF Sound, StoreInv
<1> HIDE DEF doc
<1>3. CASE ~ds[d].exists
  <2>1. /\ d \notin DOMAIN b.point
        /\ d \in DOMAIN b.show => b.show[d] = FALSE
        /\ d \in DOMAIN b.set => b.set[d].exists
        /\ d \in DOMAIN b.set \cap Edges => Unseen(b.set[d])
    BY <1>3 DEF Safe, UpdatesSafely, Overwrites, BatchTypeOK
  <2>2. CASE d \in DOMAIN b.set
    <3>1. CASE Unseen(b.set[d])
      BY <1>1, <1>2, <1>3, <2>1, <2>2, <3>1 DEF Base, Unseen, doc
    <3>2. CASE ~Unseen(b.set[d])
      <4>1. d \in Nodes /\ d \notin Edges
        BY <2>1, <2>2, <3>2, DisjointAssumption DEF Docs
      <4>2. b.set[d].pointer \in DOMAIN rs
        BY <2>2, <3>2, <4>1 DEF Safe, Overwrites, CopiesRevision, Unseen
      <4> QED
        BY <1>1, <2>1, <2>2, <4>1, <4>2 DEF Base, doc
    <3> QED
      BY <3>1, <3>2
  <2>3. CASE d \notin DOMAIN b.set
    <3>1. doc.published = ds[d].published
      BY <1>1, <1>2, <1>3, <2>1, <2>3 DEF Base, Document
    <3>2. doc.pointer = ds[d].pointer
      BY <1>1, <2>1, <2>3 DEF Base
    <3> QED
      BY <1>1, <2>3, <3>1, <3>2, SameFieldsSameDocument DEF Base, doc
  <2> QED
    BY <2>2, <2>3 DEF doc
<1>4. CASE ds[d].exists /\ d \in Nodes
  <2>1. d \notin DOMAIN b.point
    BY <1>4, DisjointAssumption DEF Safe, UpdatesSafely
  <2>2. CASE d \in DOMAIN b.set
    <3>1. doc.pointer \in DOMAIN rs
      BY <1>1, <1>4, <2>1, <2>2 DEF Base, Safe, Overwrites, CopiesRevision
    <3> QED
      BY <1>2, <1>4, <3>1 DEF doc
  <2>3. CASE d \notin DOMAIN b.set /\ ds[d].pointer # NoRevision
    <3>1. doc.pointer \in DOMAIN rs
      BY <1>1, <2>1, <2>3 DEF Base, Sound, StoreInv
    <3> QED
      BY <1>2, <1>4, <3>1 DEF doc
  <2>4. CASE d \notin DOMAIN b.set /\ ds[d].pointer = NoRevision
    <3>1. doc.pointer = ds[d].pointer
      BY <1>1, <2>1, <2>4 DEF Base
    <3>2. ~ds[d].published /\ ~doc.published
      BY <1>4, <2>4, <3>1, WriteKeepsPages DEF doc, Sound, StoreInv
    <3>3. doc.published = ds[d].published
      BY <1>1, <3>2 DEF Document
    <3> QED
      BY <1>1, <2>4, <3>1, <3>3, SameFieldsSameDocument DEF Base, doc
  <2> QED
    BY <2>2, <2>3, <2>4
<1>5. CASE ds[d].exists /\ d \notin Nodes
  BY <1>2, <1>5 DEF doc
<1> QED
  BY <1>3, <1>4, <1>5

-----------------------------------------------------------------------------
(***************************************************************************)
(* Batches in flight stay safe while others commit.                          *)
(***************************************************************************)
LEMMA SoundLater ==
  ASSUME NEW ds, NEW rs, NEW now, Sound(ds, rs, now),
         NEW later \in Nat, now <= later
  PROVE  Sound(ds, rs, later)
<1>1. ASSUME NEW id \in DOMAIN rs
      PROVE  rs[id].at < later /\ (id.kind = "fresh" => id.n < later)
  <2>1. rs[id].at \in Nat /\ (id.kind = "fresh" => id.n \in Nat)
    BY DEF Sound, RecordTypeOK, Revision, RevisionIds
  <2> QED
    BY <2>1 DEF Sound, StoreInv
<1> QED
  BY <1>1 DEF Sound, StoreInv

LEMMA FilesLater ==
  ASSUME NEW c, BatchTypeOK(c), NEW rs, NEW now \in Nat,
         FilesSafely(c, rs, now), NEW later \in Nat, now <= later
  PROVE  FilesSafely(c, rs, later)
<1>1. ASSUME NEW id \in DOMAIN c.file
      PROVE  c.file[id].at < later /\ (id.kind = "fresh" => id.n < later)
  <2>1. c.file[id].at \in Nat /\ (id.kind = "fresh" => id.n \in Nat)
    BY DEF BatchTypeOK, Revision, RevisionIds
  <2> QED
    BY <2>1 DEF FilesSafely
<1> QED
  BY <1>1 DEF FilesSafely

LEMMA BatchStays ==
  ASSUME NEW ds, NEW rs, NEW now, Sound(ds, rs, now),
         NEW b, NEW later \in Nat, now <= later, Safe(b, ds, rs, later),
         NEW c, BatchTypeOK(c), BatchInv(c, ds, rs, now), FreshApart(b, c)
  PROVE  BatchInv(c, DocsAfter(ds, b), RevisionsAfter(rs, b), later)
<1> DEFINE ds1 == DocsAfter(ds, b)
           rs1 == RevisionsAfter(rs, b)
<1>1. \A id \in DOMAIN rs : id \in DOMAIN rs1 /\ rs1[id].doc = rs[id].doc
  BY WriteKeepsHistory DEF Keeps
<1>2. FilesSafely(c, rs1, later)
  <2>1. FilesSafely(c, rs, later)
    BY FilesLater DEF BatchInv, Sound
  <2>2. FiledInto(rs1, rs, b)
    BY RevisionsAfterFields DEF Sound, Safe
  <2>3. \A id \in DOMAIN c.file : id.kind = "fresh" => id \notin DOMAIN rs1
    BY <2>1, <2>2 DEF FilesSafely, FiledInto, FreshApart
  <2> QED
    BY <2>1, <2>3 DEF FilesSafely
<1>3. SetsSafely(c, rs1)
  <2> SUFFICES ASSUME NEW d \in DOMAIN c.set
               PROVE  /\ c.set[d].exists
                      /\ d \in Nodes => CopiesRevision(d, c.set[d], rs1)
                      /\ \/ IsOnRecord(d, c.set[d], rs1)
                         \/ IsOnRecord(d, c.set[d], c.file)
                      /\ \/ c.set[d].pointer = NoRevision
                         \/ /\ c.set[d].pointer \in DOMAIN rs1
                            /\ rs1[c.set[d].pointer].doc = d
                         \/ /\ c.set[d].pointer \in DOMAIN c.file
                            /\ c.file[c.set[d].pointer].doc = d
    BY DEF SetsSafely
  <2>1. d \in Nodes => CopiesRevision(d, c.set[d], rs1)
    BY CopyStays DEF BatchInv, SetsSafely
  <2>2. IsOnRecord(d, c.set[d], rs1) \/ IsOnRecord(d, c.set[d], c.file)
    BY RecordStays DEF BatchInv, SetsSafely
  <2> QED
    BY <1>1, <2>1, <2>2 DEF BatchInv, SetsSafely
<1>4. UpdatesSafely(c, ds1, rs1)
  <2>1. ASSUME NEW d \in DOMAIN c.show, c.show[d]
        PROVE  ds1[d].exists /\ (d \in Nodes => ds1[d].pointer # NoRevision)
    <3>1. d \in Docs
      BY DEF BatchTypeOK
    <3>2. ds[d].exists /\ (d \in Nodes => ds[d].pointer # NoRevision)
      BY <2>1 DEF BatchInv, UpdatesSafely
    <3> QED
      BY <3>1, <3>2, WriteOnlyAdds
  <2>2. ASSUME NEW d \in DOMAIN c.point
        PROVE  /\ d \in Edges /\ ds1[d].exists
               /\ c.point[d] \in DOMAIN rs1 /\ rs1[c.point[d]].doc = d
    <3>1. d \in Docs
      BY DEF BatchTypeOK
    <3>2. /\ d \in Edges /\ ds[d].exists
          /\ c.point[d] \in DOMAIN rs /\ rs[c.point[d]].doc = d
      BY DEF BatchInv, UpdatesSafely
    <3> QED
      BY <1>1, <3>1, <3>2, WriteOnlyAdds
  <2>3. DOMAIN c.judge \subseteq DOMAIN rs1
    BY <1>1 DEF BatchInv, UpdatesSafely
  <2>4. ASSUME NEW e \in DOMAIN c.set \cap Edges
        PROVE  ds1[e].exists \/ Unseen(c.set[e])
    <3>1. e \in Docs
      BY DEF BatchTypeOK
    <3> QED
      BY <3>1, WriteOnlyAdds DEF BatchInv, UpdatesSafely
  <2>5. ASSUME NEW id \in DOMAIN c.file, c.file[id].doc \in Edges
        PROVE  c.file[id].doc \in DOMAIN c.set \/ ds1[c.file[id].doc].exists
    <3>1. c.file[id].doc \in Docs
      BY DEF BatchTypeOK, Revision
    <3> QED
      BY <2>5, <3>1, WriteOnlyAdds DEF BatchInv, UpdatesSafely
  <2> QED
    BY <2>1, <2>2, <2>3, <2>4, <2>5 DEF UpdatesSafely
<1> QED
  BY <1>2, <1>3, <1>4 DEF BatchInv

(***************************************************************************)
(* The two kinds of step: one writes a safe batch, the other puts a safe     *)
(* batch, or none, in flight.                                                *)
(***************************************************************************)
\* The step that RevisionsAreHistory allows.
KeepsRevisions == Keeps(revs', revs)

Moves(d) ==
  \/ docs'[d] = docs[d]
  \/ /\ ~docs[d].exists /\ Unseen(docs[d])
     /\ docs'[d].exists /\ Unseen(docs'[d])
  \/ /\ docs'[d].exists
     /\ d \in Edges => docs[d].exists
     /\ d \in Nodes => docs'[d].pointer \in DOMAIN revs

\* And the one PageHistory allows.
KeepsHistory == KeepsRevisions /\ \A d \in Docs : Moves(d)

LEMMA IInvIsSound ==
  ASSUME IInv
  PROVE  Sound(docs, revs, clock)
  BY DEF IInv, TypeOK, Sound, RecordTypeOK

LEMMA InFlightTyped ==
  ASSUME NEW q, RequestTypeOK(q), q.at \in {"commit", "topic"}
  PROVE  BatchTypeOK(q.batch)
  BY DEF RequestTypeOK, Idle

LEMMA FreshIdsApart ==
  ASSUME NEW c, BatchTypeOK(c), NEW rs, NEW now \in Nat,
         FilesSafely(c, rs, now), NEW b, BatchTypeOK(b),
         \A id \in DOMAIN b.file : id.kind = "fresh" => id.n >= now
  PROVE  FreshApart(b, c) /\ FreshApart(c, b)
<1> SUFFICES ASSUME NEW id \in DOMAIN b.file \cap DOMAIN c.file,
                    id.kind = "fresh"
             PROVE  FALSE
  BY DEF FreshApart
<1>1. id.n \in Nat
  BY DEF BatchTypeOK, RevisionIds
<1>2. id.n < now /\ id.n >= now
  BY DEF FilesSafely
<1> QED
  BY <1>1, <1>2

LEMMA WriteStep ==
  ASSUME IInv, clock' \in Nat, clock <= clock',
         NEW b, Safe(b, docs, revs, clock'), Write(b),
         DOMAIN req' = Requests,
         \A s \in Requests :
           \/ /\ req'[s] = req[s]
              /\ s \in InFlight => FreshApart(b, req[s].batch)
           \/ RequestTypeOK(req'[s]) /\ req'[s].at \notin {"commit", "topic"}
  PROVE  IInv' /\ KeepsHistory
<1>1. Sound(docs, revs, clock)
  BY IInvIsSound
<1>2. Sound(docs', revs', clock')
  BY <1>1, WriteKeepsSound DEF Write
<1>3. TypeOK'
  <2>1. \A s \in Requests : RequestTypeOK(req'[s])
    BY DEF IInv, TypeOK
  <2> QED
    BY <1>2, <2>1 DEF TypeOK, Sound, RecordTypeOK
<1>4. \A s \in Requests : req'[s].at \in {"commit", "topic"} =>
         s \in InFlight /\ req'[s] = req[s] /\ FreshApart(b, req[s].batch)
  BY DEF InFlight
<1>5. ASSUME NEW s \in Requests, req'[s].at \in {"commit", "topic"}
      PROVE  BatchInv(req'[s].batch, docs', revs', clock')
  <2>1. s \in InFlight /\ req'[s] = req[s] /\ FreshApart(b, req[s].batch)
    BY <1>4, <1>5
  <2>2. BatchTypeOK(req[s].batch)
    BY <1>5, <2>1, InFlightTyped DEF IInv, TypeOK
  <2>3. BatchInv(req[s].batch, docs, revs, clock)
    BY <2>1 DEF IInv
  <2> QED
    BY <1>1, <2>1, <2>2, <2>3, BatchStays DEF Write
<1>6. \A r, s \in InFlight' :
        r # s => FreshApart(req'[r].batch, req'[s].batch)
  BY <1>4 DEF InFlight, IInv
<1>7. KeepsHistory
  <2>1. KeepsRevisions
    BY <1>1, WriteKeepsHistory DEF Write, KeepsRevisions
  <2>2. \A d \in Docs : Moves(d)
    BY <1>1, WriteMoves DEF Write, Moves
  <2> QED
    BY <2>1, <2>2 DEF KeepsHistory
<1> QED
  BY <1>2, <1>3, <1>5, <1>6, <1>7 DEF IInv, InFlight, Sound

LEMMA ReadStep ==
  ASSUME IInv, clock' \in Nat, clock <= clock',
         UNCHANGED <<docs, revs>>,
         NEW r \in Requests, NEW q, req' = [req EXCEPT ![r] = q],
         RequestTypeOK(q),
         q.at \in {"commit", "topic"} =>
           /\ BatchInv(q.batch, docs, revs, clock')
           /\ \A id \in DOMAIN q.batch.file : id.kind = "fresh" => id.n >= clock
  PROVE  IInv' /\ KeepsHistory
<1>1. Sound(docs', revs', clock')
  BY IInvIsSound, SoundLater, clock \in Nat DEF IInv, TypeOK
<1>2. /\ DOMAIN req' = Requests /\ req'[r] = q
      /\ \A s \in Requests \ {r} : req'[s] = req[s]
  BY DEF IInv, TypeOK
<1>3. TypeOK'
  <2>1. \A s \in Requests : RequestTypeOK(req'[s])
    BY <1>2 DEF IInv, TypeOK
  <2> QED
    BY <1>1, <1>2, <2>1 DEF TypeOK, Sound, RecordTypeOK
<1>4. InFlight' \ {r} = InFlight \ {r}
  BY <1>2 DEF InFlight
<1>5. \A s \in InFlight : BatchTypeOK(req[s].batch)
  BY InFlightTyped DEF InFlight, IInv, TypeOK
<1>6. ASSUME NEW s \in InFlight'
      PROVE  BatchInv(req'[s].batch, docs', revs', clock')
  <2>1. CASE s = r
    BY <1>2, <2>1 DEF InFlight
  <2>2. CASE s # r
    <3>1. s \in InFlight /\ req'[s] = req[s]
      BY <1>2, <1>4, <2>2 DEF InFlight
    <3>2. BatchInv(req[s].batch, docs, revs, clock)
      BY <3>1 DEF IInv
    <3>3. FilesSafely(req[s].batch, revs, clock')
      BY <1>5, <3>1, <3>2, FilesLater DEF BatchInv, IInv, TypeOK
    <3> QED
      BY <3>1, <3>2, <3>3 DEF BatchInv
  <2> QED
    BY <2>1, <2>2
<1>7. ASSUME r \in InFlight', NEW s \in InFlight \ {r}
      PROVE  /\ FreshApart(q.batch, req[s].batch)
             /\ FreshApart(req[s].batch, q.batch)
  <2>1. q.at \in {"commit", "topic"}
    BY <1>2, <1>7 DEF InFlight
  <2>2. BatchTypeOK(q.batch)
    BY <2>1, InFlightTyped
  <2>3. FilesSafely(req[s].batch, revs, clock)
    BY DEF IInv, BatchInv
  <2> QED
    BY <1>5, <2>1, <2>2, <2>3, FreshIdsApart DEF IInv, TypeOK
<1>8. ASSUME NEW s \in InFlight', NEW t \in InFlight', s # t
      PROVE  FreshApart(req'[s].batch, req'[t].batch)
  <2>1. CASE s = r
    BY <1>2, <1>4, <1>7, <1>8, <2>1 DEF InFlight
  <2>2. CASE t = r
    BY <1>2, <1>4, <1>7, <1>8, <2>2 DEF InFlight
  <2>3. CASE s # r /\ t # r
    BY <1>2, <1>4, <1>8, <2>3 DEF InFlight, IInv
  <2> QED
    BY <2>1, <2>2, <2>3
<1> QED
  BY <1>1, <1>3, <1>6, <1>8
     DEF IInv, Sound, KeepsHistory, KeepsRevisions, Keeps, Moves

-----------------------------------------------------------------------------
(***************************************************************************)
(* The batches the handlers build are typed and safe.                        *)
(***************************************************************************)
LEMMA IdsTyped ==
  ASSUME NEW d \in Docs, NEW data \in Data, NEW k \in Nat
  PROVE  /\ FreshId(k) \in RevisionIds
         /\ ProposalId(d, data) \in RevisionIds
         /\ \A u \in Users : AskedId(d, u, data) \in RevisionIds
         /\ \A key \in Identities :
              d \in Edges => KeyedProposalId(d, key) \in RevisionIds
  BY DEF FreshId, ProposalId, KeyedProposalId, AskedId, RevisionIds

LEMMA IdsFit ==
  ASSUME NEW d, NEW data, NEW u, NEW k, NEW key, NEW revision,
         revision.doc = d, revision.data = data, revision.stated = {data}
  PROVE  /\ IdFits(FreshId(k), revision)
         /\ IdFits(ProposalId(d, data), revision)
         /\ IdFits(KeyedProposalId(d, key), revision)
         /\ IdFits(AskedId(d, u, data), revision)
  BY DEF IdFits, FreshId, ProposalId, KeyedProposalId, AskedId

\* The batch of a revision that is filed and whose target is overwritten.
LEMMA CreateTyped ==
  ASSUME NEW d \in Docs, NEW data \in Data, NEW id \in RevisionIds,
         NEW at \in Nat, NEW approve \in BOOLEAN, NEW stored \in Document,
         NEW published \in BOOLEAN
  PROVE  BatchTypeOK(CreateRevisionTransaction(d, data, id, at, approve,
                                               stored, published))
<1> DEFINE status == IF approve THEN "approved" ELSE "pending"
           revision == Filing(d, data, status, at)
           pointer == IF approve THEN id ELSE stored.pointer
           page == RevisionTargetData(data, stored, published, pointer)
<1>1. revision \in Revision
  BY DEF Revision, Statuses, Filing
<1>2. page \in Document
  <2>1. pointer \in RevisionIds \cup {NoRevision}
    BY DEF Document
  <2> QED
    BY <2>1, TargetTyped
<1>3. CreateRevisionTransaction(d, data, id, at, approve, stored, published) =
        [set |-> Only(d, page), show |-> NoWrites, point |-> NoWrites,
         file |-> Only(id, revision), judge |-> NoWrites]
  BY DEF CreateRevisionTransaction
<1> HIDE DEF revision, page
<1> QED
  BY <1>1, <1>2, <1>3 DEF BatchTypeOK, Only, NoWrites

LEMMA ProposeTyped ==
  ASSUME NEW d \in Docs, NEW data \in Data, NEW id \in RevisionIds,
         NEW at \in Nat
  PROVE  BatchTypeOK(ProposeRevisionTransaction(d, data, id, at))
<1> DEFINE revision == Filing(d, data, "pending", at)
<1>1. revision \in Revision
  BY DEF Revision, Statuses, Filing
<1>2. ProposeRevisionTransaction(d, data, id, at) =
        [set |-> NoWrites, show |-> NoWrites, point |-> NoWrites,
         file |-> Only(id, revision), judge |-> NoWrites]
  BY DEF ProposeRevisionTransaction, EmptyBatch
<1> HIDE DEF revision
<1> QED
  BY <1>1, <1>2 DEF BatchTypeOK, Only, NoWrites

LEMMA ApplyTyped ==
  ASSUME NEW id \in RevisionIds, NEW revision \in Revision,
         NEW stored \in Document, NEW publish
  PROVE  BatchTypeOK(ApplyRevision(id, revision, stored, publish))
<1> DEFINE page == RevisionTargetData(revision.data, stored,
                                      ShownAs(publish, stored), id)
<1>1. revision.doc \in Docs /\ revision.data \in Data
  BY DEF Revision
<1>2. page \in Document
  <2>1. ShownAs(publish, stored) \in BOOLEAN
    BY DEF ShownAs, Document
  <2> QED
    BY <1>1, <2>1, TargetTyped
<1>3. ApplyRevision(id, revision, stored, publish) =
        [set |-> Only(revision.doc, page), show |-> NoWrites,
         point |-> NoWrites, file |-> NoWrites, judge |-> Only(id, "approved")]
  BY DEF ApplyRevision
<1> HIDE DEF page
<1> QED
  BY <1>1, <1>2, <1>3 DEF BatchTypeOK, Only, NoWrites, Statuses

LEMMA ShowTyped ==
  ASSUME NEW ds \in SUBSET Docs, NEW shown \in BOOLEAN
  PROVE  BatchTypeOK([EmptyBatch EXCEPT !.show = Each(ds, shown)])
<1>1. [EmptyBatch EXCEPT !.show = Each(ds, shown)] =
        [set |-> NoWrites, show |-> Each(ds, shown), point |-> NoWrites,
         file |-> NoWrites, judge |-> NoWrites]
  BY DEF EmptyBatch
<1> QED
  BY <1>1 DEF BatchTypeOK, NoWrites, Each

(***************************************************************************)
(* Filing a revision of a relation and overwriting the relation with it.     *)
(***************************************************************************)
LEMMA CreateIsSafe ==
  ASSUME NEW ds, NEW rs, NEW now \in Nat, Sound(ds, rs, now),
         NEW e \in Edges, NEW data \in Data, NEW approve \in BOOLEAN,
         NEW stored \in {Blank, ds[e]}, NEW published \in BOOLEAN,
         ds[e].exists \/ (~approve /\ ~published)
  PROVE  LET b == CreateRevisionTransaction(e, data, FreshId(now), now,
                                            approve, stored, published)
         IN  /\ BatchTypeOK(b)
             /\ BatchInv(b, ds, rs, now + 1)
             /\ \A id \in DOMAIN b.file : id.kind = "fresh" => id.n >= now
<1> DEFINE id == FreshId(now)
           status == IF approve THEN "approved" ELSE "pending"
           revision == Filing(e, data, status, now)
           pointer == IF approve THEN id ELSE stored.pointer
           page == RevisionTargetData(data, stored, published, pointer)
           b == CreateRevisionTransaction(e, data, id, now, approve, stored,
                                          published)
<1>0. e \in Docs /\ e \notin Nodes
  BY DisjointAssumption DEF Docs
<1>1. BatchTypeOK(b)
  <2>1. stored \in Document
    BY <1>0, BlankTyped DEF Sound
  <2>2. id \in RevisionIds
    BY DEF FreshId, RevisionIds
  <2> HIDE DEF id
  <2> QED
    BY <1>0, <2>1, <2>2, CreateTyped
<1>2. b = [set |-> Only(e, page), show |-> NoWrites, point |-> NoWrites,
           file |-> Only(id, revision), judge |-> NoWrites]
  BY DEF CreateRevisionTransaction
<1>3. id.kind = "fresh" /\ id.n = now /\ id \notin DOMAIN rs
  BY DEF FreshId, Sound, StoreInv
<1>4. FilesSafely(b, rs, now + 1)
  <2>1. /\ revision.doc = e /\ revision.data = data
        /\ revision.stated = {data} /\ revision.at < now + 1
    BY DEF Filing
  <2> HIDE DEF revision
  <2>2. IdFits(id, revision)
    BY <2>1, IdsFit
  <2> HIDE DEF id
  <2> QED
    BY <1>2, <1>3, <2>1, <2>2 DEF FilesSafely, Only
<1>5. SetsSafely(b, rs)
  <2>1. page.exists /\ page.pointer = pointer
    BY DEF RevisionTargetData
  <2>2. \/ stored.pointer = NoRevision
        \/ stored.pointer \in DOMAIN rs /\ rs[stored.pointer].doc = e
    BY <1>0 DEF Blank, Sound, StoreInv
  <2>3. /\ revision.doc = e /\ data \in revision.stated
        /\ data.text = page.text /\ data.refs = page.refs
    BY DEF RevisionTargetData, Filing
  <2> HIDE DEF id, revision, page
  <2>4. IsOnRecord(e, page, b.file)
    BY <1>2, <2>3 DEF IsOnRecord, Only
  <2> QED
    BY <1>0, <1>2, <2>1, <2>2, <2>3, <2>4 DEF SetsSafely, Only
<1>6. UpdatesSafely(b, ds, rs)
  <2>1. page.pointer = pointer /\ page.published = published /\ revision.doc = e
    BY DEF RevisionTargetData, Filing
  <2>2. ds[e].exists \/ stored.pointer = NoRevision
    BY <1>0 DEF Blank, Sound, StoreInv
  <2>3. ds[e].exists \/ Unseen(page)
    BY <2>1, <2>2 DEF Unseen
  <2> HIDE DEF id, revision, page
  <2> QED
    BY <1>2, <2>1, <2>3 DEF UpdatesSafely, NoWrites, Only
<1>7. \A i \in DOMAIN b.file : i.kind = "fresh" => i.n >= now
  <2> HIDE DEF id
  <2> QED
    BY <1>2, <1>3 DEF Only
<1> QED
  BY <1>1, <1>4, <1>5, <1>6, <1>7 DEF BatchInv

\* Filing a proposal under an id of its own.
LEMMA ProposeIsSafe ==
  ASSUME NEW ds, NEW rs, NEW now \in Nat, Sound(ds, rs, now),
         NEW d \in Docs, NEW data \in Data, d \in Edges => ds[d].exists,
         NEW id \in {FreshId(now), ProposalId(d, data)}
                     \cup {AskedId(d, u, data) : u \in Users}
                     \cup {KeyedProposalId(e, key) : e \in Edges \cap {d},
                                                    key \in Identities}
  PROVE  LET b == ProposeRevisionTransaction(d, data, id, now)
         IN  /\ BatchTypeOK(b)
             /\ BatchInv(b, ds, rs, now + 1)
             /\ \A i \in DOMAIN b.file : i.kind = "fresh" => i.n >= now
<1> DEFINE revision == Filing(d, data, "pending", now)
           b == ProposeRevisionTransaction(d, data, id, now)
<1>1. BatchTypeOK(b)
  BY IdsTyped, ProposeTyped
<1>2. b = [set |-> NoWrites, show |-> NoWrites, point |-> NoWrites,
           file |-> Only(id, revision), judge |-> NoWrites]
  BY DEF ProposeRevisionTransaction, EmptyBatch
<1>3. /\ id.kind \in {"fresh", "proposal", "asked", "keyed"}
      /\ id.kind = "fresh" => id.n = now /\ id \notin DOMAIN rs
  BY DEF FreshId, ProposalId, KeyedProposalId, AskedId, Sound, StoreInv
<1>4. FilesSafely(b, rs, now + 1)
  <2>1. /\ revision.doc = d /\ revision.data = data
        /\ revision.stated = {data} /\ revision.status = "pending"
        /\ revision.at < now + 1
    BY DEF Filing
  <2> HIDE DEF revision
  <2>2. IdFits(id, revision)
    <3>1. CASE id \in {FreshId(now), ProposalId(d, data)}
      BY <2>1, <3>1, IdsFit
    <3>2. CASE \E u \in Users : id = AskedId(d, u, data)
      BY <2>1, <3>2, IdsFit
    <3>3. CASE \E key \in Identities : id = KeyedProposalId(d, key)
      BY <2>1, <3>3, IdsFit
    <3> QED
      BY <3>1, <3>2, <3>3
  <2> QED
    BY <1>2, <1>3, <2>1, <2>2 DEF FilesSafely, Only
<1>5. SetsSafely(b, rs) /\ UpdatesSafely(b, ds, rs)
  <2>1. revision.doc = d
    BY DEF Filing
  <2> HIDE DEF revision
  <2> QED
    BY <1>2, <2>1 DEF SetsSafely, UpdatesSafely, NoWrites, Only
<1>6. \A i \in DOMAIN b.file : i.kind = "fresh" => i.n >= now
  BY <1>2, <1>3 DEF Only
<1> QED
  BY <1>1, <1>4, <1>5, <1>6 DEF BatchInv

\* Overwriting a document with a revision of it.
LEMMA ApplyIsSafe ==
  ASSUME NEW ds, NEW rs, NEW now \in Nat, Sound(ds, rs, now),
         NEW id \in DOMAIN rs, NEW publish
  PROVE  LET b == ApplyRevision(id, rs[id], ds[rs[id].doc], publish)
         IN  /\ BatchTypeOK(b)
             /\ BatchInv(b, ds, rs, now)
             /\ DOMAIN b.file = {}
<1> DEFINE d == rs[id].doc
           page == RevisionTargetData(rs[id].data, ds[d],
                                      ShownAs(publish, ds[d]), id)
           b == ApplyRevision(id, rs[id], ds[d], publish)
<1>0. id \in RevisionIds /\ rs[id] \in Revision /\ d \in Docs
  BY DEF Sound, RecordTypeOK, Revision
<1>1. BatchTypeOK(b)
  <2>1. ds[d] \in Document
    BY <1>0 DEF Sound
  <2> QED
    BY <1>0, <2>1, ApplyTyped
<1>2. b = [set |-> Only(d, page), show |-> NoWrites, point |-> NoWrites,
           file |-> NoWrites, judge |-> Only(id, "approved")]
  BY DEF ApplyRevision
<1>3. FilesSafely(b, rs, now) /\ DOMAIN b.file = {}
  BY <1>2 DEF FilesSafely, NoWrites
<1>4. SetsSafely(b, rs)
  <2>1. /\ page.exists /\ page.pointer = id
        /\ page.text = rs[id].data.text /\ page.refs = rs[id].data.refs
        /\ rs[id].data.removed => page.removed
    BY DEF RevisionTargetData
  <2>2. rs[id].data \in rs[id].stated
    BY DEF Sound, StoreInv, IdFits
  <2>3. CopiesRevision(d, page, rs) /\ IsOnRecord(d, page, rs)
    BY <2>1, <2>2 DEF CopiesRevision, IsOnRecord
  <2> HIDE DEF page
  <2> QED
    BY <1>2, <2>1, <2>3 DEF SetsSafely, Only
<1>5. UpdatesSafely(b, ds, rs)
  <2>1. d \in Edges => ds[d].exists
    BY DEF Sound, StoreInv
  <2> HIDE DEF page
  <2> QED
    BY <1>2, <2>1 DEF UpdatesSafely, NoWrites, Only
<1> QED
  BY <1>1, <1>3, <1>4, <1>5 DEF BatchInv

\* Showing pages that point at a revision, or hiding anything.
LEMMA ShowIsSafe ==
  ASSUME NEW ds, NEW rs, NEW now, NEW es \in SUBSET Docs,
         NEW shown \in BOOLEAN,
         shown => \A d \in es : /\ ds[d].exists
                                /\ d \in Nodes => ds[d].pointer # NoRevision
  PROVE  LET b == [EmptyBatch EXCEPT !.show = Each(es, shown)]
         IN  /\ BatchTypeOK(b)
             /\ BatchInv(b, ds, rs, now)
             /\ DOMAIN b.file = {}
<1> DEFINE b == [EmptyBatch EXCEPT !.show = Each(es, shown)]
<1>1. b = [set |-> NoWrites, show |-> Each(es, shown), point |-> NoWrites,
           file |-> NoWrites, judge |-> NoWrites]
  BY DEF EmptyBatch
<1>2. BatchInv(b, ds, rs, now) /\ DOMAIN b.file = {}
  BY <1>1 DEF BatchInv, FilesSafely, SetsSafely, UpdatesSafely, NoWrites, Each
<1> QED
  BY <1>2, ShowTyped

(***************************************************************************)
(* The candidate revision of a relation is one of its candidates.            *)
(***************************************************************************)
LEMMA LeastNatural ==
  ASSUME NEW T, T \subseteq Nat, T # {}
  PROVE  \E x \in T : \A y \in T : x <= y
<1> DEFINE Less == OpToRel(<, Nat)
<1>1. \A x, y \in Nat : x < y => <<x, y>> \in Less
  BY DEF OpToRel
<1>2. IsWellFoundedOn(Less, Nat)
  BY NatLessThanWellFounded
<1> HIDE DEF Less
<1>3. PICK x \in T : \A y \in T : <<y, x>> \notin Less
  BY <1>2, WFMin
<1>4. \A y \in T : ~(y < x)
  BY <1>1, <1>3
<1>5. \A y \in T : x \in Nat /\ y \in Nat
  BY <1>3
<1> QED
  BY <1>3, <1>4, <1>5

LEMMA GreatestBounded ==
  ASSUME NEW T, T \subseteq Nat, T # {}, NEW k \in Nat, \A x \in T : x < k
  PROVE  \E x \in T : \A y \in T : y <= x
<1> DEFINE Gap == {k - x : x \in T}
<1>1. Gap \subseteq Nat
  <2>1. \A x \in T : x \in Nat /\ x < k
    OBVIOUS
  <2>2. \A x \in T : k - x \in Nat
    BY <2>1
  <2> QED
    BY <2>2
<1>2. Gap # {}
  OBVIOUS
<1>3. PICK g \in Gap : \A h \in Gap : g <= h
  <2> HIDE DEF Gap
  <2> QED
    BY <1>1, <1>2, LeastNatural
<1>4. PICK x \in T : g = k - x
  OBVIOUS
<1>5. \A y \in T : x \in Nat /\ y \in Nat /\ k - x <= k - y
  BY <1>3, <1>4
<1> QED
  BY <1>5

LEMMA CandidateIsCandidate ==
  ASSUME NEW ds, NEW rs, NEW now \in Nat, Sound(ds, rs, now),
         NEW d, Candidates(rs, d) # {}
  PROVE  PublishCandidateRevision(rs, d) \in Candidates(rs, d)
<1> DEFINE Times == {rs[id].at : id \in Candidates(rs, d)}
<1>1. \A id \in Candidates(rs, d) : rs[id].at \in Nat /\ rs[id].at < now
  BY DEF Candidates, Sound, RecordTypeOK, Revision, StoreInv
<1>2. Times \subseteq Nat /\ Times # {} /\ \A x \in Times : x < now
  BY <1>1
<1>3. PICK newest \in Times : \A x \in Times : x <= newest
  <2> HIDE DEF Times
  <2> QED
    BY <1>2, GreatestBounded
<1>4. \E id \in Candidates(rs, d) :
        \A other \in Candidates(rs, d) : rs[other].at <= rs[id].at
  BY <1>3
<1> QED
  BY <1>4 DEF PublishCandidateRevision

LEMMA PublishEdgesIsSafe ==
  ASSUME NEW ds, NEW rs, NEW now \in Nat, Sound(ds, rs, now),
         NEW es \in SUBSET Edges, \A e \in es : ds[e].exists
  PROVE  LET b == PublishEdgesInBatch(ds, rs, es)
         IN  /\ BatchTypeOK(b)
             /\ BatchInv(b, ds, rs, now)
             /\ DOMAIN b.file = {}
<1> DEFINE settled == {e \in es : /\ ds[e].pointer = NoRevision
                                  /\ Candidates(rs, e) # {}}
           point == [e \in settled |-> PublishCandidateRevision(rs, e)]
           judge == Each({PublishCandidateRevision(rs, e) : e \in settled},
                         "approved")
           b == PublishEdgesInBatch(ds, rs, es)
<1>1. b = [show |-> Each(es, TRUE), point |-> point, judge |-> judge,
           set |-> NoWrites, file |-> NoWrites]
  BY DEF PublishEdgesInBatch, HasApproved
<1>2. \A e \in settled :
        /\ PublishCandidateRevision(rs, e) \in DOMAIN rs
        /\ PublishCandidateRevision(rs, e) \in RevisionIds
        /\ rs[PublishCandidateRevision(rs, e)].doc = e
  <2>1. \A e \in settled :
          PublishCandidateRevision(rs, e) \in Candidates(rs, e)
    BY CandidateIsCandidate
  <2> HIDE DEF settled
  <2> QED
    BY <2>1 DEF Candidates, Sound, RecordTypeOK
<1>3. /\ DOMAIN point = settled
      /\ \A e \in settled : point[e] \in DOMAIN rs
                           /\ point[e] \in RevisionIds /\ rs[point[e]].doc = e
  BY <1>2
<1>4. /\ DOMAIN judge \subseteq DOMAIN rs
      /\ DOMAIN judge \subseteq RevisionIds
      /\ \A id \in DOMAIN judge : judge[id] \in Statuses
  BY <1>2 DEF Each, Statuses
<1>5. settled \subseteq es /\ es \subseteq Docs
  BY DEF Docs
<1> HIDE DEF point, judge, settled
<1>6. BatchTypeOK(b)
  BY <1>1, <1>3, <1>4, <1>5 DEF BatchTypeOK, NoWrites, Each
<1>7. FilesSafely(b, rs, now) /\ SetsSafely(b, rs) /\ DOMAIN b.file = {}
  BY <1>1 DEF FilesSafely, SetsSafely, NoWrites
<1>8. UpdatesSafely(b, ds, rs)
  <2>1. \A e \in es : ds[e].exists /\ e \in Edges /\ e \notin Nodes
    BY DisjointAssumption
  <2>2. DOMAIN b.set = {} /\ DOMAIN b.file = {}
    BY <1>1 DEF NoWrites
  <2>3. \A d \in DOMAIN b.show : d \in es
    BY <1>1 DEF Each
  <2>4. \A d \in DOMAIN b.point :
          /\ d \in Edges /\ ds[d].exists
          /\ b.point[d] \in DOMAIN rs /\ rs[b.point[d]].doc = d
    BY <1>1, <1>3, <1>5, <2>1
  <2>5. DOMAIN b.judge \subseteq DOMAIN rs
    BY <1>1, <1>4
  <2> QED
    BY <2>1, <2>2, <2>3, <2>4, <2>5 DEF UpdatesSafely
<1> QED
  BY <1>6, <1>7, <1>8 DEF BatchInv

-----------------------------------------------------------------------------
(***************************************************************************)
(* Every step keeps IInv.                                                    *)
(***************************************************************************)
LEMMA InitIInv == Init => IInv
<1> SUFFICES ASSUME Init PROVE IInv
  OBVIOUS
<1>1. FirstData \in Data
  BY TextAssumption DEF FirstData, Data
<1>2. ASSUME NEW d \in Docs
      PROVE  /\ IngestedId(d) \in RevisionIds
             /\ RevisionTargetData(FirstData, Blank, d \in Live, IngestedId(d))
                  \in Document
  <2>1. IngestedId(d) \in RevisionIds
    BY DEF IngestedId, RevisionIds
  <2>2. (d \in Live) \in BOOLEAN
    OBVIOUS
  <2> QED
    BY <1>1, <2>1, <2>2, BlankTyped, TargetTyped
<1>3. docs \in [Docs -> Document]
  BY <1>2, BlankTyped DEF Init
<1>4. ASSUME NEW id \in DOMAIN revs
      PROVE  /\ id \in RevisionIds /\ revs[id] \in Revision
             /\ id.kind = "ingested" /\ revs[id].doc = id.doc
             /\ revs[id].at = 0 /\ revs[id].stated = {revs[id].data}
  <2>1. PICK d \in Ingested : id = IngestedId(d)
    BY DEF Init
  <2>2. d \in Docs /\ id.doc = d /\ id.kind = "ingested"
    BY <2>1, IngestedAssumption DEF IngestedId
  <2>3. revs[id] = Filing(d, FirstData, "approved", 0)
    BY <2>2 DEF Init
  <2>4. id \in RevisionIds
    BY <1>2, <2>1, <2>2
  <2> QED
    BY <1>1, <2>2, <2>3, <2>4 DEF Revision, Statuses, Filing
<1>5. ASSUME NEW d \in Docs
      PROVE  \/ docs[d] = Blank
             \/ /\ docs[d].exists /\ docs[d].pointer = IngestedId(d)
                /\ IngestedId(d) \in DOMAIN revs
                /\ revs[IngestedId(d)].doc = d
                /\ docs[d].text = revs[IngestedId(d)].data.text
                /\ docs[d].refs = revs[IngestedId(d)].data.refs
                /\ ~revs[IngestedId(d)].data.removed
  <2>1. CASE d \in Ingested
    <3>1. docs[d] = RevisionTargetData(FirstData, Blank, d \in Live,
                                       IngestedId(d))
      BY <2>1 DEF Init
    <3>2. IngestedId(d) \in DOMAIN revs
      BY <2>1 DEF Init
    <3>3. revs[IngestedId(d)] =
            Filing(IngestedId(d).doc, FirstData, "approved", 0)
      BY <3>2 DEF Init
    <3> QED
      BY <3>1, <3>2, <3>3 DEF RevisionTargetData, IngestedId, FirstData, Filing
  <2>2. CASE d \notin Ingested
    BY <2>2 DEF Init
  <2> QED
    BY <2>1, <2>2
<1>6. StoreInv(docs, revs, clock)
  <2>1. clock = 1
    BY DEF Init
  <2>2. \A id \in DOMAIN revs :
          /\ IdFits(id, revs[id]) /\ revs[id].at < clock
          /\ id.kind = "fresh" => id.n < clock
          /\ revs[id].doc \in Edges => docs[revs[id].doc].exists
    <3>1. ASSUME NEW id \in DOMAIN revs
          PROVE  docs[revs[id].doc].exists
      <4>1. PICK d \in Ingested : id = IngestedId(d)
        BY DEF Init
      <4>2. d \in Docs /\ id.doc = d
        BY <4>1, IngestedAssumption DEF IngestedId
      <4>3. docs[d].exists
        BY <4>2 DEF Init, RevisionTargetData
      <4> QED
        BY <1>4, <4>2, <4>3
    <3> QED
      BY <1>4, <2>1, <3>1 DEF IdFits
  <2>3. \A d \in Docs :
          docs[d].pointer # NoRevision =>
            /\ docs[d].exists
            /\ docs[d].pointer \in DOMAIN revs
            /\ revs[docs[d].pointer].doc = d
    BY <1>5 DEF Blank
  <2>4. ASSUME NEW n \in Nodes
        PROVE  /\ docs[n].published => docs[n].pointer # NoRevision
               /\ docs[n].pointer # NoRevision =>
                    CopiesRevision(n, docs[n], revs)
    <3>1. n \in Docs
      BY DEF Docs
    <3>2. CASE docs[n] = Blank
      BY <3>2 DEF Blank
    <3>3. CASE docs[n] # Blank
      <4>1. docs[n].pointer = IngestedId(n) /\ IngestedId(n) \in RevisionIds
        BY <1>2, <1>5, <3>1, <3>3
      <4> QED
        BY <1>5, <3>1, <3>3, <4>1, NoRevisionIsNoId DEF CopiesRevision
    <3> QED
      BY <3>2, <3>3
  <2>5. \A d \in Docs : docs[d].exists => IsOnRecord(d, docs[d], revs)
    BY <1>4, <1>5 DEF Blank, IsOnRecord
  <2>6. \A d \in Docs : docs[d].published => docs[d].exists
    BY <1>5 DEF Blank
  <2> QED
    BY <2>2, <2>3, <2>4, <2>5, <2>6 DEF StoreInv
<1>7. TypeOK /\ InFlight = {}
  BY <1>3, <1>4 DEF Init, TypeOK, RequestTypeOK, InFlight, Idle
<1> QED
  BY <1>6, <1>7 DEF IInv

\* A handler that has read puts one safe batch in flight.
LEMMA WillCommitStep ==
  ASSUME IInv, clock' \in Nat, clock <= clock', NEW r \in Requests,
         NEW body, NEW b, WillCommit(r, body, b),
         BatchTypeOK(b), BatchInv(b, docs, revs, clock'),
         \A id \in DOMAIN b.file : id.kind = "fresh" => id.n >= clock
  PROVE  IInv' /\ KeepsHistory
<1> DEFINE q == [at |-> "commit", body |-> body, batch |-> b]
<1>1. /\ q.at = "commit" /\ q.batch = b
      /\ req' = [req EXCEPT ![r] = q] /\ UNCHANGED <<docs, revs>>
  BY DEF WillCommit
<1> HIDE DEF q
<1>2. RequestTypeOK(q)
  BY <1>1 DEF RequestTypeOK
<1> QED
  BY <1>1, <1>2, ReadStep

LEMMA ClockTicks ==
  ASSUME IInv
  PROVE  /\ clock \in Nat
         /\ TakesTime => clock' = clock + 1 /\ clock' \in Nat /\ clock <= clock'
         /\ UNCHANGED clock => clock' \in Nat /\ clock <= clock'
  BY DEF IInv, TypeOK, TakesTime

LEMMA StoredTyped ==
  ASSUME IInv, NEW d \in Docs
  PROVE  /\ docs[d] \in Document
         /\ docs[d].text \in Texts /\ docs[d].refs \in SUBSET Articles
         /\ docs[d].published \in BOOLEAN
  BY DEF IInv, TypeOK, Document

\* The batch of a new page is safe to commit at once.
LEMMA ProposeNodeIsSafe ==
  ASSUME IInv, NEW n \in Nodes, NEW t \in Texts, ~docs[n].exists
  PROVE  Safe(CreateRevisionTransaction(n,
                [text |-> t, refs |-> {}, removed |-> FALSE],
                FreshId(clock), clock, FALSE, Blank, FALSE),
              docs, revs, clock + 1)
<1> DEFINE data == [text |-> t, refs |-> {}, removed |-> FALSE]
           id == FreshId(clock)
           revision == Filing(n, data, "pending", clock)
           page == RevisionTargetData(data, Blank, FALSE, NoRevision)
           b == CreateRevisionTransaction(n, data, id, clock, FALSE, Blank,
                                          FALSE)
<1>0. n \in Docs /\ data \in Data
  BY DEF Docs, Data
<1>1. clock \in Nat /\ clock + 1 \in Nat
  BY ClockTicks
<1>2. id \in RevisionIds /\ id.kind = "fresh" /\ id.n = clock
  BY <1>1 DEF FreshId, RevisionIds
<1>3. BatchTypeOK(b)
  <2> HIDE DEF data, id
  <2> QED
    BY <1>0, <1>1, <1>2, BlankTyped, CreateTyped
<1>4. b = [file |-> Only(id, revision), set |-> Only(n, page),
           show |-> NoWrites, point |-> NoWrites, judge |-> NoWrites]
  BY DEF CreateRevisionTransaction, Blank
<1>5. /\ page.exists /\ page.pointer = NoRevision /\ ~page.published
      /\ revision.doc = n /\ revision.at = clock /\ IdFits(id, revision)
      /\ data \in revision.stated
      /\ data.text = page.text /\ data.refs = page.refs
  <2>1. /\ revision.doc = n /\ revision.data = data
        /\ revision.stated = {data} /\ revision.at = clock
    BY DEF Filing
  <2>2. /\ page.exists /\ page.pointer = NoRevision /\ ~page.published
        /\ data.text = page.text /\ data.refs = page.refs
    BY DEF RevisionTargetData
  <2> HIDE DEF revision, page, data
  <2>3. IdFits(id, revision)
    BY <2>1, IdsFit
  <2> QED
    BY <2>1, <2>2, <2>3
<1>6. docs[n].pointer = NoRevision /\ id \notin DOMAIN revs
  BY <1>0, <1>1, <1>2 DEF IInv, StoreInv
<1> HIDE DEF id, revision, page, data, b
<1>7. FilesSafely(b, revs, clock + 1)
  BY <1>1, <1>2, <1>4, <1>5, <1>6 DEF FilesSafely, Only
<1>8. Overwrites(b, docs, revs)
  <2>1. IsOnRecord(n, page, b.file)
    BY <1>4, <1>5 DEF IsOnRecord, Only
  <2> QED
    BY <1>4, <1>5, <1>6, <2>1 DEF Overwrites, Only
<1>9. UpdatesSafely(b, docs, revs)
  BY <1>4, <1>5 DEF UpdatesSafely, Unseen, NoWrites, Only
<1> QED
  BY <1>3, <1>7, <1>8, <1>9 DEF Safe, b, data, id

LEMMA ProposeNodeStep ==
  ASSUME IInv, NEW r \in Requests, ProposeNode(r)
  PROVE  IInv' /\ KeepsHistory
<1> PICK n \in Nodes, t \in Texts :
       /\ ~docs[n].exists
       /\ Write(CreateRevisionTransaction(n,
                  [text |-> t, refs |-> {}, removed |-> FALSE],
                  FreshId(clock), clock, FALSE, Blank, FALSE))
  BY DEF ProposeNode, Unused
<1> DEFINE data == [text |-> t, refs |-> {}, removed |-> FALSE]
           b == CreateRevisionTransaction(n, data, FreshId(clock), clock, FALSE,
                                          Blank, FALSE)
<1>1. clock \in Nat /\ clock' = clock + 1 /\ clock' \in Nat /\ clock <= clock'
  BY ClockTicks DEF ProposeNode
<1>2. Safe(b, docs, revs, clock')
  BY <1>1, ProposeNodeIsSafe
<1>3. DOMAIN b.file = {FreshId(clock)} /\ FreshId(clock).n = clock
  BY DEF CreateRevisionTransaction, Only, FreshId
<1>4. Write(b)
  OBVIOUS
<1> HIDE DEF b
<1>5. \A s \in InFlight : FreshApart(b, req[s].batch)
  <2> SUFFICES ASSUME NEW s \in InFlight PROVE FreshApart(b, req[s].batch)
    OBVIOUS
  <2>1. BatchTypeOK(req[s].batch)
    BY InFlightTyped DEF InFlight, IInv, TypeOK
  <2>2. FilesSafely(req[s].batch, revs, clock)
    BY DEF IInv, BatchInv
  <2>3. \A i \in DOMAIN b.file : i.kind = "fresh" => i.n >= clock
    BY <1>1, <1>3
  <2>4. BatchTypeOK(b)
    BY <1>2 DEF Safe
  <2> QED
    BY <1>1, <2>1, <2>2, <2>3, <2>4, FreshIdsApart
<1>6. req' = req /\ DOMAIN req' = Requests
  BY DEF ProposeNode, IInv, TypeOK
<1> QED
  BY <1>1, <1>2, <1>4, <1>5, <1>6, WriteStep

LEMMA ProposeForNodeStep ==
  ASSUME IInv, NEW r \in Requests, NEW call, NEW n \in Nodes, NEW u \in Users,
         NEW data \in Data, ProposeForNode(r, call, n, u, data)
  PROVE  IInv' /\ KeepsHistory
<1>1. PICK id \in {FreshId(clock), AskedId(n, u, data)} :
        WillCommit(r, [call |-> call],
                   ProposeRevisionTransaction(n, data, id, clock))
  BY DEF ProposeForNode, ProposedUnder
<1>2. clock \in Nat /\ clock' = clock + 1 /\ clock' \in Nat /\ clock <= clock'
  BY ClockTicks DEF ProposeForNode
<1>3. Sound(docs, revs, clock) /\ n \in Docs
  BY IInvIsSound DEF Docs
<1>4. n \notin Edges
  BY DisjointAssumption
<1> QED
  BY <1>1, <1>2, <1>3, <1>4, ProposeIsSafe, WillCommitStep

LEMMA ProposalSteps ==
  ASSUME IInv, NEW r \in Requests, ProposeEdit(r) \/ ProposeRemoval(r)
  PROVE  IInv' /\ KeepsHistory
<1>1. CASE ProposeEdit(r)
  <2>1. PICK n \in Nodes, u \in Users, t \in Texts :
          ProposeForNode(r, "proposeEdit", n, u,
                         [text |-> t, refs |-> {}, removed |-> FALSE])
    BY <1>1 DEF ProposeEdit
  <2>2. [text |-> t, refs |-> {}, removed |-> FALSE] \in Data
    BY DEF Data
  <2> QED
    BY <2>1, <2>2, ProposeForNodeStep
<1>2. CASE ProposeRemoval(r)
  <2>1. PICK n \in Nodes, u \in Users :
          ProposeForNode(r, "proposeRemoval", n, u,
                         [text |-> docs[n].text, refs |-> {}, removed |-> TRUE])
    BY <1>2 DEF ProposeRemoval
  <2>2. [text |-> docs[n].text, refs |-> {}, removed |-> TRUE] \in Data
    BY StoredTyped DEF Docs, Data
  <2> QED
    BY <2>1, <2>2, ProposeForNodeStep
<1> QED
  BY <1>1, <1>2

\* The relation `e` is filed a revision of, and overwritten with it.
LEMMA CreateStep ==
  ASSUME IInv, NEW r \in Requests, NEW body, TakesTime,
         NEW e \in Edges, NEW data \in Data, NEW approve \in BOOLEAN,
         NEW stored \in {Blank, docs[e]}, NEW published \in BOOLEAN,
         docs[e].exists \/ (~approve /\ ~published),
         WillCommit(r, body, CreateRevisionTransaction(e, data, FreshId(clock),
                               clock, approve, stored, published))
  PROVE  IInv' /\ KeepsHistory
<1>1. clock \in Nat /\ clock' = clock + 1 /\ clock' \in Nat /\ clock <= clock'
  BY ClockTicks
<1>2. Sound(docs, revs, clock)
  BY IInvIsSound
<1> QED
  BY <1>1, <1>2, CreateIsSafe, WillCommitStep

LEMMA EdgeSteps ==
  ASSUME IInv, NEW r \in Requests,
         CreateEdge(r) \/ CorrectEdge(r) \/ ProposeEdge(r) \/ EnrichEdge(r)
           \/ DeleteEdge(r) \/ CiteEdge(r)
  PROVE  IInv' /\ KeepsHistory
<1>0. Edges \subseteq Docs
  BY DEF Docs
<1>1. CASE CreateEdge(r)
  <2>1. PICK e \in Edges, t \in Texts :
          WillCommit(r, [call |-> "createEdge", doc |-> e],
            CreateRevisionTransaction(e,
              [text |-> t, refs |-> {}, removed |-> FALSE],
              FreshId(clock), clock, FALSE, Blank, FALSE))
    BY <1>1 DEF CreateEdge
  <2>2. [text |-> t, refs |-> {}, removed |-> FALSE] \in Data /\ TakesTime
    BY <1>1 DEF Data, CreateEdge
  <2> QED
    BY <2>1, <2>2, CreateStep
<1>2. CASE CorrectEdge(r)
  <2>1. PICK e \in Edges, t \in Texts :
          /\ docs[e].exists
          /\ WillCommit(r, [call |-> "correctEdge"],
               CreateRevisionTransaction(e, Corrected(e, t),
                 FreshId(clock), clock, TRUE, docs[e], docs[e].published))
    BY <1>2 DEF CorrectEdge
  <2>2. Corrected(e, t) \in Data /\ docs[e].published \in BOOLEAN
    BY <1>0, StoredTyped DEF Corrected, Data
  <2>3. TakesTime
    BY <1>2 DEF CorrectEdge
  <2>4. docs[e].exists \/ (~TRUE /\ ~docs[e].published)
    BY <2>1
  <2> QED
    BY <2>1, <2>2, <2>3, <2>4, CreateStep
<1>3. CASE ProposeEdge(r)
  <2>1. PICK e \in Edges, t \in Texts :
          /\ docs[e].exists
          /\ WillCommit(r, [call |-> "proposeEdge"],
               ProposeRevisionTransaction(e, Corrected(e, t),
                 ProposalId(e, Corrected(e, t)), clock))
    BY <1>3 DEF ProposeEdge
  <2>2. Corrected(e, t) \in Data /\ e \in Docs
    BY <1>0, StoredTyped DEF Corrected, Data
  <2>3. /\ clock \in Nat /\ clock' = clock + 1
        /\ clock' \in Nat /\ clock <= clock'
    BY <1>3, ClockTicks DEF ProposeEdge
  <2>4. LET b == ProposeRevisionTransaction(e, Corrected(e, t),
                   ProposalId(e, Corrected(e, t)), clock)
        IN  /\ BatchTypeOK(b)
            /\ BatchInv(b, docs, revs, clock + 1)
            /\ \A id \in DOMAIN b.file : id.kind = "fresh" => id.n >= clock
    <3>1. Sound(docs, revs, clock)
      BY IInvIsSound
    <3> QED
      BY <2>1, <2>2, <2>3, <3>1, ProposeIsSafe
  <2> QED
    BY <2>1, <2>3, <2>4, WillCommitStep
<1>4. CASE DeleteEdge(r)
  <2>1. PICK e \in Edges :
          /\ docs[e].exists
          /\ WillCommit(r, [call |-> "deleteEdge"],
               CreateRevisionTransaction(e,
                 [text |-> docs[e].text, refs |-> docs[e].refs, removed |-> TRUE],
                 FreshId(clock), clock, TRUE, docs[e], FALSE))
    BY <1>4 DEF DeleteEdge
  <2>2. [text |-> docs[e].text, refs |-> docs[e].refs, removed |-> TRUE] \in Data
    BY <1>0, StoredTyped DEF Data
  <2>3. TakesTime
    BY <1>4 DEF DeleteEdge
  <2> QED
    BY <2>1, <2>2, <2>3, CreateStep
<1>5. CASE CiteEdge(r)
  <2>1. PICK e \in Edges, add \in SUBSET Articles, drop \in SUBSET Articles :
          /\ docs[e].exists
          /\ WillCommit(r, [call |-> "citeEdge", doc |-> e, add |-> add,
                            drop |-> drop],
               CreateRevisionTransaction(e,
                 [text |-> docs[e].text, refs |-> (docs[e].refs \ drop) \cup add,
                  removed |-> FALSE],
                 FreshId(clock), clock, FALSE, docs[e], docs[e].published))
    BY <1>5 DEF CiteEdge
  <2>2. /\ [text |-> docs[e].text, refs |-> (docs[e].refs \ drop) \cup add,
            removed |-> FALSE] \in Data
        /\ docs[e].published \in BOOLEAN
    BY <1>0, StoredTyped DEF Data
  <2>3. TakesTime
    BY <1>5 DEF CiteEdge
  <2>4. docs[e].exists \/ (~FALSE /\ ~docs[e].published)
    BY <2>1
  <2> QED
    BY <2>1, <2>2, <2>3, <2>4, CreateStep
<1>6. CASE EnrichEdge(r)
  <2>1. PICK e \in Edges, x \in Enrichments :
          /\ docs[e].exists
          /\ \/ WillCommit(r, [call |-> "enrichEdge"],
                  CreateRevisionTransaction(e, Corrected(e, x.filled),
                    FreshId(clock), clock, TRUE, docs[e], docs[e].published))
             \/ WillCommit(r, [call |-> "enrichEdge"],
                  ProposeRevisionTransaction(e, Corrected(e, x.filled),
                    KeyedProposalId(e, x.identity), clock))
    BY <1>6 DEF EnrichEdge
  <2>2. x.filled \in Texts /\ x.identity \in Identities
    BY EnrichmentsAssumption
  <2>3. /\ Corrected(e, x.filled) \in Data /\ docs[e].published \in BOOLEAN
        /\ e \in Docs
    BY <1>0, <2>2, StoredTyped DEF Corrected, Data
  <2>4. TakesTime
    BY <1>6 DEF EnrichEdge
  <2>5. CASE WillCommit(r, [call |-> "enrichEdge"],
               CreateRevisionTransaction(e, Corrected(e, x.filled),
                 FreshId(clock), clock, TRUE, docs[e], docs[e].published))
    <3>1. docs[e].exists \/ (~TRUE /\ ~docs[e].published)
      BY <2>1
    <3> QED
      BY <2>3, <2>4, <2>5, <3>1, CreateStep
  <2>6. CASE WillCommit(r, [call |-> "enrichEdge"],
               ProposeRevisionTransaction(e, Corrected(e, x.filled),
                 KeyedProposalId(e, x.identity), clock))
    <3>1. /\ clock \in Nat /\ clock' = clock + 1
          /\ clock' \in Nat /\ clock <= clock'
      BY <2>4, ClockTicks
    <3>2. LET b == ProposeRevisionTransaction(e, Corrected(e, x.filled),
                     KeyedProposalId(e, x.identity), clock)
          IN  /\ BatchTypeOK(b)
              /\ BatchInv(b, docs, revs, clock + 1)
              /\ \A id \in DOMAIN b.file : id.kind = "fresh" => id.n >= clock
      <4>1. Sound(docs, revs, clock)
        BY IInvIsSound
      <4>2. KeyedProposalId(e, x.identity) \in
              {KeyedProposalId(f, key) : f \in Edges \cap {e}, key \in Identities}
        BY <2>2
      <4> QED
        BY <2>1, <2>3, <3>1, <4>1, <4>2, ProposeIsSafe
    <3> QED
      BY <2>6, <3>1, <3>2, WillCommitStep
  <2> QED
    BY <2>1, <2>5, <2>6
<1> QED
  BY <1>1, <1>2, <1>3, <1>4, <1>5, <1>6

\* Steps that put a batch in flight and file nothing.
LEMMA DecideStep ==
  ASSUME IInv, NEW r \in Requests, NEW body, NEW b, WillCommit(r, body, b),
         UNCHANGED clock, BatchTypeOK(b), BatchInv(b, docs, revs, clock),
         DOMAIN b.file = {}
  PROVE  IInv' /\ KeepsHistory
<1>1. clock' = clock /\ clock' \in Nat /\ clock <= clock'
  BY ClockTicks
<1> QED
  BY <1>1, WillCommitStep

LEMMA DecisionSteps ==
  ASSUME IInv, NEW r \in Requests,
         Approve(r) \/ Reject(r) \/ PublishNode(r) \/ PublishEdges(r)
           \/ HideEdges(r) \/ TagArticles(r)
  PROVE  IInv' /\ KeepsHistory
<1>0. /\ Nodes \subseteq Docs /\ Edges \subseteq Docs
      /\ clock \in Nat /\ Sound(docs, revs, clock)
  BY IInvIsSound DEF Docs, Sound
<1>1. CASE Approve(r)
  <2>1. PICK id \in DOMAIN revs, publish \in Verdicts :
          WillCommit(r, [call |-> "approve", doc |-> revs[id].doc,
                         publish |-> publish],
                     ApplyRevision(id, revs[id], docs[revs[id].doc], publish))
    BY <1>1 DEF Approve
  <2>2. UNCHANGED clock
    BY <1>1 DEF Approve
  <2> QED
    BY <1>0, <2>1, <2>2, ApplyIsSafe, DecideStep
<1>2. CASE Reject(r)
  <2> DEFINE rejection(id) == [EmptyBatch EXCEPT !.judge = Only(id, "rejected")]
  <2>1. PICK id \in DOMAIN revs :
          WillCommit(r, [call |-> "reject"], rejection(id))
    BY <1>2 DEF Reject
  <2>2. UNCHANGED clock
    BY <1>2 DEF Reject
  <2>3. rejection(id) = [set |-> NoWrites, show |-> NoWrites,
                         point |-> NoWrites, file |-> NoWrites,
                         judge |-> Only(id, "rejected")]
    BY DEF EmptyBatch
  <2>4. id \in RevisionIds
    BY <1>0 DEF Sound, RecordTypeOK
  <2> HIDE DEF rejection
  <2>5. BatchTypeOK(rejection(id))
    BY <2>3, <2>4 DEF BatchTypeOK, NoWrites, Only, Statuses
  <2>6. BatchInv(rejection(id), docs, revs, clock)
        /\ DOMAIN rejection(id).file = {}
    BY <2>3 DEF BatchInv, FilesSafely, SetsSafely, UpdatesSafely, NoWrites,
                Only
  <2> QED
    BY <2>1, <2>2, <2>5, <2>6, DecideStep
<1>3. CASE PublishNode(r)
  <2>1. PICK n \in Nodes :
          /\ docs[n].exists /\ docs[n].pointer # NoRevision
          /\ WillCommit(r, [call |-> "publishNode"],
                        [EmptyBatch EXCEPT !.show = Only(n, TRUE)])
    BY <1>3 DEF PublishNode, HasApproved
  <2>2. UNCHANGED clock
    BY <1>3 DEF PublishNode
  <2>3. Only(n, TRUE) = Each({n}, TRUE)
    BY DEF Only, Each
  <2>4. /\ {n} \in SUBSET Docs
        /\ \A m \in {n} : docs[m].exists /\ docs[m].pointer # NoRevision
    BY <1>0, <2>1
  <2> QED
    BY <2>1, <2>2, <2>3, <2>4, ShowIsSafe, DecideStep
<1>4. CASE PublishEdges(r)
  <2>1. PICK es \in SUBSET Edges :
          /\ \A e \in es : docs[e].exists
          /\ WillCommit(r, [call |-> "publishEdges", edges |-> es],
                        PublishEdgesInBatch(docs, revs, es))
    BY <1>4 DEF PublishEdges
  <2>2. UNCHANGED clock
    BY <1>4 DEF PublishEdges
  <2> QED
    BY <1>0, <2>1, <2>2, PublishEdgesIsSafe, DecideStep
<1>5. CASE HideEdges(r)
  <2>1. PICK es \in SUBSET Edges :
          WillCommit(r, [call |-> "hideEdges"],
                     [EmptyBatch EXCEPT !.show = Each(es, FALSE)])
    BY <1>5 DEF HideEdges, HideInBatch
  <2>2. UNCHANGED clock
    BY <1>5 DEF HideEdges
  <2>3. es \in SUBSET Docs
    BY <1>0
  <2> QED
    BY <2>1, <2>2, <2>3, ShowIsSafe, DecideStep
<1>6. CASE TagArticles(r)
  <2> DEFINE es == {e \in req[r].edges : /\ Target[e] = req[r].node
                                         /\ docs[e].exists
                                         /\ ~docs[e].removed}
  <2>1. /\ WillCommit(r, [call |-> "approveTopic"],
                      PublishEdgesInBatch(docs, revs, es))
        /\ UNCHANGED clock /\ req[r].at = "tag"
    BY <1>6 DEF TagArticles
  <2>2. req[r].edges \subseteq Tags
    BY <2>1 DEF IInv, TypeOK, RequestTypeOK, Idle
  <2>3. es \in SUBSET Edges /\ \A e \in es : docs[e].exists
    BY <2>2, KindsAssumption
  <2> QED
    BY <1>0, <2>1, <2>3, PublishEdgesIsSafe, DecideStep
<1> QED
  BY <1>1, <1>2, <1>3, <1>4, <1>5, <1>6

\* A request commits the batch it has in flight.
LEMMA CommitStep ==
  ASSUME IInv, NEW r \in InFlight, Write(req[r].batch), UNCHANGED clock,
         NEW q, req' = [req EXCEPT ![r] = q], RequestTypeOK(q),
         q.at \notin {"commit", "topic"}
  PROVE  IInv' /\ KeepsHistory
<1>1. clock' = clock /\ clock' \in Nat /\ clock <= clock'
  BY ClockTicks
<1>2. BatchTypeOK(req[r].batch) /\ BatchInv(req[r].batch, docs, revs, clock')
  BY <1>1, InFlightTyped DEF InFlight, IInv, TypeOK
<1>3. Safe(req[r].batch, docs, revs, clock')
  BY <1>2, BatchInvIsSafe
<1>4. /\ DOMAIN req' = Requests /\ r \in Requests /\ req'[r] = q
      /\ \A s \in Requests \ {r} : req'[s] = req[s]
  BY DEF IInv, TypeOK, InFlight
<1>5. \A s \in InFlight \ {r} : FreshApart(req[r].batch, req[s].batch)
  BY DEF IInv
<1> QED
  BY <1>1, <1>3, <1>4, <1>5, WriteStep

\* A request hides documents.
LEMMA HideStep ==
  ASSUME IInv, NEW r \in Requests, NEW es \in SUBSET Docs,
         Write(HideInBatch(es)), UNCHANGED clock,
         NEW q, req' = [req EXCEPT ![r] = q], RequestTypeOK(q),
         q.at \notin {"commit", "topic"}
  PROVE  IInv' /\ KeepsHistory
<1> DEFINE b == [EmptyBatch EXCEPT !.show = Each(es, FALSE)]
<1>1. clock' = clock /\ clock' \in Nat /\ clock <= clock'
  BY ClockTicks
<1>2. BatchTypeOK(b) /\ BatchInv(b, docs, revs, clock') /\ DOMAIN b.file = {}
  BY ShowIsSafe
<1>3. Write(b)
  BY DEF HideInBatch
<1> HIDE DEF b
<1>4. Safe(b, docs, revs, clock')
  BY <1>2, BatchInvIsSafe
<1>5. /\ DOMAIN req' = Requests /\ req'[r] = q
      /\ \A s \in Requests \ {r} : req'[s] = req[s]
  BY DEF IInv, TypeOK
<1>6. \A s \in InFlight : FreshApart(b, req[s].batch)
  BY <1>2 DEF FreshApart
<1> QED
  BY <1>1, <1>3, <1>4, <1>5, <1>6, WriteStep

LEMMA HideNodeSteps ==
  ASSUME IInv, NEW r \in Requests,
         HideNode(r) \/ CascadeUnpublishEdges(r) \/ HideNodeAtLast(r)
  PROVE  IInv' /\ KeepsHistory
<1>0. Nodes \subseteq Docs /\ Edges \subseteq Docs
  BY DEF Docs
<1>1. CASE HideNode(r)
  <2>1. PICK n \in Nodes :
          req' = [req EXCEPT ![r] =
                    [at |-> "hide", node |-> n,
                     edges |-> {e \in EdgesOf(n) : PageIsPublic(docs[e])}]]
    BY <1>1 DEF HideNode
  <2> DEFINE q == [at |-> "hide", node |-> n,
                   edges |-> {e \in EdgesOf(n) : PageIsPublic(docs[e])}]
  <2>2. RequestTypeOK(q) /\ q.at = "hide"
    BY DEF RequestTypeOK, EdgesOf
  <2>3. UNCHANGED <<docs, revs>> /\ clock' \in Nat /\ clock <= clock'
    BY <1>1, ClockTicks DEF HideNode
  <2> HIDE DEF q
  <2>4. req' = [req EXCEPT ![r] = q]
    BY <2>1 DEF q
  <2> QED
    BY <2>2, <2>3, <2>4, ReadStep
<1>2. CASE CascadeUnpublishEdges(r)
  <2>1. PICK chunk \in SUBSET req[r].edges :
          /\ Write(HideInBatch(chunk))
          /\ req' = [req EXCEPT ![r].edges = @ \ chunk]
    BY <1>2 DEF CascadeUnpublishEdges
  <2>2. req[r] \in [at: {"hide"}, node: Nodes, edges: SUBSET Edges]
    <3>1. req[r].at = "hide" /\ RequestTypeOK(req[r])
      BY <1>2 DEF CascadeUnpublishEdges, IInv, TypeOK
    <3> QED
      BY <3>1 DEF RequestTypeOK, Idle
  <2> DEFINE q == [req[r] EXCEPT !.edges = @ \ chunk]
  <2>3. q \in [at: {"hide"}, node: Nodes, edges: SUBSET Edges]
    BY <2>2
  <2>4. req' = [req EXCEPT ![r] = q]
    BY <2>1
  <2> HIDE DEF q
  <2>5. RequestTypeOK(q) /\ q.at \notin {"commit", "topic"}
    BY <2>3 DEF RequestTypeOK
  <2>6. chunk \in SUBSET Docs /\ UNCHANGED clock
    BY <1>0, <1>2, <2>2 DEF CascadeUnpublishEdges
  <2> QED
    BY <2>1, <2>4, <2>5, <2>6, HideStep
<1>3. CASE HideNodeAtLast(r)
  <2>1. req[r].at = "hide" /\ RequestTypeOK(req[r])
    BY <1>3 DEF HideNodeAtLast, IInv, TypeOK
  <2>2. {req[r].node} \in SUBSET Docs
    BY <1>0, <2>1 DEF RequestTypeOK, Idle
  <2>3. RequestTypeOK(Idle) /\ Idle.at \notin {"commit", "topic"}
    BY DEF RequestTypeOK, Idle
  <2>4. /\ Write(HideInBatch({req[r].node})) /\ UNCHANGED clock
        /\ req' = [req EXCEPT ![r] = Idle]
    BY <1>3 DEF HideNodeAtLast
  <2> QED
    BY <2>2, <2>3, <2>4, HideStep
<1> QED
  BY <1>1, <1>2, <1>3

LEMMA ApproveTopicStep ==
  ASSUME IInv, NEW r \in Requests, ApproveTopic(r)
  PROVE  IInv' /\ KeepsHistory
<1>0. clock \in Nat /\ Sound(docs, revs, clock)
  BY IInvIsSound DEF Sound
<1>1. UNCHANGED <<docs, revs>> /\ clock' = clock /\ clock' \in Nat
      /\ clock <= clock'
  BY ClockTicks DEF ApproveTopic
<1>2. PICK n \in Topics, es \in SUBSET Tags :
        \/ req' = [req EXCEPT ![r] = [at |-> "tag", node |-> n, edges |-> es]]
        \/ /\ Candidates(revs, n) # {}
           /\ LET id == PublishCandidateRevision(revs, n)
              IN  req' = [req EXCEPT ![r] =
                            [at |-> "topic", node |-> n, edges |-> es,
                             batch |-> ApplyRevision(id, revs[id], docs[n],
                                                     "show")]]
  BY DEF ApproveTopic
<1>3. CASE req' = [req EXCEPT ![r] = [at |-> "tag", node |-> n, edges |-> es]]
  <2> DEFINE q == [at |-> "tag", node |-> n, edges |-> es]
  <2>1. RequestTypeOK(q) /\ q.at \notin {"commit", "topic"}
    BY DEF RequestTypeOK
  <2> QED
    BY <1>1, <1>3, <2>1, ReadStep
<1>4. ASSUME Candidates(revs, n) # {},
             req' = [req EXCEPT ![r] =
                       [at |-> "topic", node |-> n, edges |-> es,
                        batch |-> ApplyRevision(
                                    PublishCandidateRevision(revs, n),
                                    revs[PublishCandidateRevision(revs, n)],
                                    docs[n], "show")]]
      PROVE  IInv' /\ KeepsHistory
  <2> DEFINE id == PublishCandidateRevision(revs, n)
             b == ApplyRevision(id, revs[id], docs[n], "show")
             q == [at |-> "topic", node |-> n, edges |-> es, batch |-> b]
  <2>1. id \in DOMAIN revs /\ revs[id].doc = n
    BY <1>0, <1>4, CandidateIsCandidate DEF Candidates
  <2>2. BatchTypeOK(b) /\ BatchInv(b, docs, revs, clock) /\ DOMAIN b.file = {}
    <3> HIDE DEF id
    <3> QED
      BY <1>0, <2>1, ApplyIsSafe
  <2> HIDE DEF b
  <2>3. /\ q.at = "topic" /\ q.batch = b /\ q.node = n /\ q.edges = es
        /\ req' = [req EXCEPT ![r] = q]
    BY <1>4 DEF b
  <2> HIDE DEF q
  <2>4. RequestTypeOK(q)
    BY <2>2, <2>3 DEF RequestTypeOK
  <2> QED
    BY <1>1, <2>2, <2>3, <2>4, ReadStep
<1> QED
  BY <1>2, <1>3, <1>4

LEMMA CommitSteps ==
  ASSUME IInv, NEW r \in Requests, Commit(r) \/ CommitTopic(r) \/ Fail(r)
  PROVE  IInv' /\ KeepsHistory
<1>0. RequestTypeOK(Idle) /\ Idle.at \notin {"commit", "topic"}
  BY DEF RequestTypeOK, Idle
<1>1. CASE Commit(r)
  BY <1>0, <1>1, CommitStep DEF Commit, InFlight
<1>2. CASE CommitTopic(r)
  <2> DEFINE q == [at |-> "tag", node |-> req[r].node, edges |-> req[r].edges]
  <2>1. req[r].at = "topic" /\ RequestTypeOK(req[r])
    BY <1>2 DEF CommitTopic, IInv, TypeOK
  <2>2. req[r].node \in Topics /\ req[r].edges \subseteq Tags
    BY <2>1 DEF RequestTypeOK, Idle
  <2>3. RequestTypeOK(q) /\ q.at \notin {"commit", "topic"}
    BY <2>2 DEF RequestTypeOK
  <2>4. /\ r \in InFlight /\ Write(req[r].batch) /\ UNCHANGED clock
        /\ req' = [req EXCEPT ![r] = q]
    BY <1>2 DEF CommitTopic, InFlight
  <2> HIDE DEF q
  <2> QED
    BY <2>3, <2>4, CommitStep
<1>3. CASE Fail(r)
  <2>1. clock' \in Nat /\ clock <= clock'
    BY <1>3, ClockTicks DEF Fail
  <2> QED
    BY <1>0, <1>3, <2>1, ReadStep DEF Fail
<1> QED
  BY <1>1, <1>2, <1>3

LEMMA StepKeepsIInv ==
  ASSUME IInv, [Next]_vars
  PROVE  IInv' /\ KeepsHistory
<1>1. CASE Next
  <2>1. PICK r \in Requests :
          \/ ProposeNode(r) \/ ProposeEdit(r) \/ ProposeRemoval(r)
          \/ Approve(r) \/ Reject(r)
          \/ PublishNode(r)
          \/ HideNode(r) \/ CascadeUnpublishEdges(r) \/ HideNodeAtLast(r)
          \/ CreateEdge(r) \/ CorrectEdge(r) \/ ProposeEdge(r) \/ EnrichEdge(r)
          \/ DeleteEdge(r) \/ CiteEdge(r) \/ PublishEdges(r) \/ HideEdges(r)
          \/ ApproveTopic(r) \/ CommitTopic(r) \/ TagArticles(r)
          \/ Commit(r) \/ Fail(r)
    BY <1>1 DEF Next
  <2>2. CASE ProposeNode(r)
    BY <2>2, ProposeNodeStep
  <2>3. CASE ProposeEdit(r) \/ ProposeRemoval(r)
    BY <2>3, ProposalSteps
  <2>4. CASE Approve(r) \/ Reject(r) \/ PublishNode(r) \/ PublishEdges(r)
               \/ HideEdges(r) \/ TagArticles(r)
    BY <2>4, DecisionSteps
  <2>5. CASE HideNode(r) \/ CascadeUnpublishEdges(r) \/ HideNodeAtLast(r)
    BY <2>5, HideNodeSteps
  <2>6. CASE CreateEdge(r) \/ CorrectEdge(r) \/ ProposeEdge(r) \/ EnrichEdge(r)
               \/ DeleteEdge(r) \/ CiteEdge(r)
    BY <2>6, EdgeSteps
  <2>7. CASE ApproveTopic(r)
    BY <2>7, ApproveTopicStep
  <2>8. CASE Commit(r) \/ CommitTopic(r) \/ Fail(r)
    BY <2>8, CommitSteps
  <2> QED
    BY <2>1, <2>2, <2>3, <2>4, <2>5, <2>6, <2>7, <2>8
<1>2. CASE UNCHANGED vars
  <2>1. UNCHANGED <<docs, revs, req, clock>>
    BY <1>2 DEF vars
  <2>2. TypeOK' /\ InFlight' = InFlight
    BY <2>1 DEF IInv, TypeOK, InFlight
  <2> QED
    BY <2>1, <2>2 DEF IInv, KeepsHistory, KeepsRevisions, Keeps, Moves
<1> QED
  BY <1>1, <1>2

-----------------------------------------------------------------------------
(***************************************************************************)
(* Requests that do not overlap: what a commit does to a store that is still *)
(* as the handler read it.                                                   *)
(***************************************************************************)
\* The status of a revision on record after a commit.
LEMMA StatusAfter ==
  ASSUME NEW rs, RecordTypeOK(rs), NEW b, NEW id \in DOMAIN rs
  PROVE  RevisionsAfter(rs, b)[id].status =
           IF id \in DOMAIN b.file THEN b.file[id].status
           ELSE IF id \in DOMAIN b.judge THEN b.judge[id] ELSE rs[id].status
<1>1. rs[id] \in Revision
  BY DEF RecordTypeOK
<1>2. RevisionsAfter(rs, b)[id] =
        IF id \in DOMAIN b.file
        THEN [b.file[id] EXCEPT !.stated = @ \cup rs[id].stated]
        ELSE IF id \in DOMAIN b.judge
             THEN [rs[id] EXCEPT !.status = b.judge[id]] ELSE rs[id]
  BY DEF RevisionsAfter
<1> QED
  BY <1>1, <1>2 DEF Revision

\* A commit that agrees with the store leaves unwritten documents blank.
LEMMA WriteKeepsBlank ==
  ASSUME NEW ds, NEW rs, NEW now, Sound(ds, rs, now), StoreStands(ds, rs),
         NEW b, NEW later, Safe(b, ds, rs, later), Agrees(b, ds, rs),
         NEW d \in Docs, ~DocsAfter(ds, b)[d].exists
  PROVE  DocsAfter(ds, b)[d] = Blank
<1> DEFINE doc == DocsAfter(ds, b)[d]
<1>1. /\ doc \in Document
      /\ doc.exists = Base(ds, b, d).exists
      /\ doc.text = Base(ds, b, d).text
      /\ doc.refs = Base(ds, b, d).refs
      /\ doc.removed = Base(ds, b, d).removed
      /\ doc.published = IF d \in DOMAIN b.show THEN b.show[d]
                         ELSE Base(ds, b, d).published
      /\ doc.pointer = IF d \in DOMAIN b.point THEN b.point[d]
                       ELSE Base(ds, b, d).pointer
  BY DocsAfterFields DEF Sound, Safe
<1> HIDE DEF doc
<1>2. d \notin DOMAIN b.set
  BY <1>1 DEF doc, Base, Safe, Overwrites
<1>3. Base(ds, b, d) = ds[d] /\ ds[d] \in Document
  BY <1>2 DEF Base, Sound
<1>4. d \notin DOMAIN b.show /\ d \notin DOMAIN b.point
  BY <1>1, <1>3 DEF doc, Agrees, Safe, UpdatesSafely
<1>5. doc = ds[d]
  BY <1>1, <1>3, <1>4, SameFieldsSameDocument
<1> QED
  BY <1>5 DEF doc, StoreStands

\* It leaves the revision of every page approved,
LEMMA WriteKeepsServed ==
  ASSUME NEW ds, NEW rs, NEW now, Sound(ds, rs, now), StoreStands(ds, rs),
         NEW b, NEW later, Safe(b, ds, rs, later), Agrees(b, ds, rs),
         NEW n \in Nodes, DocsAfter(ds, b)[n].pointer # NoRevision
  PROVE  RevisionsAfter(rs, b)[DocsAfter(ds, b)[n].pointer].status = "approved"
<1> DEFINE p == DocsAfter(ds, b)[n].pointer
<1>0. n \in Docs /\ n \notin Edges
  BY DisjointAssumption DEF Docs
<1>1. p = Base(ds, b, n).pointer
  <2>1. n \notin DOMAIN b.point
    BY <1>0 DEF Safe, UpdatesSafely
  <2> QED
    BY <1>0, <2>1, DocsAfterFields DEF Sound, Safe
<1>2. CASE n \in DOMAIN b.set
  <2>1. p = b.set[n].pointer
    BY <1>1, <1>2 DEF Base
  <2> HIDE DEF p
  <2>2. p \in DOMAIN b.judge /\ b.judge[p] = "approved"
    BY <1>2, <2>1 DEF p, Agrees
  <2>3. p \in DOMAIN rs /\ p \notin DOMAIN b.file
    BY <2>2 DEF Agrees, Safe, UpdatesSafely
  <2> QED
    BY <2>2, <2>3, StatusAfter DEF Sound, p
<1>3. CASE n \notin DOMAIN b.set
  <2>1. p = ds[n].pointer
    BY <1>1, <1>3 DEF Base
  <2> HIDE DEF p
  <2>2. p # NoRevision
    BY DEF p
  <2>3. /\ p \in DOMAIN rs /\ rs[p].doc = n
        /\ rs[p].status = "approved"
    BY <1>0, <2>1, <2>2 DEF Sound, StoreInv, StoreStands
  <2>4. p \notin DOMAIN b.file
    BY <1>0, <2>3 DEF Agrees
  <2>5. p \in DOMAIN b.judge => b.judge[p] = "approved"
    BY <2>1 DEF Agrees, Safe, BatchTypeOK, Statuses
  <2> QED
    BY <2>3, <2>4, <2>5, StatusAfter DEF Sound, p
<1> QED
  BY <1>2, <1>3

\* and every removed document removed.
LEMMA WriteKeepsRemoval ==
  ASSUME NEW ds, NEW rs, NEW now, Sound(ds, rs, now),
         NEW b, NEW later, Safe(b, ds, rs, later), Agrees(b, ds, rs),
         NEW d \in Docs, ds[d].removed
  PROVE  DocsAfter(ds, b)[d].removed
<1>1. DocsAfter(ds, b)[d].removed = Base(ds, b, d).removed
  BY DocsAfterFields DEF Sound, Safe
<1> QED
  BY <1>1 DEF Base, Agrees

\* A commit that leaves visibility alone changes no `published`.
LEMMA WriteKeepsVisibility ==
  ASSUME NEW ds, NEW rs, NEW now, Sound(ds, rs, now),
         NEW b, NEW later, Safe(b, ds, rs, later), LeavesVisibility(b, ds),
         NEW d \in Docs
  PROVE  DocsAfter(ds, b)[d].published = ds[d].published
<1>1. DocsAfter(ds, b)[d].published =
        IF d \in DOMAIN b.show THEN b.show[d] ELSE Base(ds, b, d).published
  BY DocsAfterFields DEF Sound, Safe
<1> QED
  BY <1>1 DEF Base, LeavesVisibility

\* A commit that keeps ends public leaves every public relation with public
\* ends.
LEMMA WriteKeepsEnds ==
  ASSUME NEW ds, NEW rs, NEW now, Sound(ds, rs, now),
         NEW b, NEW later, Safe(b, ds, rs, later), KeepsEnds(b, ds),
         \A e \in Edges : PageIsPublic(ds[e]) => Publishable(ds, e),
         NEW e \in Edges, PageIsPublic(DocsAfter(ds, b)[e])
  PROVE  Publishable(DocsAfter(ds, b), e)
<1>0. e \in Docs /\ Source[e] \in Nodes /\ Target[e] \in Nodes
      /\ Nodes \subseteq Docs
  BY EndsAssumption DEF Docs
<1>1. ASSUME NEW n \in Nodes, ds[n].exists, PageIsPublic(ds[n])
      PROVE  DocsAfter(ds, b)[n].exists /\ PageIsPublic(DocsAfter(ds, b)[n])
  <2>1. DocsAfter(ds, b)[n].exists
    BY <1>0, <1>1, WriteOnlyAdds
  <2>2. /\ DocsAfter(ds, b)[n].removed = Base(ds, b, n).removed
        /\ DocsAfter(ds, b)[n].published =
             IF n \in DOMAIN b.show THEN b.show[n] ELSE Base(ds, b, n).published
    BY <1>0, <1>1, DocsAfterFields DEF Sound, Safe
  <2>3. PageIsPublic(Base(ds, b, n))
    BY <1>1 DEF Base, KeepsEnds
  <2>4. n \in DOMAIN b.show => b.show[n]
    BY <1>1 DEF KeepsEnds
  <2> QED
    BY <2>1, <2>2, <2>3, <2>4 DEF PageIsPublic
<1>2. Publishable(ds, e)
  <2>1. /\ DocsAfter(ds, b)[e].removed = Base(ds, b, e).removed
        /\ DocsAfter(ds, b)[e].published =
             IF e \in DOMAIN b.show THEN b.show[e] ELSE Base(ds, b, e).published
    BY <1>0, DocsAfterFields DEF Sound, Safe
  <2>2. CASE e \in DOMAIN b.show
    BY <2>1, <2>2 DEF PageIsPublic, KeepsEnds
  <2>3. CASE e \notin DOMAIN b.show
    <3>1. PageIsPublic(Base(ds, b, e))
      BY <2>1, <2>3 DEF PageIsPublic
    <3> QED
      BY <3>1 DEF Base, KeepsEnds
  <2> QED
    BY <2>2, <2>3
<1> QED
  BY <1>0, <1>1, <1>2 DEF Publishable

LEMMA WriteKeepsNoPageRemoval ==
  ASSUME NEW rs, RecordTypeOK(rs), RemovesNoPage(rs), NEW b, BatchTypeOK(b),
         RemovesNoPage(b.file)
  PROVE  RemovesNoPage(RevisionsAfter(rs, b))
<1>1. FiledInto(RevisionsAfter(rs, b), rs, b)
  BY RevisionsAfterFields
<1> QED
  BY <1>1 DEF FiledInto, RemovesNoPage

-----------------------------------------------------------------------------
(***************************************************************************)
(* Steps of requests that do not overlap.                                    *)
(***************************************************************************)
\* What the properties of this group let a step do.
Upholds ==
  /\ \A d \in Docs : docs[d].removed => docs'[d].removed
  /\ ~Restates =>
       \A id \in DOMAIN revs :
         revs[id].status = "rejected" => revs'[id].status # "pending"
  /\ (\E d \in Docs : docs'[d].published # docs[d].published) =>
       \E r \in Requests : Decides(r) /\ req'[r] # req[r]

KeepsSerial ==
  /\ SerialInv' /\ Upholds
  /\ EndsAreWatched /\ EndsInv => EndsInv'

\* A step that reads, decides or fails: request r goes on as q.
LEMMA SerialReadStep ==
  ASSUME IInv, SerialInv, UNCHANGED <<docs, revs>>,
         NEW r \in Requests, NEW q, req' = [req EXCEPT ![r] = q],
         Fits(q, docs, revs),
         EndsAreWatched /\ EndsInv => FitsEnds(q, docs)
  PROVE  KeepsSerial
<1>1. /\ req'[r] = q
      /\ \A s \in Requests \ {r} : req'[s] = req[s]
  BY DEF IInv, TypeOK
<1>2. SerialInv'
  <2>1. \A s \in Requests : Fits(req'[s], docs, revs)
    BY <1>1 DEF SerialInv
  <2> QED
    BY <2>1 DEF SerialInv
<1>3. Upholds
  BY DEF Upholds
<1>4. ASSUME EndsAreWatched, EndsInv
      PROVE  EndsInv'
  <2>1. \A s \in Requests : FitsEnds(req'[s], docs)
    BY <1>1, <1>4 DEF EndsInv
  <2>2. RelationsHavePublicEnds' /\ RemovesNoPage(revs)'
    BY <1>4 DEF EndsInv, RelationsHavePublicEnds
  <2> QED
    BY <2>1, <2>2 DEF EndsInv
<1> QED
  BY <1>2, <1>3, <1>4 DEF KeepsSerial

\* A step that commits b: the only request goes on as q.
LEMMA SerialStoreStep ==
  ASSUME NoOverlap, IInv, SerialInv, NEW b, NEW later,
         Safe(b, docs, revs, later), Agrees(b, docs, revs), Write(b),
         NEW r \in Requests, NEW q, req'[r] = q, Fits(q, docs', revs'),
         \/ Decides(r) /\ req'[r] # req[r]
         \/ LeavesVisibility(b, docs)
  PROVE  SerialInv' /\ Upholds
<1>1. Sound(docs, revs, clock)
  BY IInvIsSound
<1>2. /\ docs' = DocsAfter(docs, b) /\ revs' = RevisionsAfter(revs, b)
      /\ RecordTypeOK(revs) /\ BatchTypeOK(b)
  BY <1>1 DEF Write, Sound, Safe
<1>3. \A s \in Requests : s = r
  BY DEF NoOverlap
<1>4. StoreStands(docs, revs)
  BY DEF SerialInv
<1>5. SerialInv'
  <2>1. \A d \in Docs : ~docs'[d].exists => docs'[d] = Blank
    BY <1>1, <1>2, <1>4, WriteKeepsBlank
  <2>2. \A n \in Nodes : docs'[n].pointer # NoRevision =>
                           revs'[docs'[n].pointer].status = "approved"
    BY <1>1, <1>2, <1>4, WriteKeepsServed
  <2> QED
    BY <1>3, <2>1, <2>2 DEF SerialInv, StoreStands
<1>6. Upholds
  <2>1. \A d \in Docs : docs[d].removed => docs'[d].removed
    BY <1>1, <1>2, WriteKeepsRemoval
  <2>2. ASSUME ~Restates, NEW id \in DOMAIN revs,
               revs[id].status = "rejected"
        PROVE  revs'[id].status # "pending"
    <3>1. id \notin DOMAIN b.file
      BY <2>2 DEF Agrees
    <3>2. id \in DOMAIN b.judge => b.judge[id] # "pending"
      BY DEF Agrees
    <3> QED
      BY <1>2, <2>2, <3>1, <3>2, StatusAfter
  <2>3. LeavesVisibility(b, docs) =>
          \A d \in Docs : docs'[d].published = docs[d].published
    BY <1>1, <1>2, WriteKeepsVisibility
  <2> QED
    BY <2>1, <2>2, <2>3 DEF Upholds
<1> QED
  BY <1>5, <1>6

\* The same, where the batch keeps ends public.
LEMMA SerialWriteStep ==
  ASSUME NoOverlap, IInv, SerialInv, NEW b, NEW later,
         Safe(b, docs, revs, later), Agrees(b, docs, revs), Write(b),
         NEW r \in Requests, NEW q, req'[r] = q, Fits(q, docs', revs'),
         \/ Decides(r) /\ req'[r] # req[r]
         \/ LeavesVisibility(b, docs),
         EndsAreWatched /\ EndsInv =>
           /\ KeepsEnds(b, docs) /\ RemovesNoPage(b.file)
           /\ FitsEnds(q, docs')
  PROVE  KeepsSerial
<1>1. Sound(docs, revs, clock)
  BY IInvIsSound
<1>2. /\ docs' = DocsAfter(docs, b) /\ revs' = RevisionsAfter(revs, b)
      /\ RecordTypeOK(revs) /\ BatchTypeOK(b)
  BY <1>1 DEF Write, Sound, Safe
<1>3. \A s \in Requests : s = r
  BY DEF NoOverlap
<1>4. SerialInv' /\ Upholds
  BY SerialStoreStep
<1>5. ASSUME EndsAreWatched, EndsInv
      PROVE  EndsInv'
  <2>1. \A e \in Edges : PageIsPublic(docs[e]) => Publishable(docs, e)
    BY <1>5 DEF EndsInv, RelationsHavePublicEnds
  <2>2. \A e \in Edges : PageIsPublic(docs'[e]) => Publishable(docs', e)
    BY <1>1, <1>2, <1>5, <2>1, WriteKeepsEnds
  <2>3. RemovesNoPage(revs')
    BY <1>2, <1>5, WriteKeepsNoPageRemoval DEF EndsInv
  <2> QED
    BY <1>3, <1>5, <2>2, <2>3 DEF EndsInv, RelationsHavePublicEnds
<1> QED
  BY <1>4, <1>5 DEF KeepsSerial

(***************************************************************************)
(* The batches the handlers build agree with the store they were read from.  *)
(***************************************************************************)
LEMMA CreateAgrees ==
  ASSUME NEW ds, NEW rs, NEW d \in Docs, NEW data, NEW id, id \notin DOMAIN rs,
         NEW at, NEW approve \in BOOLEAN, NEW stored, NEW published,
         ds[d].removed => stored.removed,
         d \in Nodes => ~approve /\ stored.pointer = NoRevision
  PROVE  LET b == CreateRevisionTransaction(d, data, id, at, approve, stored,
                                            published)
         IN  /\ Agrees(b, ds, rs)
             /\ published = ds[d].published => LeavesVisibility(b, ds)
             /\ d \in Edges \/ ~data.removed => RemovesNoPage(b.file)
             /\ /\ d \in Nodes => ~PageIsPublic(ds[d])
                /\ d \in Edges /\ published /\ ~stored.removed =>
                     Publishable(ds, d)
                => KeepsEnds(b, ds)
<1> DEFINE status == IF approve THEN "approved" ELSE "pending"
           revision == Filing(d, data, status, at)
           pointer == IF approve THEN id ELSE stored.pointer
           page == RevisionTargetData(data, stored, published, pointer)
           b == CreateRevisionTransaction(d, data, id, at, approve, stored,
                                          published)
<1>1. b = [set |-> Only(d, page), show |-> NoWrites, point |-> NoWrites,
           file |-> Only(id, revision), judge |-> NoWrites]
  BY DEF CreateRevisionTransaction
<1>2. /\ page.removed = (stored.removed \/ data.removed)
      /\ page.published = published /\ page.pointer = pointer
      /\ revision.doc = d /\ revision.data = data
  BY DEF RevisionTargetData, Filing
<1> HIDE DEF page, revision, b
<1>3. Agrees(b, ds, rs)
  BY <1>1, <1>2 DEF Agrees, Only, NoWrites
<1>4. published = ds[d].published => LeavesVisibility(b, ds)
  BY <1>1, <1>2 DEF LeavesVisibility, Only, NoWrites
<1>5. d \in Edges \/ ~data.removed => RemovesNoPage(b.file)
  BY <1>1, <1>2, DisjointAssumption DEF RemovesNoPage, Only
<1>6. ASSUME d \in Nodes => ~PageIsPublic(ds[d]),
             d \in Edges /\ published /\ ~stored.removed => Publishable(ds, d)
      PROVE  KeepsEnds(b, ds)
  <2>1. d \in Edges /\ PageIsPublic(page) => Publishable(ds, d)
    BY <1>2, <1>6 DEF PageIsPublic
  <2> QED
    BY <1>1, <1>6, <2>1 DEF KeepsEnds, Only, NoWrites
<1> QED
  BY <1>3, <1>4, <1>5, <1>6 DEF b

LEMMA ProposeAgrees ==
  ASSUME NEW ds, NEW rs, NEW d, NEW data, NEW id, NEW at,
         id \in DOMAIN rs => Restates /\ rs[id].doc \in Edges
  PROVE  LET b == ProposeRevisionTransaction(d, data, id, at)
         IN  /\ Agrees(b, ds, rs) /\ LeavesVisibility(b, ds)
             /\ KeepsEnds(b, ds)
             /\ d \in Edges \/ ~data.removed => RemovesNoPage(b.file)
<1> DEFINE revision == Filing(d, data, "pending", at)
           b == ProposeRevisionTransaction(d, data, id, at)
<1>1. b = [set |-> NoWrites, show |-> NoWrites, point |-> NoWrites,
           file |-> Only(id, revision), judge |-> NoWrites]
  BY DEF ProposeRevisionTransaction, EmptyBatch
<1>2. revision.doc = d /\ revision.data = data
  BY DEF Filing
<1> HIDE DEF revision, b
<1>3. Agrees(b, ds, rs) /\ LeavesVisibility(b, ds) /\ KeepsEnds(b, ds)
  BY <1>1 DEF Agrees, LeavesVisibility, KeepsEnds, Only, NoWrites
<1>4. d \in Edges \/ ~data.removed => RemovesNoPage(b.file)
  BY <1>1, <1>2, DisjointAssumption DEF RemovesNoPage, Only
<1> QED
  BY <1>3, <1>4 DEF b

LEMMA ApplyAgrees ==
  ASSUME NEW ds, NEW rs, NEW id, NEW publish, rs[id].doc \in Docs
  PROVE  LET d == rs[id].doc
             b == ApplyRevision(id, rs[id], ds[d], publish)
         IN  /\ Agrees(b, ds, rs)
             /\ publish = "keep" => LeavesVisibility(b, ds)
             /\ RemovesNoPage(b.file)
             /\ /\ d \in Nodes => publish # "hide" /\ ~rs[id].data.removed
                /\ publish \in {"keep", "show", "hide"}
                /\ d \in Edges /\ ShownAs(publish, ds[d]) => Publishable(ds, d)
                => KeepsEnds(b, ds)
<1> DEFINE d == rs[id].doc
           page == RevisionTargetData(rs[id].data, ds[d],
                                      ShownAs(publish, ds[d]), id)
           b == ApplyRevision(id, rs[id], ds[d], publish)
<1>1. b = [set |-> Only(d, page), show |-> NoWrites, point |-> NoWrites,
           file |-> NoWrites, judge |-> Only(id, "approved")]
  BY DEF ApplyRevision
<1>2. /\ page.removed = (ds[d].removed \/ rs[id].data.removed)
      /\ page.published = ShownAs(publish, ds[d]) /\ page.pointer = id
  BY DEF RevisionTargetData
<1> HIDE DEF page, b
<1>3. Agrees(b, ds, rs)
  BY <1>1, <1>2 DEF Agrees, Only, NoWrites
<1>4. publish = "keep" => LeavesVisibility(b, ds)
  BY <1>1, <1>2 DEF LeavesVisibility, Only, NoWrites, ShownAs
<1>5. RemovesNoPage(b.file)
  BY <1>1 DEF RemovesNoPage, NoWrites
<1>6. ASSUME d \in Nodes => publish # "hide" /\ ~rs[id].data.removed,
             publish \in {"keep", "show", "hide"},
             d \in Edges /\ ShownAs(publish, ds[d]) => Publishable(ds, d)
      PROVE  KeepsEnds(b, ds)
  <2>1. d \in Edges /\ PageIsPublic(page) => Publishable(ds, d)
    BY <1>2, <1>6 DEF PageIsPublic
  <2>2. d \in Nodes /\ PageIsPublic(ds[d]) => PageIsPublic(page)
    BY <1>2, <1>6 DEF PageIsPublic, ShownAs
  <2> HIDE DEF d
  <2> QED
    BY <1>1, <2>1, <2>2 DEF KeepsEnds, Only, NoWrites
<1> QED
  BY <1>3, <1>4, <1>5, <1>6 DEF b

LEMMA RejectAgrees ==
  ASSUME NEW ds, NEW rs, NEW id, \A n \in Nodes : ds[n].pointer # id
  PROVE  LET b == [EmptyBatch EXCEPT !.judge = Only(id, "rejected")]
         IN  /\ Agrees(b, ds, rs) /\ LeavesVisibility(b, ds)
             /\ KeepsEnds(b, ds) /\ RemovesNoPage(b.file)
<1> DEFINE b == [EmptyBatch EXCEPT !.judge = Only(id, "rejected")]
<1>1. b = [set |-> NoWrites, show |-> NoWrites, point |-> NoWrites,
           file |-> NoWrites, judge |-> Only(id, "rejected")]
  BY DEF EmptyBatch
<1> HIDE DEF b
<1>2. /\ Agrees(b, ds, rs) /\ LeavesVisibility(b, ds)
      /\ KeepsEnds(b, ds) /\ RemovesNoPage(b.file)
  BY <1>1 DEF Agrees, LeavesVisibility, KeepsEnds, RemovesNoPage, Only,
              NoWrites
<1> QED
  BY <1>2 DEF b

LEMMA ShowBatch ==
  ASSUME NEW es, NEW shown
  PROVE  [EmptyBatch EXCEPT !.show = Each(es, shown)] =
           [set |-> NoWrites, show |-> Each(es, shown), point |-> NoWrites,
            file |-> NoWrites, judge |-> NoWrites]
  BY DEF EmptyBatch

LEMMA ShowAgrees ==
  ASSUME NEW ds, NEW rs, NEW es, \A d \in es : ds[d].exists,
         NEW shown \in BOOLEAN
  PROVE  LET b == [EmptyBatch EXCEPT !.show = Each(es, shown)]
         IN  /\ Agrees(b, ds, rs) /\ RemovesNoPage(b.file)
             /\ /\ es \cap Nodes # {} => shown
                /\ es \cap Edges # {} => ~shown
                => KeepsEnds(b, ds)
<1> DEFINE b == [EmptyBatch EXCEPT !.show = Each(es, shown)]
<1>1. b = [set |-> NoWrites, show |-> Each(es, shown), point |-> NoWrites,
           file |-> NoWrites, judge |-> NoWrites]
  BY ShowBatch
<1> HIDE DEF b
<1>2. Agrees(b, ds, rs) /\ RemovesNoPage(b.file)
  BY <1>1 DEF Agrees, RemovesNoPage, NoWrites, Each
<1>3. ASSUME es \cap Nodes # {} => shown, es \cap Edges # {} => ~shown
      PROVE  KeepsEnds(b, ds)
  BY <1>1, <1>3 DEF KeepsEnds, NoWrites, Each
<1> QED
  BY <1>2, <1>3 DEF b

LEMMA PublishEdgesAgrees ==
  ASSUME NEW ds, NEW rs, NEW es \in SUBSET Edges, \A e \in es : ds[e].exists
  PROVE  LET b == PublishEdgesInBatch(ds, rs, es)
         IN  /\ Agrees(b, ds, rs) /\ RemovesNoPage(b.file)
             /\ (\A e \in es : Publishable(ds, e)) => KeepsEnds(b, ds)
<1> DEFINE settled == {e \in es : /\ ds[e].pointer = NoRevision
                                  /\ Candidates(rs, e) # {}}
           point == [e \in settled |-> PublishCandidateRevision(rs, e)]
           judge == Each({PublishCandidateRevision(rs, e) : e \in settled},
                         "approved")
           b == PublishEdgesInBatch(ds, rs, es)
<1>1. b = [show |-> Each(es, TRUE), point |-> point, judge |-> judge,
           set |-> NoWrites, file |-> NoWrites]
  BY DEF PublishEdgesInBatch, HasApproved
<1>2. \A id \in DOMAIN judge : judge[id] = "approved"
  BY DEF Each
<1> HIDE DEF point, judge, b
<1>3. Agrees(b, ds, rs) /\ RemovesNoPage(b.file)
  BY <1>1, <1>2 DEF Agrees, RemovesNoPage, NoWrites, Each
<1>4. (\A e \in es : Publishable(ds, e)) => KeepsEnds(b, ds)
  BY <1>1, DisjointAssumption DEF KeepsEnds, NoWrites, Each
<1> QED
  BY <1>3, <1>4 DEF b

(***************************************************************************)
(* Every step of requests that do not overlap.                               *)
(***************************************************************************)
LEMMA SerialWillCommit ==
  ASSUME IInv, SerialInv, NEW r \in Requests, NEW body, NEW b,
         WillCommit(r, body, b), Agrees(b, docs, revs),
         \/ body.call \in {"publishNode", "publishEdges", "hideEdges",
                           "deleteEdge", "approveTopic"}
         \/ body.call = "approve" /\ body.publish # "keep"
         \/ LeavesVisibility(b, docs),
         EndsAreWatched /\ EndsInv =>
           RemovesNoPage(b.file) /\ KeepsEnds(b, docs)
  PROVE  KeepsSerial
<1> DEFINE q == [at |-> "commit", body |-> body, batch |-> b]
<1>1. /\ q.at = "commit" /\ q.body = body /\ q.batch = b
      /\ req' = [req EXCEPT ![r] = q] /\ UNCHANGED <<docs, revs>>
  BY DEF WillCommit
<1> HIDE DEF q
<1>2. Fits(q, docs, revs)
  BY <1>1 DEF Fits, SaysWhoSees
<1>3. EndsAreWatched /\ EndsInv => FitsEnds(q, docs)
  BY <1>1 DEF FitsEnds
<1> QED
  BY <1>1, <1>2, <1>3, SerialReadStep

\* Nothing was ever stored under the id of the moment.
LEMMA FreshIdIsNew ==
  ASSUME IInv
  PROVE  FreshId(clock) \notin DOMAIN revs
<1>1. FreshId(clock).kind = "fresh" /\ FreshId(clock).n = clock
  BY DEF FreshId
<1> QED
  BY <1>1 DEF IInv, TypeOK, StoreInv

LEMMA SerialProposeNode ==
  ASSUME NoOverlap, IInv, SerialInv, NEW r \in Requests, ProposeNode(r)
  PROVE  KeepsSerial
<1> PICK n \in Nodes, t \in Texts :
       /\ ~docs[n].exists
       /\ Write(CreateRevisionTransaction(n,
                  [text |-> t, refs |-> {}, removed |-> FALSE],
                  FreshId(clock), clock, FALSE, Blank, FALSE))
  BY DEF ProposeNode, Unused
<1> DEFINE data == [text |-> t, refs |-> {}, removed |-> FALSE]
           b == CreateRevisionTransaction(n, data, FreshId(clock), clock, FALSE,
                                          Blank, FALSE)
<1>0. n \in Docs /\ n \notin Edges /\ ~data.removed
  BY DisjointAssumption DEF Docs
<1>1. docs[n] = Blank
  BY <1>0 DEF SerialInv, StoreStands
<1>2. /\ ~docs[n].removed /\ docs[n].published = FALSE
      /\ ~PageIsPublic(docs[n]) /\ Blank.pointer = NoRevision
  BY <1>1 DEF Blank, PageIsPublic
<1>3. FreshId(clock) \notin DOMAIN revs
  BY FreshIdIsNew
<1> HIDE DEF data
<1>4. /\ Agrees(b, docs, revs) /\ LeavesVisibility(b, docs)
      /\ KeepsEnds(b, docs) /\ RemovesNoPage(b.file)
  BY <1>0, <1>2, <1>3, CreateAgrees
<1>5. Safe(b, docs, revs, clock + 1)
  BY <1>0, ProposeNodeIsSafe DEF data
<1>6. Write(b)
  BY DEF data
<1>7. req'[r] = Idle /\ Fits(Idle, docs', revs') /\ FitsEnds(Idle, docs')
  BY DEF ProposeNode, Receives, Idle, Fits, FitsEnds
<1> HIDE DEF b
<1> QED
  BY <1>4, <1>5, <1>6, <1>7, SerialWriteStep

LEMMA SerialProposals ==
  ASSUME IInv, SerialInv, NEW r \in Requests,
         ProposeEdit(r) \/ ProposeRemoval(r)
  PROVE  KeepsSerial
<1>1. ASSUME NEW call, NEW n \in Nodes, NEW u \in Users, NEW data,
             ProposeForNode(r, call, n, u, data), EndsAreWatched => ~data.removed
      PROVE  KeepsSerial
  <2>1. PICK id \in {FreshId(clock), AskedId(n, u, data)} :
          /\ id \notin DOMAIN revs
          /\ WillCommit(r, [call |-> call],
                        ProposeRevisionTransaction(n, data, id, clock))
    BY <1>1, FreshIdIsNew DEF ProposeForNode, ProposedUnder
  <2> DEFINE b == ProposeRevisionTransaction(n, data, id, clock)
  <2>2. /\ Agrees(b, docs, revs) /\ LeavesVisibility(b, docs)
        /\ KeepsEnds(b, docs)
        /\ EndsAreWatched => RemovesNoPage(b.file)
    BY <1>1, <2>1, ProposeAgrees
  <2> HIDE DEF b
  <2>3. WillCommit(r, [call |-> call], b)
    BY <2>1 DEF b
  <2> QED
    BY <2>2, <2>3, SerialWillCommit
<1>2. CASE ProposeEdit(r)
  <2>1. PICK n \in Nodes, u \in Users, t \in Texts :
          ProposeForNode(r, "proposeEdit", n, u,
                         [text |-> t, refs |-> {}, removed |-> FALSE])
    BY <1>2 DEF ProposeEdit
  <2> QED
    BY <1>1, <2>1
<1>3. CASE ProposeRemoval(r)
  <2>1. PICK n \in Nodes, u \in Users :
          ProposeForNode(r, "proposeRemoval", n, u,
                         [text |-> docs[n].text, refs |-> {}, removed |-> TRUE])
    BY <1>3 DEF ProposeRemoval
  <2>2. ~EndsAreWatched
    BY <2>1 DEF ProposeForNode, Receives, EndsAreWatched
  <2> QED
    BY <1>1, <2>1, <2>2
<1> QED
  BY <1>2, <1>3

\* A revision of relation e is filed and e overwritten with it.
LEMMA SerialCreate ==
  ASSUME IInv, SerialInv, NEW r \in Requests, NEW body, NEW e \in Edges,
         NEW data, NEW approve \in BOOLEAN, NEW stored, NEW published,
         WillCommit(r, body, CreateRevisionTransaction(e, data, FreshId(clock),
                               clock, approve, stored, published)),
         docs[e].removed => stored.removed,
         \/ published = docs[e].published
         \/ published = FALSE /\ body.call = "deleteEdge",
         published /\ ~stored.removed => PageIsPublic(docs[e])
  PROVE  KeepsSerial
<1> DEFINE b == CreateRevisionTransaction(e, data, FreshId(clock), clock,
                                          approve, stored, published)
<1>0. e \in Docs /\ e \notin Nodes
  BY DisjointAssumption DEF Docs
<1>1. FreshId(clock) \notin DOMAIN revs
  BY FreshIdIsNew
<1>2. EndsInv => (published /\ ~stored.removed => Publishable(docs, e))
  BY DEF EndsInv, RelationsHavePublicEnds
<1>3. /\ Agrees(b, docs, revs) /\ RemovesNoPage(b.file)
      /\ published = docs[e].published => LeavesVisibility(b, docs)
      /\ EndsInv => KeepsEnds(b, docs)
  BY <1>0, <1>1, <1>2, CreateAgrees
<1> HIDE DEF b
<1>4. WillCommit(r, body, b)
  BY DEF b
<1> QED
  BY <1>3, <1>4, SerialWillCommit

LEMMA SerialEdges ==
  ASSUME IInv, SerialInv, NEW r \in Requests,
         CreateEdge(r) \/ CorrectEdge(r) \/ ProposeEdge(r) \/ EnrichEdge(r)
           \/ DeleteEdge(r) \/ CiteEdge(r)
  PROVE  KeepsSerial
<1>0. Edges \subseteq Docs
  BY DEF Docs
<1>1. CASE CreateEdge(r)
  <2>1. PICK e \in Edges, t \in Texts :
          /\ ~docs[e].exists
          /\ WillCommit(r, [call |-> "createEdge", doc |-> e],
               CreateRevisionTransaction(e,
                 [text |-> t, refs |-> {}, removed |-> FALSE],
                 FreshId(clock), clock, FALSE, Blank, FALSE))
    BY <1>1 DEF CreateEdge
  <2>2. docs[e] = Blank
    BY <1>0, <2>1 DEF SerialInv, StoreStands
  <2>3. docs[e].published = FALSE /\ (docs[e].removed => Blank.removed)
    BY <2>2 DEF Blank
  <2> QED
    BY <2>1, <2>3, SerialCreate
<1>2. CASE CorrectEdge(r)
  <2>1. PICK e \in Edges, t \in Texts :
          WillCommit(r, [call |-> "correctEdge"],
            CreateRevisionTransaction(e, Corrected(e, t),
              FreshId(clock), clock, TRUE, docs[e], docs[e].published))
    BY <1>2 DEF CorrectEdge
  <2>2. docs[e].published /\ ~docs[e].removed => PageIsPublic(docs[e])
    BY DEF PageIsPublic
  <2> QED
    BY <2>1, <2>2, SerialCreate
<1>3. CASE ProposeEdge(r)
  <2>1. PICK e \in Edges, t \in Texts :
          WillCommit(r, [call |-> "proposeEdge"],
            ProposeRevisionTransaction(e, Corrected(e, t),
              ProposalId(e, Corrected(e, t)), clock))
    BY <1>3 DEF ProposeEdge
  <2> DEFINE id == ProposalId(e, Corrected(e, t))
             b == ProposeRevisionTransaction(e, Corrected(e, t), id, clock)
  <2>2. Restates
    BY <1>3 DEF ProposeEdge, Receives, Restates
  <2>3. id \in DOMAIN revs => revs[id].doc \in Edges
    <3>1. id.kind = "proposal" /\ id.doc = e
      BY DEF ProposalId
    <3> QED
      BY <3>1 DEF IInv, StoreInv, IdFits
  <2>4. /\ Agrees(b, docs, revs) /\ LeavesVisibility(b, docs)
        /\ KeepsEnds(b, docs) /\ RemovesNoPage(b.file)
    BY <2>2, <2>3, ProposeAgrees
  <2> HIDE DEF b
  <2>5. WillCommit(r, [call |-> "proposeEdge"], b)
    BY <2>1 DEF b
  <2> QED
    BY <2>4, <2>5, SerialWillCommit
<1>4. CASE DeleteEdge(r)
  <2> DEFINE data(e) == [text |-> docs[e].text, refs |-> docs[e].refs,
                         removed |-> TRUE]
             body == [call |-> "deleteEdge"]
  <2>1. PICK e \in Edges :
          WillCommit(r, body,
            CreateRevisionTransaction(e, data(e), FreshId(clock), clock, TRUE,
                                      docs[e], FALSE))
    BY <1>4 DEF DeleteEdge
  <2>2. body.call = "deleteEdge"
    OBVIOUS
  <2> HIDE DEF data, body
  <2> QED
    BY <2>1, <2>2, SerialCreate
<1>5. CASE CiteEdge(r)
  <2>1. PICK e \in Edges, add \in SUBSET Articles, drop \in SUBSET Articles :
          WillCommit(r, [call |-> "citeEdge", doc |-> e, add |-> add,
                         drop |-> drop],
            CreateRevisionTransaction(e,
              [text |-> docs[e].text, refs |-> (docs[e].refs \ drop) \cup add,
               removed |-> FALSE],
              FreshId(clock), clock, FALSE, docs[e], docs[e].published))
    BY <1>5 DEF CiteEdge
  <2>2. docs[e].published /\ ~docs[e].removed => PageIsPublic(docs[e])
    BY DEF PageIsPublic
  <2> QED
    BY <2>1, <2>2, SerialCreate
<1>6. CASE EnrichEdge(r)
  <2>1. PICK e \in Edges, x \in Enrichments :
          \/ WillCommit(r, [call |-> "enrichEdge"],
               CreateRevisionTransaction(e, Corrected(e, x.filled),
                 FreshId(clock), clock, TRUE, docs[e], docs[e].published))
          \/ WillCommit(r, [call |-> "enrichEdge"],
               ProposeRevisionTransaction(e, Corrected(e, x.filled),
                 KeyedProposalId(e, x.identity), clock))
    BY <1>6 DEF EnrichEdge
  <2>2. CASE WillCommit(r, [call |-> "enrichEdge"],
               CreateRevisionTransaction(e, Corrected(e, x.filled),
                 FreshId(clock), clock, TRUE, docs[e], docs[e].published))
    <3>1. docs[e].published /\ ~docs[e].removed => PageIsPublic(docs[e])
      BY DEF PageIsPublic
    <3> QED
      BY <2>2, <3>1, SerialCreate
  <2>3. CASE WillCommit(r, [call |-> "enrichEdge"],
               ProposeRevisionTransaction(e, Corrected(e, x.filled),
                 KeyedProposalId(e, x.identity), clock))
    <3> DEFINE id == KeyedProposalId(e, x.identity)
               b == ProposeRevisionTransaction(e, Corrected(e, x.filled), id,
                                               clock)
    <3>1. Restates
      BY <1>6 DEF EnrichEdge, Receives, Restates
    <3>2. id \in DOMAIN revs => revs[id].doc \in Edges
      <4>1. id.kind = "keyed" /\ id.doc = e
        BY DEF KeyedProposalId
      <4> QED
        BY <4>1 DEF IInv, StoreInv, IdFits
    <3>3. /\ Agrees(b, docs, revs) /\ LeavesVisibility(b, docs)
          /\ KeepsEnds(b, docs) /\ RemovesNoPage(b.file)
      BY <3>1, <3>2, ProposeAgrees
    <3> HIDE DEF b
    <3>4. WillCommit(r, [call |-> "enrichEdge"], b)
      BY <2>3 DEF b
    <3> QED
      BY <3>3, <3>4, SerialWillCommit
  <2> QED
    BY <2>1, <2>2, <2>3
<1> QED
  BY <1>1, <1>2, <1>3, <1>4, <1>5, <1>6

LEMMA SerialDecisions ==
  ASSUME IInv, SerialInv, NEW r \in Requests,
         Approve(r) \/ Reject(r) \/ PublishNode(r) \/ PublishEdges(r)
           \/ HideEdges(r) \/ TagArticles(r)
  PROVE  KeepsSerial
<1>0. /\ \A id \in DOMAIN revs : revs[id].doc \in Docs
      /\ Nodes \subseteq Docs /\ Edges \subseteq Docs
      /\ Nodes \cap Edges = {}
  BY DisjointAssumption DEF IInv, TypeOK, Revision, Docs
<1>1. CASE Approve(r)
  <2>1. PICK id \in DOMAIN revs, publish \in Verdicts :
          LET d == revs[id].doc IN
          /\ d \in Edges /\ ShownAs(publish, docs[d]) => Publishable(docs, d)
          /\ WillCommit(r, [call |-> "approve", doc |-> d, publish |-> publish],
                        ApplyRevision(id, revs[id], docs[d], publish))
    BY <1>1 DEF Approve
  <2> DEFINE d == revs[id].doc
             b == ApplyRevision(id, revs[id], docs[d], publish)
             body == [call |-> "approve", doc |-> d, publish |-> publish]
  <2>2. publish \in {"keep", "show", "hide"}
    BY VerdictsAssumption
  <2>3. EndsAreWatched /\ EndsInv =>
          publish # "hide" /\ (d \in Nodes => ~revs[id].data.removed)
    BY DEF EndsAreWatched, EndsInv, RemovesNoPage
  <2>4. /\ Agrees(b, docs, revs) /\ RemovesNoPage(b.file)
        /\ publish = "keep" => LeavesVisibility(b, docs)
        /\ EndsAreWatched /\ EndsInv => KeepsEnds(b, docs)
    BY <1>0, <2>1, <2>2, <2>3, ApplyAgrees
  <2>5. /\ body.call = "approve" /\ body.publish = publish
        /\ WillCommit(r, body, b)
    BY <2>1
  <2> HIDE DEF b, body
  <2> QED
    BY <2>4, <2>5, SerialWillCommit
<1>2. CASE Reject(r)
  <2> DEFINE b(id) == [EmptyBatch EXCEPT !.judge = Only(id, "rejected")]
  <2>1. PICK id \in DOMAIN revs :
          /\ docs[revs[id].doc].pointer # id
          /\ WillCommit(r, [call |-> "reject"], b(id))
    BY <1>2 DEF Reject, Serves
  <2>2. id # NoRevision
    BY NoRevisionIsNoId DEF IInv, TypeOK
  <2>3. \A n \in Nodes : docs[n].pointer # id
    BY <1>0, <2>1, <2>2 DEF IInv, StoreInv
  <2>4. /\ Agrees(b(id), docs, revs) /\ LeavesVisibility(b(id), docs)
        /\ KeepsEnds(b(id), docs) /\ RemovesNoPage(b(id).file)
    BY <2>3, RejectAgrees
  <2> HIDE DEF b
  <2> QED
    BY <2>1, <2>4, SerialWillCommit
<1>3. CASE PublishNode(r)
  <2>1. PICK n \in Nodes :
          /\ docs[n].exists
          /\ WillCommit(r, [call |-> "publishNode"],
                        [EmptyBatch EXCEPT !.show = Only(n, TRUE)])
    BY <1>3 DEF PublishNode
  <2> DEFINE b == [EmptyBatch EXCEPT !.show = Each({n}, TRUE)]
  <2>2. Agrees(b, docs, revs) /\ RemovesNoPage(b.file) /\ KeepsEnds(b, docs)
    BY <1>0, <2>1, ShowAgrees
  <2>3. Only(n, TRUE) = Each({n}, TRUE)
    BY DEF Only, Each
  <2>4. WillCommit(r, [call |-> "publishNode"], b)
    BY <2>1, <2>3
  <2> HIDE DEF b
  <2> QED
    BY <2>2, <2>4, SerialWillCommit
<1>4. CASE PublishEdges(r)
  <2>1. PICK es \in SUBSET Edges :
          /\ \A e \in es : docs[e].exists /\ Publishable(docs, e)
          /\ WillCommit(r, [call |-> "publishEdges", edges |-> es],
                        PublishEdgesInBatch(docs, revs, es))
    BY <1>4 DEF PublishEdges
  <2> DEFINE b == PublishEdgesInBatch(docs, revs, es)
  <2>2. Agrees(b, docs, revs) /\ RemovesNoPage(b.file) /\ KeepsEnds(b, docs)
    BY <2>1, PublishEdgesAgrees
  <2>3. WillCommit(r, [call |-> "publishEdges", edges |-> es], b)
    BY <2>1
  <2> HIDE DEF b
  <2> QED
    BY <2>2, <2>3, SerialWillCommit
<1>5. CASE HideEdges(r)
  <2> DEFINE b(es) == [EmptyBatch EXCEPT !.show = Each(es, FALSE)]
  <2>1. PICK es \in SUBSET Edges :
          /\ \A e \in es : docs[e].exists
          /\ WillCommit(r, [call |-> "hideEdges"], b(es))
    BY <1>5 DEF HideEdges, HideInBatch
  <2>2. /\ Agrees(b(es), docs, revs) /\ RemovesNoPage(b(es).file)
        /\ KeepsEnds(b(es), docs)
    BY <1>0, <2>1, ShowAgrees
  <2> HIDE DEF b
  <2> QED
    BY <2>1, <2>2, SerialWillCommit
<1>6. CASE TagArticles(r)
  <2> DEFINE es == {e \in req[r].edges : /\ Target[e] = req[r].node
                                         /\ docs[e].exists
                                         /\ ~docs[e].removed}
             b == PublishEdgesInBatch(docs, revs, es)
  <2>1. /\ WillCommit(r, [call |-> "approveTopic"], b) /\ req[r].at = "tag"
    BY <1>6 DEF TagArticles
  <2>2. req[r].edges \subseteq Tags
    BY <2>1 DEF IInv, TypeOK, RequestTypeOK, Idle
  <2>3. es \in SUBSET Edges /\ \A e \in es : docs[e].exists
    BY <2>2, KindsAssumption
  <2>4. Agrees(b, docs, revs)
    <3> HIDE DEF es
    <3> QED
      BY <2>3, PublishEdgesAgrees
  <2>5. ~EndsInv
    BY <2>1 DEF EndsInv, FitsEnds
  <2> HIDE DEF b
  <2> QED
    BY <2>1, <2>4, <2>5, SerialWillCommit
<1> QED
  BY <1>1, <1>2, <1>3, <1>4, <1>5, <1>6

\* A page is hidden after its public relations.
LEMMA SerialHideNode ==
  ASSUME NoOverlap, IInv, SerialInv, NEW r \in Requests,
         HideNode(r) \/ CascadeUnpublishEdges(r) \/ HideNodeAtLast(r)
  PROVE  KeepsSerial
<1>0. /\ Nodes \subseteq Docs /\ Edges \subseteq Docs
      /\ Nodes \cap Edges = {}
  BY DisjointAssumption DEF Docs
<1>1. CASE HideNode(r)
  <2> DEFINE q(n) == [at |-> "hide", node |-> n,
                      edges |-> {e \in EdgesOf(n) : PageIsPublic(docs[e])}]
  <2>1. PICK n \in Nodes : docs[n].exists /\ req' = [req EXCEPT ![r] = q(n)]
    BY <1>1 DEF HideNode
  <2>2. \A e \in Edges : PageIsPublic(docs[e]) => docs[e].exists
    <3>1. \A e \in Edges : ~docs[e].exists => docs[e] = Blank
      BY <1>0 DEF SerialInv, StoreStands
    <3>2. ~PageIsPublic(Blank)
      BY DEF Blank, PageIsPublic
    <3> QED
      BY <3>1, <3>2
  <2>3. /\ q(n).at = "hide" /\ q(n).node = n
        /\ q(n).edges = {e \in EdgesOf(n) : PageIsPublic(docs[e])}
    OBVIOUS
  <2> HIDE DEF q
  <2>4. Fits(q(n), docs, revs)
    BY <2>1, <2>2, <2>3 DEF Fits, EdgesOf
  <2>5. FitsEnds(q(n), docs)
    BY <2>3 DEF FitsEnds, HidesAfterItsEdges
  <2>6. UNCHANGED <<docs, revs>>
    BY <1>1 DEF HideNode
  <2> QED
    BY <2>1, <2>4, <2>5, <2>6, SerialReadStep
<1>2. CASE CascadeUnpublishEdges(r)
  <2>1. PICK chunk \in SUBSET req[r].edges :
          /\ chunk # {} /\ Write(HideInBatch(chunk))
          /\ req' = [req EXCEPT ![r].edges = @ \ chunk]
    BY <1>2 DEF CascadeUnpublishEdges
  <2>2. req[r].at = "hide" /\ RequestTypeOK(req[r])
    BY <1>2 DEF CascadeUnpublishEdges, IInv, TypeOK
  <2>3. req[r] \in [at: {"hide"}, node: Nodes, edges: SUBSET Edges]
    BY <2>2 DEF RequestTypeOK, Idle
  <2> DEFINE q == [req[r] EXCEPT !.edges = @ \ chunk]
  <2>4. /\ q.at = "hide" /\ q.node = req[r].node
        /\ q.edges = req[r].edges \ chunk
        /\ req' = [req EXCEPT ![r] = q]
    BY <2>1, <2>3
  <2> HIDE DEF q
  <2>5. q # req[r]
    BY <2>1, <2>4
  <2>6. \A d \in {req[r].node} \cup req[r].edges : d \in Docs /\ docs[d].exists
    BY <1>0, <2>2, <2>3 DEF SerialInv, Fits
  <2>7. /\ \A d \in chunk : docs[d].exists
        /\ \A d \in {q.node} \cup q.edges : d \in Docs /\ docs[d].exists
    BY <2>4, <2>6
  <2>8. /\ chunk \in SUBSET Docs /\ chunk \subseteq Edges /\ UNCHANGED clock
    BY <1>0, <1>2, <2>3 DEF CascadeUnpublishEdges
  <2>9. KeepsEnds(HideInBatch(chunk), docs)
    BY <1>0, <2>7, <2>8, ShowAgrees DEF HideInBatch
  <2>10. EndsInv => FitsEnds(q, docs')
    <3> SUFFICES ASSUME EndsInv,
                        NEW e \in EdgesOf(q.node), PageIsPublic(docs'[e])
                 PROVE  e \in q.edges
      BY <2>4 DEF FitsEnds, HidesAfterItsEdges
    <3>1. e \in Docs
      BY <1>0 DEF EdgesOf
    <3> DEFINE b == [EmptyBatch EXCEPT !.show = Each(chunk, FALSE)]
    <3>2. b = [set |-> NoWrites, show |-> Each(chunk, FALSE),
               point |-> NoWrites, file |-> NoWrites, judge |-> NoWrites]
      BY ShowBatch
    <3>3. docs' = DocsAfter(docs, b)
      BY <2>1 DEF Write, HideInBatch
    <3>4. BatchTypeOK(b)
      BY <2>8, ShowTyped
    <3> HIDE DEF b
    <3>5. /\ docs'[e].removed = Base(docs, b, e).removed
          /\ docs'[e].published = IF e \in DOMAIN b.show THEN b.show[e]
                                  ELSE Base(docs, b, e).published
      BY <3>1, <3>3, <3>4, DocsAfterFields DEF IInv, TypeOK
    <3>6. Base(docs, b, e) = docs[e]
      BY <3>2 DEF Base, NoWrites
    <3>7. e \notin chunk /\ PageIsPublic(docs[e])
      BY <3>2, <3>5, <3>6 DEF PageIsPublic, Each
    <3>8. HidesAfterItsEdges(req[r], docs)
      BY <2>2 DEF EndsInv, FitsEnds
    <3> QED
      BY <2>4, <3>7, <3>8 DEF HidesAfterItsEdges
  <2> DEFINE b == HideInBatch(chunk)
  <2>11. /\ Safe(b, docs, revs, clock) /\ Agrees(b, docs, revs)
         /\ RemovesNoPage(b.file)
    BY <2>7, <2>8, ShowIsSafe, BatchInvIsSafe, ShowAgrees DEF HideInBatch
  <2> HIDE DEF b
  <2>12. req'[r] = q /\ Decides(r)
    BY <2>2, <2>4 DEF IInv, TypeOK, Decides, SaysWhoSees
  <2>13. \A d \in Docs : docs[d].exists => docs'[d].exists
    BY <2>1, <2>11, IInvIsSound, WriteOnlyAdds DEF Write, b
  <2>14. Fits(q, docs', revs')
    BY <2>4, <2>7, <2>13 DEF Fits
  <2> QED
    BY <2>1, <2>5, <2>9, <2>10, <2>11, <2>12, <2>14, SerialWriteStep DEF b
<1>3. CASE HideNodeAtLast(r)
  <2>1. /\ req[r].at = "hide" /\ RequestTypeOK(req[r]) /\ req[r].edges = {}
        /\ Write(HideInBatch({req[r].node})) /\ UNCHANGED clock
        /\ req' = [req EXCEPT ![r] = Idle]
    BY <1>3 DEF HideNodeAtLast, IInv, TypeOK
  <2>2. req[r].node \in Nodes
    BY <2>1 DEF RequestTypeOK, Idle
  <2>3. \A d \in {req[r].node} : docs[d].exists
    BY <2>1 DEF SerialInv, Fits
  <2>4. Idle # req[r]
    BY <2>1 DEF Idle
  <2> DEFINE n == req[r].node
             b == [EmptyBatch EXCEPT !.show = Each({n}, FALSE)]
  <2>5. /\ Safe(b, docs, revs, clock) /\ Agrees(b, docs, revs)
        /\ RemovesNoPage(b.file)
    BY <1>0, <2>2, <2>3, ShowIsSafe, BatchInvIsSafe, ShowAgrees
  <2>6. req'[r] = Idle /\ Decides(r) /\ req'[r] # req[r]
    BY <2>1, <2>4 DEF IInv, TypeOK, Decides, SaysWhoSees
  <2>7. Fits(Idle, docs', revs')
    BY DEF Fits, Idle
  <2>8. b = [set |-> NoWrites, show |-> Each({n}, FALSE), point |-> NoWrites,
             file |-> NoWrites, judge |-> NoWrites]
    BY ShowBatch
  <2>9. Write(b)
    BY <2>1 DEF HideInBatch
  <2> HIDE DEF b
  <2>10. SerialInv' /\ Upholds
    BY <2>5, <2>6, <2>7, <2>9, SerialStoreStep
  <2>11. ASSUME EndsInv
         PROVE  EndsInv'
    <3>1. \A d \in Docs :
            /\ docs'[d].exists = docs[d].exists
            /\ docs'[d].removed = docs[d].removed
            /\ docs'[d].published = (d # n /\ docs[d].published)
      <4> SUFFICES ASSUME NEW d \in Docs
                   PROVE  /\ docs'[d].exists = docs[d].exists
                          /\ docs'[d].removed = docs[d].removed
                          /\ docs'[d].published = (d # n /\ docs[d].published)
        OBVIOUS
      <4>1. Base(docs, b, d) = docs[d] /\ docs[d].published \in BOOLEAN
        BY <2>8, StoredTyped DEF Base, NoWrites
      <4>2. /\ docs'[d].exists = docs[d].exists
            /\ docs'[d].removed = docs[d].removed
            /\ docs'[d].published =
                 IF d \in DOMAIN b.show THEN b.show[d] ELSE docs[d].published
        BY <2>5, <2>9, <4>1, DocsAfterFields DEF Write, Safe, IInv, TypeOK
      <4> QED
        BY <2>8, <4>1, <4>2 DEF Each
    <3>2. HidesAfterItsEdges(req[r], docs)
      BY <2>1, <2>11 DEF EndsInv, FitsEnds
    <3>3. ASSUME NEW e \in Edges, PageIsPublic(docs'[e])
          PROVE  Publishable(docs', e)
      <4>1. PageIsPublic(docs[e])
        BY <1>0, <3>1, <3>3 DEF PageIsPublic
      <4>2. e \notin EdgesOf(n)
        BY <2>1, <3>2, <4>1 DEF HidesAfterItsEdges
      <4>3. /\ Source[e] \in Docs \ {n} /\ Target[e] \in Docs \ {n}
        BY <1>0, <4>2, EndsAssumption DEF EdgesOf
      <4>4. Publishable(docs, e)
        BY <2>11, <4>1 DEF EndsInv, RelationsHavePublicEnds
      <4> QED
        BY <3>1, <4>3, <4>4 DEF Publishable, PageIsPublic
    <3>4. RemovesNoPage(revs')
      BY <2>5, <2>9, <2>11, WriteKeepsNoPageRemoval
         DEF Write, Safe, EndsInv, IInv, TypeOK, RecordTypeOK
    <3>5. \A s \in Requests : FitsEnds(req'[s], docs')
      BY <2>6 DEF NoOverlap, FitsEnds, Idle
    <3> QED
      BY <3>3, <3>4, <3>5 DEF EndsInv, RelationsHavePublicEnds
  <2> QED
    BY <2>10, <2>11 DEF KeepsSerial
<1> QED
  BY <1>1, <1>2, <1>3

LEMMA SerialApproveTopic ==
  ASSUME IInv, SerialInv, NEW r \in Requests, ApproveTopic(r)
  PROVE  KeepsSerial
<1>0. clock \in Nat /\ Sound(docs, revs, clock)
  BY IInvIsSound DEF Sound
<1>1. UNCHANGED <<docs, revs>> /\ ~EndsAreWatched
  BY DEF ApproveTopic, Receives, EndsAreWatched
<1>2. PICK n \in Topics, es \in SUBSET Tags :
        \/ req' = [req EXCEPT ![r] = [at |-> "tag", node |-> n, edges |-> es]]
        \/ /\ Candidates(revs, n) # {}
           /\ LET id == PublishCandidateRevision(revs, n)
              IN  req' = [req EXCEPT ![r] =
                            [at |-> "topic", node |-> n, edges |-> es,
                             batch |-> ApplyRevision(id, revs[id], docs[n],
                                                     "show")]]
  BY DEF ApproveTopic
<1>3. CASE req' = [req EXCEPT ![r] = [at |-> "tag", node |-> n, edges |-> es]]
  <2>1. Fits([at |-> "tag", node |-> n, edges |-> es], docs, revs)
    BY DEF Fits
  <2> QED
    BY <1>1, <1>3, <2>1, SerialReadStep
<1>4. ASSUME Candidates(revs, n) # {},
             req' = [req EXCEPT ![r] =
                       [at |-> "topic", node |-> n, edges |-> es,
                        batch |-> ApplyRevision(
                                    PublishCandidateRevision(revs, n),
                                    revs[PublishCandidateRevision(revs, n)],
                                    docs[n], "show")]]
      PROVE  KeepsSerial
  <2> DEFINE id == PublishCandidateRevision(revs, n)
             b == ApplyRevision(id, revs[id], docs[n], "show")
             q == [at |-> "topic", node |-> n, edges |-> es, batch |-> b]
  <2>1. id \in DOMAIN revs /\ revs[id].doc = n /\ n \in Docs
    BY <1>0, <1>4, CandidateIsCandidate, KindsAssumption DEF Candidates, Docs
  <2>2. Agrees(b, docs, revs)
    <3> HIDE DEF id
    <3> QED
      BY <2>1, ApplyAgrees
  <2> HIDE DEF b
  <2>3. /\ q.at = "topic" /\ q.batch = b /\ req' = [req EXCEPT ![r] = q]
    BY <1>4 DEF b
  <2> HIDE DEF q
  <2>4. Fits(q, docs, revs)
    BY <2>2, <2>3 DEF Fits
  <2> QED
    BY <1>1, <2>3, <2>4, SerialReadStep
<1> QED
  BY <1>2, <1>3, <1>4

LEMMA SerialCommits ==
  ASSUME NoOverlap, IInv, SerialInv, NEW r \in Requests,
         Commit(r) \/ CommitTopic(r) \/ Fail(r)
  PROVE  KeepsSerial
<1>0. /\ Fits(Idle, docs, revs) /\ Fits(Idle, docs', revs')
      /\ FitsEnds(Idle, docs) /\ FitsEnds(Idle, docs')
  BY DEF Fits, FitsEnds, Idle
<1>1. CASE Commit(r)
  <2> DEFINE b == req[r].batch
  <2>1. /\ req[r].at = "commit" /\ Write(b) /\ req'[r] = Idle
    BY <1>1 DEF Commit, IInv, TypeOK
  <2>2. Safe(b, docs, revs, clock)
    BY <2>1, InFlightTyped, BatchInvIsSafe DEF InFlight, IInv, TypeOK
  <2>3. Fits(req[r], docs, revs) /\ req'[r] # req[r]
    BY <2>1 DEF SerialInv, Idle
  <2>4. Agrees(b, docs, revs) /\ (Decides(r) \/ LeavesVisibility(b, docs))
    BY <2>1, <2>3 DEF Fits, Decides
  <2>5. EndsInv => KeepsEnds(b, docs) /\ RemovesNoPage(b.file)
    BY <2>1 DEF EndsInv, FitsEnds
  <2> HIDE DEF b
  <2> QED
    BY <1>0, <2>1, <2>2, <2>3, <2>4, <2>5, SerialWriteStep
<1>2. CASE CommitTopic(r)
  <2> DEFINE b == req[r].batch
             q == [at |-> "tag", node |-> req[r].node, edges |-> req[r].edges]
  <2>1. /\ req[r].at = "topic" /\ Write(b) /\ req'[r] = q
    BY <1>2 DEF CommitTopic, IInv, TypeOK
  <2>2. Safe(b, docs, revs, clock)
    BY <2>1, InFlightTyped, BatchInvIsSafe DEF InFlight, IInv, TypeOK
  <2>3. Agrees(b, docs, revs) /\ Decides(r) /\ q # req[r]
    BY <2>1 DEF SerialInv, Fits, Decides, SaysWhoSees
  <2>4. Fits(q, docs', revs')
    BY DEF Fits
  <2>5. ~EndsInv
    BY <2>1 DEF EndsInv, FitsEnds
  <2> HIDE DEF b, q
  <2> QED
    BY <2>1, <2>2, <2>3, <2>4, <2>5, SerialWriteStep
<1>3. CASE Fail(r)
  BY <1>0, <1>3, SerialReadStep DEF Fail
<1> QED
  BY <1>1, <1>2, <1>3

LEMMA SerialStep ==
  ASSUME NoOverlap, IInv, SerialInv, [Next]_vars
  PROVE  KeepsSerial
<1>1. CASE Next
  <2>1. PICK r \in Requests :
          \/ ProposeNode(r) \/ ProposeEdit(r) \/ ProposeRemoval(r)
          \/ Approve(r) \/ Reject(r)
          \/ PublishNode(r)
          \/ HideNode(r) \/ CascadeUnpublishEdges(r) \/ HideNodeAtLast(r)
          \/ CreateEdge(r) \/ CorrectEdge(r) \/ ProposeEdge(r) \/ EnrichEdge(r)
          \/ DeleteEdge(r) \/ CiteEdge(r) \/ PublishEdges(r) \/ HideEdges(r)
          \/ ApproveTopic(r) \/ CommitTopic(r) \/ TagArticles(r)
          \/ Commit(r) \/ Fail(r)
    BY <1>1 DEF Next
  <2>2. CASE ProposeNode(r)
    BY <2>2, SerialProposeNode
  <2>3. CASE ProposeEdit(r) \/ ProposeRemoval(r)
    BY <2>3, SerialProposals
  <2>4. CASE Approve(r) \/ Reject(r) \/ PublishNode(r) \/ PublishEdges(r)
               \/ HideEdges(r) \/ TagArticles(r)
    BY <2>4, SerialDecisions
  <2>5. CASE HideNode(r) \/ CascadeUnpublishEdges(r) \/ HideNodeAtLast(r)
    BY <2>5, SerialHideNode
  <2>6. CASE CreateEdge(r) \/ CorrectEdge(r) \/ ProposeEdge(r) \/ EnrichEdge(r)
               \/ DeleteEdge(r) \/ CiteEdge(r)
    BY <2>6, SerialEdges
  <2>7. CASE ApproveTopic(r)
    BY <2>7, SerialApproveTopic
  <2>8. CASE Commit(r) \/ CommitTopic(r) \/ Fail(r)
    BY <2>8, SerialCommits
  <2> QED
    BY <2>1, <2>2, <2>3, <2>4, <2>5, <2>6, <2>7, <2>8
<1>2. CASE UNCHANGED vars
  <2>1. UNCHANGED <<docs, revs, req, clock>>
    BY <1>2 DEF vars
  <2>2. SerialInv' /\ (EndsInv => EndsInv')
    BY <2>1 DEF SerialInv, EndsInv, RelationsHavePublicEnds
  <2> QED
    BY <2>1, <2>2 DEF KeepsSerial, Upholds
<1> QED
  BY <1>1, <1>2

LEMMA InitSerial == Init => SerialInv /\ EndsInv
<1> SUFFICES ASSUME Init
             PROVE  SerialInv /\ EndsInv
  OBVIOUS
<1>0. Nodes \subseteq Docs /\ Edges \subseteq Docs
  BY DEF Docs
<1>1. ASSUME NEW d \in Ingested
      PROVE  /\ d \in Docs /\ docs[d].exists /\ ~docs[d].removed
             /\ docs[d].published = (d \in Live)
             /\ docs[d].pointer = IngestedId(d)
  <2>1. d \in Docs
    BY IngestedAssumption
  <2>2. docs[d] = RevisionTargetData(FirstData, Blank, d \in Live,
                                     IngestedId(d))
    BY <1>1, <2>1 DEF Init
  <2>3. docs[d] = [exists |-> TRUE, text |-> FirstText, refs |-> {},
                   removed |-> FALSE, published |-> d \in Live,
                   pointer |-> IngestedId(d)]
    BY <2>2 DEF RevisionTargetData, FirstData, Blank
  <2> QED
    BY <2>1, <2>3
<1>2. \A d \in Docs \ Ingested : docs[d] = Blank
  BY DEF Init
<1>3. \A id \in DOMAIN revs :
        revs[id].status = "approved" /\ ~revs[id].data.removed
  BY DEF Init, FirstData, Filing
<1>4. \A d \in Ingested : IngestedId(d) \in DOMAIN revs
  BY DEF Init
<1>5. \A r \in Requests : req[r] = Idle
  BY DEF Init
<1>6. ~Blank.exists /\ ~PageIsPublic(Blank) /\ Blank.pointer = NoRevision
  BY DEF Blank, PageIsPublic
<1>7. SerialInv
  <2>1. StoreStands(docs, revs)
    BY <1>0, <1>1, <1>2, <1>3, <1>4, <1>6 DEF StoreStands
  <2>2. Fits(Idle, docs, revs)
    BY DEF Fits, Idle
  <2> QED
    BY <1>5, <2>1, <2>2 DEF SerialInv
<1>8. EndsInv
  <2>1. ASSUME NEW e \in Edges, PageIsPublic(docs[e])
        PROVE  Publishable(docs, e)
    <3>1. e \in Ingested
      BY <1>0, <1>2, <1>6, <2>1
    <3>2. e \in Live
      BY <1>1, <2>1, <3>1 DEF PageIsPublic
    <3>3. Source[e] \in Live /\ Target[e] \in Live
      BY <3>2, IngestedAssumption
    <3>4. \A n \in Live : docs[n].exists /\ PageIsPublic(docs[n])
      BY <1>1, IngestedAssumption DEF PageIsPublic
    <3> QED
      BY <3>3, <3>4 DEF Publishable
  <2>2. FitsEnds(Idle, docs)
    BY DEF FitsEnds, Idle
  <2> QED
    BY <1>3, <1>5, <2>1, <2>2
       DEF EndsInv, RelationsHavePublicEnds, RemovesNoPage
<1> QED
  BY <1>7, <1>8

-----------------------------------------------------------------------------
(***************************************************************************)
(* The theorems.                                                             *)
(***************************************************************************)
\* The store is sound and every batch in flight safe, in every reachable state.
THEOREM Invariance == Spec => []IInv
  BY InitIInv, StepKeepsIInv, PTL DEF Spec

\* However requests interleave and fail, documents, revisions and batches keep
\* their shape.
THEOREM Typing == Spec => []TypeOK
<1>1. IInv => TypeOK
  BY DEF IInv
<1> QED
  BY <1>1, Invariance, PTL

\* However requests interleave and fail, a document points at a revision on
\* record that is about it.
THEOREM PointersAreOwn == Spec => []PointerIsOwnRevision
<1>1. IInv => PointerIsOwnRevision
  BY DEF IInv, StoreInv, PointerIsOwnRevision
<1> QED
  BY <1>1, Invariance, PTL

\* However requests interleave and fail, no page is published that points at
\* no revision.
THEOREM PublishedWereApproved == Spec => []PublishedPageWasApproved
<1>1. IInv => PublishedPageWasApproved
  BY DEF IInv, StoreInv, PublishedPageWasApproved
<1> QED
  BY <1>1, Invariance, PTL

\* However requests interleave and fail, a page says what the revision it
\* points at says, and is removed if that removes it.
THEOREM PagesCopyRevisions == Spec => []PageCopiesItsRevision
<1>1. IInv => PageCopiesItsRevision
  BY DEF IInv, StoreInv, CopiesRevision, PageCopiesItsRevision
<1> QED
  BY <1>1, Invariance, PTL

\* However requests interleave and fail, a document says nothing that no
\* revision of it states or, if it is an offer since restated, has stated.
THEOREM ContentOnRecord == Spec => []ContentIsOnRecord
<1>1. IInv => ContentIsOnRecord
  BY DEF IInv, StoreInv, ContentIsOnRecord
<1> QED
  BY <1>1, Invariance, PTL

\* However requests interleave and fail, no step changes what a revision on
\* record is about, and none what it states but that of an offer the pipeline
\* filed under a key, which then waits for review again.
THEOREM HistoryStands == Spec => RevisionsAreHistory
<1>1. IInv /\ [Next]_vars => [KeepsHistory]_vars
  BY StepKeepsIInv
<1>2. KeepsHistory =>
        \A id \in DOMAIN revs :
          /\ id \in DOMAIN revs'
          /\ revs'[id].doc = revs[id].doc
          /\ revs'[id].data # revs[id].data =>
               id.kind = "keyed" /\ revs'[id].status = "pending"
  BY DEF KeepsHistory, KeepsRevisions, Keeps
<1> QED
  BY <1>1, <1>2, Invariance, PTL DEF Spec, RevisionsAreHistory

(***************************************************************************)
(* PageHistory.                                                              *)
(***************************************************************************)
\* What a sound store says of the documents, in the words of PageHistory.
LEMMA StoreShowsHistory ==
  IInv =>
    /\ \A d \in Docs :
         /\ ~docs[d].exists => History!Absent(d)
         /\ docs[d].exists => History!OnRecord(d)
    /\ \A p \in Nodes : docs[p].pointer # NoRevision => History!Serving(p)
    /\ \A e \in Edges : docs[e].exists => History!Stands(e)
<1> SUFFICES ASSUME IInv
             PROVE  /\ \A d \in Docs :
                         /\ ~docs[d].exists => History!Absent(d)
                         /\ docs[d].exists => History!OnRecord(d)
                    /\ \A p \in Nodes :
                         docs[p].pointer # NoRevision => History!Serving(p)
                    /\ \A e \in Edges : docs[e].exists => History!Stands(e)
  OBVIOUS
<1>0. Sound(docs, revs, clock) /\ Nodes \subseteq Docs /\ Edges \subseteq Docs
  BY IInvIsSound DEF Docs
<1>1. /\ DOMAIN FiledStatements = DOMAIN revs
      /\ \A id \in DOMAIN revs :
           /\ FiledStatements[id].doc = revs[id].doc
           /\ FiledStatements[id].data = revs[id].data
           /\ FiledStatements[id].stated = revs[id].stated
  BY DEF FiledStatements
<1>2. \A d \in Docs : ~docs[d].exists => History!Absent(d)
  BY <1>0 DEF Sound, StoreInv, History!Absent, History!Unseen
<1>3. \A d \in Docs : docs[d].exists => History!OnRecord(d)
  BY <1>0, <1>1 DEF Sound, StoreInv, IsOnRecord, History!OnRecord
<1>4. ASSUME NEW p \in Nodes, docs[p].pointer # NoRevision
      PROVE  History!Serving(p)
  <2>1. docs[p].exists /\ CopiesRevision(p, docs[p], revs)
    BY <1>0, <1>4 DEF Sound, StoreInv
  <2> QED
    BY <1>1, <2>1 DEF CopiesRevision, History!Serving, History!Filed
<1>5. ASSUME NEW e \in Edges, docs[e].exists
      PROVE  History!Stands(e)
  <2>1. docs[e].pointer # NoRevision =>
          docs[e].pointer \in DOMAIN revs /\ revs[docs[e].pointer].doc = e
    BY <1>0 DEF Sound, StoreInv
  <2> QED
    BY <1>0, <1>1, <1>3, <1>5, <2>1 DEF History!Stands, History!Filed
<1> QED
  BY <1>2, <1>3, <1>4, <1>5

LEMMA HistoryStart == Init => History!Init
<1>1. ASSUME Init, NEW p \in Nodes
      PROVE  History!Absent(p) \/ History!Serving(p)
  <2>1. CASE p \in Ingested
    <3>1. docs[p].pointer = IngestedId(p)
      BY <1>1, <2>1 DEF Init, Docs, RevisionTargetData
    <3> QED
      BY <1>1, <3>1, InitIInv, StoreShowsHistory DEF IngestedId, NoRevision
  <2>2. CASE p \notin Ingested
    <3>1. docs[p] = Blank
      BY <1>1, <2>2 DEF Init, Docs
    <3> QED
      BY <3>1 DEF Blank, History!Absent, History!Unseen
  <2> QED
    BY <2>1, <2>2
<1>2. ASSUME Init, NEW e \in Edges
      PROVE  History!Absent(e) \/ History!Stands(e)
  BY <1>2, InitIInv, StoreShowsHistory DEF Docs
<1> QED
  BY <1>1, <1>2 DEF History!Init

\* The ids of the revisions that PageHistory lets the site restate.
Offers == [kind: {"keyed"}, doc: Edges, key: Identities]

\* The state a document is in, before a step or after it.
DocumentStands ==
  /\ \A id \in DOMAIN revs : id.kind = "keyed" => id \in Offers
  /\ \A d \in Docs :
       /\ ~docs[d].exists => History!Absent(d)
       /\ docs[d].exists /\ Unseen(docs[d]) => History!Draft(d)
  /\ \A p \in Nodes :
       docs[p].pointer \in DOMAIN revs =>
         History!Serving(p) /\ docs[p].pointer \notin Offers
  /\ \A e \in Edges : docs[e].exists => History!Stands(e)

LEMMA StoreStandsInHistory == IInv => DocumentStands
<1>1. IInv => NoRevision \notin DOMAIN revs
  BY NoRevisionIsNoId DEF IInv, TypeOK
<1>2. IInv => \A p \in Nodes : docs[p].pointer \in DOMAIN revs =>
                docs[p].pointer \notin Offers
  <2>1. ASSUME IInv, NEW p \in Nodes, docs[p].pointer \in DOMAIN revs
        PROVE  docs[p].pointer \notin Offers
    <3>1. /\ CopiesRevision(p, docs[p], revs)
          /\ Sound(docs, revs, clock)
      BY <1>1, <2>1, IInvIsSound DEF IInv, StoreInv
    <3>2. revs[docs[p].pointer].doc = p
      BY <3>1 DEF CopiesRevision
    <3> DEFINE id == docs[p].pointer
    <3>3. id \in DOMAIN revs /\ revs[id].doc \in Nodes
      BY <2>1, <3>2
    <3> HIDE DEF id
    <3>4. id \notin [kind: {"keyed"}, doc: Edges, key: Identities]
      BY <3>1, <3>3, PagesTakeNoOffers
    <3> QED
      BY <3>4 DEF id, Offers
  <2> QED
    BY <2>1
<1>3. IInv => \A id \in DOMAIN revs : id.kind = "keyed" => id \in Offers
  <2>1. ASSUME IInv, NEW id \in DOMAIN revs, id.kind = "keyed"
        PROVE  id \in Offers
    <3>1. id \in RevisionIds
      BY <2>1 DEF IInv, TypeOK
    <3> QED
      BY <2>1, <3>1 DEF RevisionIds, Offers
  <2> QED
    BY <2>1
<1> QED
  BY <1>1, <1>2, <1>3, StoreShowsHistory
     DEF DocumentStands, Unseen, History!Draft, History!Unseen

LEMMA HistoryStep ==
  DocumentStands /\ DocumentStands' /\ KeepsHistory => History!Next
<1> SUFFICES ASSUME DocumentStands, DocumentStands', KeepsHistory
             PROVE  History!Next
  OBVIOUS
<1>0. Nodes \subseteq Docs /\ Edges \subseteq Docs
  BY DEF Docs
<1>1. History!Files
  <2>1. ASSUME NEW id \in DOMAIN FiledStatements
        PROVE  /\ id \in DOMAIN FiledStatements'
               /\ FiledStatements'[id].doc = FiledStatements[id].doc
               /\ FiledStatements[id].stated \subseteq FiledStatements'[id].stated
               /\ id \notin Offers =>
                    FiledStatements'[id] = FiledStatements[id]
    <3>1. /\ id \in DOMAIN revs /\ id \in DOMAIN revs'
          /\ revs'[id].doc = revs[id].doc
          /\ revs[id].stated \subseteq revs'[id].stated
      BY <2>1 DEF KeepsHistory, KeepsRevisions, Keeps, FiledStatements
    <3>2. id \notin Offers =>
            revs'[id].data = revs[id].data /\ revs'[id].stated = revs[id].stated
      <4>1. id \notin Offers => id.kind # "keyed"
        BY <3>1 DEF DocumentStands
      <4> QED
        BY <3>1, <4>1 DEF KeepsHistory, KeepsRevisions, Keeps
    <3> QED
      BY <3>1, <3>2 DEF FiledStatements
  <2> QED
    BY <2>1 DEF History!Files, Offers
<1>2. ASSUME NEW d \in Docs
      PROVE  \/ History!Stays(d) \/ History!Begins(d)
             \/ /\ docs'[d].exists
                /\ d \in Edges => docs[d].exists
                /\ d \in Nodes => docs'[d].pointer \in DOMAIN revs
  <2>1. Moves(d)
    BY DEF KeepsHistory
  <2>2. /\ ~docs[d].exists => History!Absent(d)
        /\ docs'[d].exists /\ Unseen(docs'[d]) => History!Draft(d)'
    BY DEF DocumentStands
  <2> QED
    BY <2>1, <2>2 DEF Moves, History!Stays, History!Begins
<1>3. ASSUME NEW p \in Nodes, docs'[p].pointer \in DOMAIN revs
      PROVE  History!Serves(p)
  <2>1. docs'[p].pointer \in DOMAIN revs'
    BY <1>3 DEF KeepsHistory, KeepsRevisions, Keeps
  <2>2. History!Serving(p)' /\ docs'[p].pointer \notin Offers
    BY <2>1 DEF DocumentStands
  <2>3. docs'[p].pointer \in
          DOMAIN FiledStatements \ [kind: {"keyed"}, doc: Edges, key: Identities]
    BY <1>3, <2>2 DEF FiledStatements, Offers
  <2> QED
    BY <1>3, <2>2, <2>3 DEF History!Serves
<1>4. ASSUME NEW e \in Edges, docs[e].exists, docs'[e].exists
      PROVE  History!Rewritten(e)
  BY <1>4 DEF DocumentStands, History!Rewritten
<1> QED
  BY <1>0, <1>1, <1>2, <1>3, <1>4 DEF History!Next

\* However requests interleave and fail, the site keeps to PageHistory: nothing
\* filed changes but offers about relations, a document begins unseen or, a
\* page, by serving a revision on record, a page changes only by serving one
\* that was on record before and cannot change, and a relation says what some
\* revision of it states or has stated.
THEOREM KeepsToPageHistory == Spec => ImplementsPageHistory
<1>1. Init => History!Init
  BY HistoryStart
<1>2. IInv /\ [Next]_vars => KeepsHistory
  BY StepKeepsIInv
<1>3. DocumentStands /\ DocumentStands' /\ KeepsHistory
        => [History!Next]_(History!vars)
  BY HistoryStep
<1>4. IInv => DocumentStands
  BY StoreStandsInHistory
<1> QED
  BY <1>1, <1>2, <1>3, <1>4, Invariance, PTL
     DEF Spec, ImplementsPageHistory, History!Spec

\* While one request is handled at a time, every batch in flight agrees with
\* the store.
LEMMA SerialInvariance ==
  ASSUME NoOverlap
  PROVE  Spec => [](IInv /\ SerialInv)
<1>1. IInv /\ SerialInv /\ [Next]_vars => SerialInv'
  BY SerialStep DEF KeepsSerial
<1>2. Init => SerialInv
  BY InitSerial
<1> QED
  BY <1>1, <1>2, InitIInv, StepKeepsIInv, PTL DEF Spec

LEMMA SerialUpholds ==
  ASSUME NoOverlap
  PROVE  Spec => [][Upholds]_vars
<1>1. IInv /\ SerialInv /\ [Next]_vars => [Upholds]_vars
  BY SerialStep DEF KeepsSerial
<1> QED
  BY <1>1, SerialInvariance, PTL DEF Spec

\* While requests do not overlap, the revision a page points at is approved:
\* it is never turned down, nor put back to waiting by a proposal stored under
\* its id (reject.post.ts, create.post.ts).
THEOREM ServedRevisionsStand ==
  ASSUME NoOverlap
  PROVE  Spec => []ServedRevisionStands
<1>1. SerialInv => ServedRevisionStands
  BY DEF SerialInv, StoreStands, ServedRevisionStands
<1> QED
  BY <1>1, SerialInvariance, PTL

\* While requests do not overlap, no call brings back a page or a relation that
\* was removed (applyRevision, createRevisionTransaction).
THEOREM RemovalsStick ==
  ASSUME NoOverlap
  PROVE  Spec => RemovalSticks
<1>1. Upholds => \A d \in Docs : docs[d].removed => docs'[d].removed
  BY DEF Upholds
<1> QED
  BY <1>1, SerialUpholds, PTL DEF RemovalSticks

\* While requests do not overlap, `published` changes only in a step of a call
\* that says who is to see the document.
THEOREM VisibilityDecided ==
  ASSUME NoOverlap
  PROVE  Spec => VisibilityIsDecided
<1>1. Upholds =>
        ((\E d \in Docs : docs'[d].published # docs[d].published) =>
           \E r \in Requests : Decides(r) /\ req'[r] # req[r])
  BY DEF Upholds
<1> QED
  BY <1>1, SerialUpholds, PTL DEF VisibilityIsDecided

\* While requests do not overlap and nobody restates a turned down correction
\* or offer of a relation (create.post.ts and person.post.ts store that over
\* the old one), a rejection stays on record until an approval.
THEOREM RejectionsAreKept ==
  ASSUME NoOverlap, {"proposeEdge", "enrichEdge"} \cap Calls = {}
  PROVE  Spec => RejectionIsKept
<1>1. Upholds =>
        \A id \in DOMAIN revs :
          revs[id].status = "rejected" => revs'[id].status # "pending"
  BY DEF Upholds, Restates
<1> QED
  BY <1>1, SerialUpholds, PTL DEF RejectionIsKept

\* While requests do not overlap and no call takes a page off the site but
\* nodes/publish, which hides its relations first, every public relation has
\* public ends.
THEOREM RelationsHaveEnds ==
  ASSUME NoOverlap, EndsAreWatched
  PROVE  Spec => []RelationsHavePublicEnds
<1>1. IInv /\ SerialInv /\ EndsInv /\ [Next]_vars => EndsInv'
  BY SerialStep DEF KeepsSerial
<1>2. Init => EndsInv
  BY InitSerial
<1>3. EndsInv => RelationsHavePublicEnds
  BY DEF EndsInv
<1> QED
  BY <1>1, <1>2, <1>3, SerialInvariance, PTL DEF Spec
=============================================================================
