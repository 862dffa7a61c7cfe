---------------------------- MODULE PageHistory ----------------------------
(***************************************************************************)
(* What the site promises whoever looks at the past of a document, however   *)
(* many readers and admins write at once.  What was filed stays filed, but   *)
(* offers of the pipeline, about relations, may be restated.  A document      *)
(* begins as a draft nobody sees, unless a revision was filed of a page       *)
(* before there was one: then it may begin by serving that.  From then on a   *)
(* page changes only by serving a revision that was on record before, word   *)
(* for word; a relation may be rewritten or shown, but always says what was   *)
(* filed.  Neither ever ceases to exist.                                     *)
(***************************************************************************)
CONSTANTS
  Pages, Relations,
  Offers,            \* ids of revisions that may be restated
  None               \* the id of no revision

VARIABLES
  filed,   \* the revisions on record: whose they are, what they state and
           \* what they have stated
  docs     \* what each page and relation is now

vars == <<filed, docs>>

Filed(d, doc) == doc.pointer \in DOMAIN filed /\ filed[doc.pointer].doc = d

OnRecord(d) ==
  \E id \in DOMAIN filed :
    /\ filed[id].doc = d
    /\ \E data \in filed[id].stated :
         data.text = docs[d].text /\ data.refs = docs[d].refs

(***************************************************************************)
(* The conditions a document can be in.                                      *)
(***************************************************************************)
Unseen(d) == ~docs[d].published /\ docs[d].pointer = None

Absent(d) == ~docs[d].exists /\ Unseen(d)

Draft(d) == docs[d].exists /\ Unseen(d) /\ OnRecord(d)

\* What the page says is what the revision it points at states; it may have
\* been removed since.
Serving(p) ==
  /\ docs[p].exists /\ Filed(p, docs[p])
  /\ LET data == filed[docs[p].pointer].data
     IN  /\ docs[p].text = data.text /\ docs[p].refs = data.refs
         /\ data.removed => docs[p].removed

Stands(e) ==
  /\ docs[e].exists /\ OnRecord(e)
  /\ docs[e].pointer = None \/ Filed(e, docs[e])

Init ==
  /\ \A p \in Pages : Absent(p) \/ Serving(p)
  /\ \A e \in Relations : Absent(e) \/ Stands(e)

(***************************************************************************)
(* What may become of them.                                                  *)
(***************************************************************************)
Stays(d) == docs'[d] = docs[d]

Begins(d) == Absent(d) /\ Draft(d)'

\* The revision was on record when it was approved, and cannot be restated.
Serves(p) ==
  /\ Serving(p)'
  /\ docs'[p].pointer \in DOMAIN filed \ Offers

Rewritten(e) == docs[e].exists /\ Stands(e)'

Files ==
  \A id \in DOMAIN filed :
    /\ id \in DOMAIN filed'
    /\ filed'[id].doc = filed[id].doc
    /\ filed[id].stated \subseteq filed'[id].stated
    /\ id \notin Offers => filed'[id] = filed[id]

Next ==
  /\ Files
  /\ \A p \in Pages : Stays(p) \/ Begins(p) \/ Serves(p)
  /\ \A e \in Relations : Stays(e) \/ Begins(e) \/ Rewritten(e)

Spec == Init /\ [][Next]_vars
=============================================================================
