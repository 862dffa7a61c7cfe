----------------------------- MODULE Duplicates -----------------------------
(***************************************************************************)
(* Pages that turned out to be the same, or to be two: nodes/merge,          *)
(* nodes/split (utils/merge.ts), and the ingest of a person                  *)
(* (ingest/person.post.ts), which goes on restating what it found about      *)
(* pages that have been merged or split since.  A page merged away stays as  *)
(* a tombstone that points at its survivor.  Requests do not overlap here.   *)
(***************************************************************************)
EXTENDS Naturals, FiniteSets, SequencesExt

CONSTANTS
  Pages,
  Kind,       \* the type of each page
  Stored,     \* the relations at first, by document id
  Suspects,   \* the pages somebody merges
  Composites, \* the pages somebody splits
  Payloads,   \* of ingests: rows, parties, and whether changes are vouched for
  Cast,       \* the votes of people at first, pairs of a page and a voter
  Knows,      \* what each page knows at first
  None,
  MaxHops,    \* MAX_MERGE_HOPS
  MaxEdges,   \* bound: relations stored
  Rank(_)     \* the place of a document id in their order

ASSUME KindsAssumption == DOMAIN Kind = Pages /\ None \notin Pages
ASSUME RankAssumption == \A i, j \in DOMAIN Stored : Rank(i) = Rank(j) => i = j
ASSUME BoundsAssumption == MaxHops \in Nat \ {0} /\ MaxEdges \in Nat

VARIABLES
  merged,  \* `merged_into` of each page, or None
  parties, \* what each page knows, for the fields a merge carries
  votes,   \* the votes of people on pages
  edges    \* the relations, by document id

vars == <<merged, parties, votes, edges>>

(***************************************************************************)
(* What a relation asserts (utils/edges.ts).  `says` stands for the fields   *)
(* that tell two relations of one pair apart; blank is not known.            *)
(***************************************************************************)
Blank == "?"
IdenticalMeansSame(type) == type \notin {"election", "connection"}
Enrichable(type) == type = "election"

Ends(e) == <<e.source, e.target, e.type>>
Identity(e) == <<Ends(e), e.says>>
DocumentId(e, copy) == <<Identity(e), copy>>
Live(i) == ~edges[i].deleted

MeetsEnrichFloor(e) == Enrichable(e.type) => e.says.year # Blank
Agrees(says, new) ==
  \A f \in DOMAIN says : says[f] = Blank \/ new[f] = Blank \/ says[f] = new[f]
Adds(says, new) == \E f \in DOMAIN says : says[f] = Blank /\ new[f] # Blank
EnrichedEdge(says, new) ==
  [f \in DOMAIN says |-> IF says[f] = Blank THEN new[f] ELSE says[f]]

InOrder(ids) ==
  LET at == [i \in ids |-> Cardinality({j \in ids : Rank(j) < Rank(i)}) + 1]
  IN  [k \in 1..Cardinality(ids) |-> CHOOSE i \in ids : at[i] = k]

(***************************************************************************)
(* resolveMergedNode: the page a reader ends up on.                          *)
(***************************************************************************)
ResolveMergedNode(n) ==
  LET walk[hop \in 0..MaxHops] ==
        IF hop = 0 THEN [at |-> n, seen |-> {n, None}]
        ELSE LET w == walk[hop - 1]
                 next == merged[w.at]
             IN  IF next \in w.seen THEN w
                 ELSE [at |-> next, seen |-> w.seen \cup {next}]
  IN  walk[MaxHops].at
AsGiven(n) == n  \* mutant: the survivor is taken as it was named
Survivor(n) == ResolveMergedNode(n)

(***************************************************************************)
(* planEdgeMoves: what becomes of the relations `moving` when their end      *)
(* `from` becomes `to`, which has the relations `there`.                     *)
(***************************************************************************)
EdgesFrom(n) == {i \in DOMAIN edges : edges[i].source = n}  \* mutant: one query of two
EdgesTouching(n) == {i \in DOMAIN edges : n \in {edges[i].source, edges[i].target}}

Remapped(e, from, to) ==
  [e EXCEPT !.source = IF @ = from THEN to ELSE @, !.target = IF @ = from THEN to ELSE @]

\* The relations known of one pair that may be a poorer or fuller statement of
\* `e`.  As in the code, the pair is the target and the type.
Candidates(plan, e) ==
  SelectSeq(plan.known, LAMBDA c :
    /\ Enrichable(e.type) /\ c.fact.target = e.target /\ c.fact.type = e.type
    /\ c.id \notin plan.claimed /\ MeetsEnrichFloor(c.fact)
    /\ Agrees(c.fact.says, e.says))

Held(plan, e, i) ==
  [plan EXCEPT !.held = @ \cup {Identity(e)}, !.known = Append(@, [id |-> i, fact |-> e]),
               !.moved = @ \cup {i}]

Verdict(plan, i, from, to) ==
  LET e == Remapped(edges[i], from, to)
      found == Candidates(plan, e)
      match == Head(found)
  IN  CASE e.source = e.target ->  \* self
             [plan EXCEPT !.removed = @ \cup {i}]
        [] e.source # e.target /\ Identity(e) \in plan.held ->
             IF IdenticalMeansSame(e.type)
             THEN [plan EXCEPT !.removed = @ \cup {i}]  \* collapsed
             ELSE [plan EXCEPT !.moved = @ \cup {i}]    \* review
        [] e.source # e.target /\ Identity(e) \notin plan.held /\ found # <<>> ->
             LET folded == [plan EXCEPT !.claimed = @ \cup {match.id}, !.removed = @ \cup {i}]
             IN  IF ~Adds(match.fact.says, e.says) THEN folded  \* collapsed
                 ELSE [folded EXCEPT !.learns =                 \* enriched
                         (match.id :> EnrichedEdge(match.fact.says, e.says)) @@ @]
        [] OTHER -> Held(plan, e, i)  \* moved

PlanEdgeMoves(moving, there, from, to) ==
  LET known == InOrder({i \in there : Live(i)})
  IN  FoldLeft(LAMBDA plan, i : Verdict(plan, i, from, to),
        [held |-> {Identity(edges[i]) : i \in {j \in there : Live(j)}},
         known |-> [k \in DOMAIN known |-> [id |-> known[k], fact |-> edges[known[k]]]],
         claimed |-> {}, moved |-> {}, removed |-> {}, learns |-> <<>>],
        InOrder({i \in moving : Live(i)}))

\* What the plan makes of a relation.
Moved(i, plan, from, to) ==
  LET e == IF i \in plan.moved THEN Remapped(edges[i], from, to) ELSE edges[i]
  IN  [e EXCEPT !.says = IF i \in DOMAIN plan.learns THEN plan.learns[i] ELSE @,
                !.deleted = @ \/ i \in plan.removed]

(***************************************************************************)
(* The handlers.                                                             *)
(***************************************************************************)
Init ==
  /\ merged = [n \in Pages |-> None]
  /\ parties = Knows /\ votes = Cast /\ edges = Stored

\* votesToMove: a vote stays with the tombstone if its author has one already.
VotesToMove(d, s) == {v \in votes : v[1] = d /\ <<s, v[2]>> \notin votes}

Merge(d, named) ==
  LET s == Survivor(named)
      plan == PlanEdgeMoves(EdgesTouching(d), EdgesTouching(s), d, s)
      moving == VotesToMove(d, s)
  IN  /\ d # s /\ Kind[d] = Kind[s] /\ merged[d] = None  \* mergeRefusal
      /\ merged' = [merged EXCEPT ![d] = s]
      /\ parties' = [parties EXCEPT ![s] = @ \cup parties[d]]
      /\ votes' = (votes \ moving) \cup {<<s, v[2]>> : v \in moving}
      /\ edges' = [i \in DOMAIN edges |-> Moved(i, plan, d, s)]

\* Only what moves is taken: the rest stays where it was found.
Split(n, chosen, named) ==
  LET into == ResolveMergedNode(named)
      plan == PlanEdgeMoves(chosen, EdgesTouching(into), n, into)
  IN  /\ merged[n] = None /\ into # n
      /\ chosen \subseteq EdgesTouching(n)
      /\ edges' = [i \in DOMAIN edges |->
                     IF i \in plan.moved THEN Remapped(edges[i], n, into) ELSE edges[i]]
      /\ UNCHANGED <<merged, parties, votes>>

(***************************************************************************)
(* findEdgeOrCreate, for one row: the n-th row of an identity takes the n-th  *)
(* stored relation that says as much.  Nothing is written before the end, so *)
(* every row looks at what was stored at first.                              *)
(***************************************************************************)
Says(stored, e) ==
  \/ Identity(stored) = Identity(e)
  \/ /\ Enrichable(e.type) /\ MeetsEnrichFloor(stored)
     /\ Agrees(stored.says, e.says) /\ ~Adds(stored.says, e.says)

TakesUnclaimed(ids, ctx, identity) ==  \* mutant: a row is counted twice over
  {i \in ids : i \notin DOMAIN ctx.claimed}
Takes(ids, ctx, identity) ==
  {i \in ids : i \notin DOMAIN ctx.claimed \/ ctx.claimed[i] = identity}

FindEdgeOrCreate(store, ctx, e, vouched) ==
  LET identity == Identity(e)
      occurrence == Cardinality({k \in DOMAIN ctx.rows : ctx.rows[k] = identity})
      ids == {i \in DOMAIN store : Ends(store[i]) = Ends(e)}
      same == {i \in ids : Says(store[i], e)}
      existing == InOrder(Takes(same, ctx, identity))
      poorer == InOrder({i \in (ids \ same) \ DOMAIN ctx.claimed :
                           /\ Enrichable(e.type) /\ MeetsEnrichFloor(store[i])
                           /\ Agrees(store[i].says, e.says)})
      copy == CHOOSE c \in occurrence..(occurrence + Cardinality(ids)) :
                /\ DocumentId(e, c) \notin ids
                /\ \A b \in occurrence..(c - 1) : DocumentId(e, b) \in ids
      Claim(i) == [ctx EXCEPT !.rows = Append(@, identity), !.claimed = (i :> identity) @@ @]
  IN  IF Len(existing) > occurrence THEN Claim(existing[occurrence + 1])
      ELSE IF poorer # <<>>
      THEN LET i == Head(poorer)
               says == EnrichedEdge(store[i].says, e.says)
           IN  IF ~vouched THEN Claim(i)  \* proposed to a reviewer
               ELSE [Claim(i) EXCEPT !.writes = (i :> [store[i] EXCEPT !.says = says]) @@ @]
      ELSE [Claim(DocumentId(e, copy)) EXCEPT !.writes = (DocumentId(e, copy) :> e) @@ @]

\* The relations after the ingest of a payload about page n.
Ingested(store, n, payload) ==
  LET ctx == FoldLeft(LAMBDA c, row :
               FindEdgeOrCreate(store, c,
                 [source |-> n, target |-> row.target, type |-> row.type, says |-> row.says,
                  deleted |-> FALSE], payload.vouched),
               [rows |-> <<>>, claimed |-> <<>>, writes |-> <<>>], payload.rows)
  IN  ctx.writes @@ store

\* The page a payload names, by id or by what is stored on it, is followed to the
\* one that survived it.
IngestPerson(named, payload) ==
  LET n == ResolveMergedNode(named)
      after == Ingested(edges, n, payload)
  IN  /\ Kind[n] = "person" /\ Cardinality(DOMAIN after) <= MaxEdges
      /\ edges' = after
      /\ parties' = [parties EXCEPT ![n] = @ \cup payload.parties]
      /\ UNCHANGED <<merged, votes>>

Next ==
  \/ \E d \in Suspects, named \in Suspects : Merge(d, named)
  \/ \E n \in Composites, named \in Pages : Kind[named] = Kind[n] /\
       \E chosen \in SUBSET {i \in EdgesTouching(n) : Live(i)} : Split(n, chosen, named)
  \/ \E named \in Pages, p \in Payloads : IngestPerson(named, p)

Spec == Init /\ [][Next]_vars

(***************************************************************************)
(* Properties.                                                               *)
(***************************************************************************)
\* However pages were merged, and into whatever names, every address ends on a
\* page that is not itself a tombstone: chains may form, cycles may not.
ReadersArrive == \A n \in Pages : merged[ResolveMergedNode(n)] = None

\* e says at least what f says, between the same pages.
SaysAtLeast(e, f) ==
  Ends(e) = Ends(f) /\ \A x \in DOMAIN f.says : f.says[x] \in {Blank, e.says[x]}

\* A merge loses nothing.  Each relation that stood, of the two pages or of any
\* other, is said by one that stands afterwards, unless it led from the page to
\* itself; no relation is left on the tombstone; and the survivor has the votes
\* and knows what the duplicate knew.
MergesLoseNothing ==
  [][\A d \in Pages : merged[d] = None /\ merged'[d] # None =>
       LET s == merged'[d]
           StandsAfter(e) == \E j \in DOMAIN edges' : ~edges'[j].deleted /\ SaysAtLeast(edges'[j], e)
       IN  /\ \A i \in DOMAIN edges : Live(i) =>
                LET e == Remapped(edges[i], d, s) IN e.source = e.target \/ StandsAfter(e)
           /\ \A j \in DOMAIN edges' :
                ~edges'[j].deleted => d \notin {edges'[j].source, edges'[j].target}
           /\ \A v \in votes : v[1] = d => <<s, v[2]>> \in votes'
           /\ parties[d] \subseteq parties'[s]]_vars

\* Sending a payload again, whatever was merged or split before, maps each row
\* back onto the relation it made: nothing is written the second time.
ReplayChangesNothing ==
  \A n \in Pages, p \in Payloads :
    Kind[n] = "person" /\ merged[n] = None =>
      LET once == Ingested(edges, n, p) IN Ingested(once, n, p) = once

\* "A new document, at an id no stored edge already occupies": an ingest leaves
\* the relations of other pages alone.
NewIsNew ==
  [][\A n \in Pages, p \in Payloads : IngestPerson(n, p) =>
       \A i \in DOMAIN edges :
         edges[i].source # ResolveMergedNode(n) => edges'[i] = edges[i]]_vars
=============================================================================
