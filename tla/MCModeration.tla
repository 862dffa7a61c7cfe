---------------------------- MODULE MCModeration ----------------------------
(***************************************************************************)
(* Instances of Moderation for TLC: two pages, one or two relations between  *)
(* them, two or three texts.  The .cfg files choose the calls, the requests  *)
(* in flight and the bound on revisions.                                     *)
(***************************************************************************)
EXTENDS Moderation, TLC

CONSTANTS n1, n2, e1, e2, t1, t2, t3

\* e1 leads from n1 to n2, e2 back.
MCSource == [e \in Edges |-> IF e = e1 THEN n1 ELSE n2]
MCTarget == [e \in Edges |-> IF e = e1 THEN n2 ELSE n1]

\* A row fills t1 in to t2 or, spelt otherwise, to t3.
MCEnrichments ==
  [stored: {t1}, identity: Identities, filled: Texts \ {t1}]

\* Two spellings are told apart by nothing but their names, and so are slots.
\* Times tell revisions apart, so the newest of them is chosen the same way.
Interchangeable == Permutations(Texts \ {t1}) \cup Permutations(Requests)
=============================================================================
