---------------------------- MODULE MCEdgeStats ----------------------------
(***************************************************************************)
(* An instance of EdgeStats for TLC: two pages and two relations, one of     *)
(* which can be moved from page to page, ending at different pages; a query  *)
(* holds one target.                                                         *)
(***************************************************************************)
EXTENDS EdgeStats, TLC

CONSTANTS n1, n2, e1, e2, p1, p2

MCStarts == e1 :> {n1, n2} @@ e2 :> {n1}
MCTarget == e1 :> p1 @@ e2 :> p2
=============================================================================
