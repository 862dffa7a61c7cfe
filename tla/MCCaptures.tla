----------------------------- MODULE MCCaptures -----------------------------
(***************************************************************************)
(* A page captured whole and by a passage.                                   *)
(***************************************************************************)
EXTENDS Captures, TLC

CONSTANTS r1, r2, a1, a2

MCCaptures == {"whole", "passage"}
MCBytes == [c \in MCCaptures |-> "page"]
MCUrl == [c \in MCCaptures |-> "url"]
Interchangeable == Permutations({r1, r2}) \cup Permutations({a1, a2})
=============================================================================
