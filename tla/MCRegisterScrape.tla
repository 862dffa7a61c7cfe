-------------------------- MODULE MCRegisterScrape --------------------------
(***************************************************************************)
(* A company that is in the register P, of a board that is one of two, over  *)
(* days of which one is a Sunday; retries after two days and then three.     *)
(***************************************************************************)
EXTENDS RegisterScrape, TLC

MCBackoff == <<2, 3>>
AnyBoard == Permutations(Boards)
=============================================================================
