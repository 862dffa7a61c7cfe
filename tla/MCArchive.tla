------------------------------ MODULE MCArchive ------------------------------
(***************************************************************************)
(* Three pages of one host, enough to fill a batch; midnight makes a second  *)
(* batch for it.                                                             *)
(***************************************************************************)
EXTENDS Archive

MCUrls == {"a1", "a2", "a3"}
MCHost == [u \in MCUrls |-> "a"]
MCWorkers == {"w1", "w2"}
=============================================================================
