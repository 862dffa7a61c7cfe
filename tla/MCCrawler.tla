----------------------------- MODULE MCCrawler -----------------------------
(***************************************************************************)
(* Values for TLC: a seed that links to a page in another bucket, or six     *)
(* seeds in as many buckets that link to nothing.                            *)
(***************************************************************************)
EXTENDS Crawler

MCUrls == 1..2
MCSeeds == {1}
MCLinks == [u \in MCUrls |-> IF u = 1 THEN {2} ELSE {}]
MCBucket == [u \in MCUrls |-> 1 + (u % 2)]

MCWideUrls == 1..6
MCWideLinks == [u \in MCWideUrls |-> {}]
MCWideBucket == [u \in MCWideUrls |-> u]
=============================================================================
