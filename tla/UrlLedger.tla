------------------------------ MODULE UrlLedger ------------------------------
(***************************************************************************)
(* What the queue of URLs promises the crawl, however many processes share   *)
(* it: a URL is given out as often as it takes, under a claim of its own     *)
(* each time; only a claim that is still out marks its page done or counts a *)
(* failure, once; and the queue grows by what done pages link to.            *)
(***************************************************************************)
EXTENDS Integers, FiniteSets

CONSTANTS Urls, Seeds, Links, MaxRetries

VARIABLES
  known,   \* the URLs in the queue
  done,    \* those whose page was fetched
  retries, \* how often each failed
  claims,  \* how often each was given out
  held     \* the claims that are out

vars == <<known, done, retries, claims, held>>

Init ==
  /\ known = Seeds /\ done = {} /\ held = {}
  /\ retries = [u \in Urls |-> 0]
  /\ claims = [u \in Urls |-> 0]

Give ==
  \E us \in SUBSET {u \in known \ done : retries[u] < MaxRetries} :
    /\ held' = held \cup {[url |-> u, nth |-> claims[u]] : u \in us}
    /\ claims' = [u \in Urls |-> IF u \in us THEN claims[u] + 1 ELSE claims[u]]
    /\ UNCHANGED <<known, done, retries>>

Finish ==
  \E back \in SUBSET held :
    /\ held' = held \ back
    /\ done' = done \cup {e.url : e \in back}
    /\ UNCHANGED <<known, retries, claims>>

\* Some of those that come back failed; the others were not even tried.
Fail ==
  \E back \in SUBSET held :
    \E failed \in SUBSET back :
      /\ held' = held \ back
      /\ retries' = [u \in Urls |->
                       retries[u] + Cardinality({e \in failed : e.url = u})]
      /\ UNCHANGED <<known, done, claims>>

Lose ==
  /\ \E lost \in SUBSET held : held' = held \ lost
  /\ UNCHANGED <<known, done, retries, claims>>

Follow ==
  /\ \E us \in SUBSET done : known' = known \cup UNION {Links[u] : u \in us}
  /\ UNCHANGED <<done, retries, claims, held>>

Next == Give \/ Finish \/ Fail \/ Lose \/ Follow

Spec == Init /\ [][Next]_vars
=============================================================================
