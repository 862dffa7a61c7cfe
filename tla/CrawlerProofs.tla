---------------------------- MODULE CrawlerProofs ----------------------------
(***************************************************************************)
(* Theorems about Crawler, for any URLs, processes, threads and sizes: pages *)
(* that are done are followed; with sizes that fit a coordinator never waits *)
(* while it claims; the crawler implements UrlLedger, so that a claim is     *)
(* answered once at most; a URL is worked on once per lock that ran out; it  *)
(* fails no more often than it may; a coordinator that ends holds nothing;   *)
(* and one that finds nothing to claim comes ever nearer to its end.         *)
(***************************************************************************)
EXTENDS Crawler, FiniteSetTheorems, FunctionTheorems, TLAPS

-----------------------------------------------------------------------------
(***************************************************************************)
(* The part of the types that what follows rests on.                         *)
(***************************************************************************)
Pcs == {"loop", "put", "drain", "markDone", "markError", "putLinks", "ended",
        "crashed"}
QueueTypes ==
  /\ claims \in [Urls -> Nat]
  /\ pc \in [Processes -> Pcs]
  /\ putting \in [Processes -> SUBSET Entry]
  /\ work_q \in [Processes -> SUBSET Entry]
  /\ fetching \in [Processes -> [Threads -> SUBSET Entry]]
  /\ done_q \in [Processes -> SUBSET Result]
  /\ pending \in [Processes -> SUBSET Result]

LEMMA TypesInit == Init => QueueTypes
  BY DEF Init, QueueTypes, Pcs

LEMMA TypesRefill ==
  ASSUME QueueTypes, NEW p \in Processes, Refill(p)
  PROVE  QueueTypes'
<1> PICK batch \in ClaimBatches : Refill(p)!2!(batch)
  BY DEF Refill
<1>1. batch \subseteq Urls
  BY DEF ClaimBatches
<1>2. {[url |-> u, nth |-> claims[u]] : u \in batch} \subseteq Entry
  BY <1>1 DEF Entry, QueueTypes
<1>3. claims' \in [Urls -> Nat] /\ putting' \in [Processes -> SUBSET Entry]
  BY <1>2 DEF QueueTypes
<1>4. pc' \in [Processes -> Pcs]
  BY DEF Goes, QueueTypes, Pcs
<1> QED
  BY <1>3, <1>4 DEF Refill, QueueTypes

LEMMA TypesNext == QueueTypes /\ [Next]_vars => QueueTypes'
<1> SUFFICES ASSUME QueueTypes, [Next]_vars
             PROVE  QueueTypes'
  OBVIOUS
<1>1. ASSUME NEW u \in Urls, Expire(u)
      PROVE  QueueTypes'
  BY <1>1 DEF Expire, QueueTypes
<1>2. ASSUME NEW p \in Processes, Coordinate(p)
      PROVE  QueueTypes'
  <2>1. CASE Refill(p)
    BY <2>1, TypesRefill
  <2>2. CASE SkipRefill(p)
    BY <2>2 DEF SkipRefill, Goes, table, QueueTypes, Pcs
  <2>3. CASE Put(p)
    BY <2>3 DEF Put, table, QueueTypes, Pcs
  <2>4. CASE Drain(p)
    BY <2>4 DEF Drain, Goes, table, QueueTypes, Pcs
  <2>5. CASE MarkDone(p)
    BY <2>5 DEF MarkDone, Goes, QueueTypes, Pcs
  <2>6. CASE MarkError(p)
    BY <2>6 DEF MarkError, Goes, QueueTypes, Pcs
  <2>7. CASE PutLinks(p)
    BY <2>7 DEF PutLinks, Goes, QueueTypes, Pcs
  <2> QED
    BY <1>2, <2>1, <2>2, <2>3, <2>4, <2>5, <2>6, <2>7 DEF Coordinate
<1>3. ASSUME NEW p \in Processes, Crash(p)
      PROVE  QueueTypes'
  BY <1>3 DEF Crash, table, QueueTypes, Pcs
<1>4. ASSUME NEW p \in Processes, Start(p)
      PROVE  QueueTypes'
  BY <1>4 DEF Start, table, QueueTypes, Pcs
<1>5. ASSUME NEW p \in Processes, NEW t \in Threads, Take(p, t)
      PROVE  QueueTypes'
  <2> PICK entry \in work_q[p] :
        /\ work_q' = [work_q EXCEPT ![p] = @ \ {entry}]
        /\ fetching' = [fetching EXCEPT ![p][t] = {entry}]
    BY <1>5 DEF Take
  <2> QED
    BY <1>5 DEF Take, table, QueueTypes
<1>6. ASSUME NEW p \in Processes, NEW t \in Threads, Report(p, t)
      PROVE  QueueTypes'
  <2> PICK entry \in fetching[p][t], outcome \in Outcomes :
        done_q' = [done_q EXCEPT ![p] =
                     @ \cup {[entry |-> entry, outcome |-> outcome]}]
    BY <1>6 DEF Report, Reported
  <2>1. [entry |-> entry, outcome |-> outcome] \in Result
    BY DEF Result, QueueTypes
  <2> QED
    BY <1>6, <2>1 DEF Report, table, QueueTypes
<1>7. CASE UNCHANGED vars
  BY <1>7 DEF vars, QueueTypes
<1> QED
  BY <1>1, <1>2, <1>3, <1>4, <1>5, <1>6, <1>7 DEF Next

-----------------------------------------------------------------------------
(***************************************************************************)
(* What is done is followed.                                                 *)
(***************************************************************************)
FollowInv == QueueTypes /\ DoneIsFollowed

\* Where nothing is done and no follower leaves, nothing is left unfollowed.
LEMMA StaysFollowed ==
  ASSUME DoneIsFollowed, done' = done, known' = known, orphaned' = orphaned,
         \A p \in Processes : Following(p) \subseteq Following(p)'
  PROVE  DoneIsFollowed'
  BY DEF DoneIsFollowed, Following, UrlsThat

\* The step that marks pages done makes its process their follower; the one
\* that adds the links, and the crash that never will, let go of them.
LEMMA FollowMarkDone ==
  ASSUME FollowInv, NEW p \in Processes, MarkDone(p)
  PROVE  DoneIsFollowed'
<1>1. \A q \in Processes : Following(q) \subseteq Following(q)'
  BY DEF MarkDone, Goes, Following, UrlsThat, FollowInv, QueueTypes
<1>2. UrlsThat(p, "ok") \subseteq Following(p)'
  BY DEF MarkDone, Goes, Following, UrlsThat, FollowInv, QueueTypes
<1>3. ASSUME NEW u \in done'
      PROVE  \/ Links[u] \subseteq known'
             \/ u \in orphaned'
             \/ \E q \in Processes : u \in Following(q)'
  <2>1. CASE u \in done
    BY <1>1, <2>1 DEF MarkDone, FollowInv, DoneIsFollowed
  <2>2. CASE u \in UrlsThat(p, "ok")
    BY <1>2, <2>2
  <2> QED
    BY <1>3, <2>1, <2>2 DEF MarkDone
<1> QED
  BY <1>3 DEF DoneIsFollowed

LEMMA FollowPutLinks ==
  ASSUME FollowInv, NEW p \in Processes, PutLinks(p)
  PROVE  DoneIsFollowed'
<1>1. \A q \in Processes \ {p} : Following(q) \subseteq Following(q)'
  BY DEF PutLinks, Goes, Following, UrlsThat, FollowInv, QueueTypes
<1>2. \A u \in Following(p) : Links[u] \subseteq known'
  BY DEF PutLinks, Goes, Following, Discovered
<1>3. known \subseteq known' /\ done' = done /\ orphaned' = orphaned
  BY DEF PutLinks
<1>4. ASSUME NEW u \in done'
      PROVE  \/ Links[u] \subseteq known'
             \/ u \in orphaned'
             \/ \E q \in Processes : u \in Following(q)'
  BY <1>1, <1>2, <1>3, <1>4 DEF FollowInv, DoneIsFollowed
<1> QED
  BY <1>4 DEF DoneIsFollowed

LEMMA FollowCrash ==
  ASSUME FollowInv, NEW p \in Processes, Crash(p)
  PROVE  DoneIsFollowed'
<1>1. \A q \in Processes \ {p} : Following(q) \subseteq Following(q)'
  BY DEF Crash, Following, UrlsThat, FollowInv, QueueTypes
<1>2. Following(p) \subseteq orphaned' /\ orphaned \subseteq orphaned'
  BY DEF Crash, Following
<1>3. known' = known /\ done' = done
  BY DEF Crash, table
<1>4. ASSUME NEW u \in done'
      PROVE  \/ Links[u] \subseteq known'
             \/ u \in orphaned'
             \/ \E q \in Processes : u \in Following(q)'
  BY <1>1, <1>2, <1>3, <1>4 DEF FollowInv, DoneIsFollowed
<1> QED
  BY <1>4 DEF DoneIsFollowed

LEMMA FollowOthers ==
  ASSUME FollowInv,
         NEW p \in Processes,
         \/ Refill(p) \/ SkipRefill(p) \/ Put(p) \/ Drain(p) \/ MarkError(p)
         \/ Start(p)
         \/ \E t \in Threads : Take(p, t) \/ Report(p, t)
  PROVE  DoneIsFollowed'
<1>1. done' = done /\ known' = known /\ orphaned' = orphaned
  BY DEF Refill, SkipRefill, Put, Drain, MarkError, Start, Take, Report, table
<1>2. ASSUME NEW q \in Processes
      PROVE  Following(q) \subseteq Following(q)'
  <2> USE DEF Following, UrlsThat, FollowInv, QueueTypes, Goes, table
  <2>1. CASE Refill(p) \/ SkipRefill(p)
    BY <2>1 DEF Refill, SkipRefill
  <2>2. CASE Put(p)
    BY <2>2 DEF Put
  <2>3. CASE Drain(p)
    BY <2>3 DEF Drain
  <2>4. CASE MarkError(p)
    BY <2>4 DEF MarkError
  <2>5. CASE Start(p)
    BY <2>5 DEF Start, Alive
  <2>6. CASE \E t \in Threads : Take(p, t) \/ Report(p, t)
    BY <2>6 DEF Take, Report
  <2> QED
    BY <2>1, <2>2, <2>3, <2>4, <2>5, <2>6
<1> QED
  BY <1>1, <1>2, StaysFollowed DEF FollowInv

LEMMA FollowNext == FollowInv /\ [Next]_vars => FollowInv'
<1> SUFFICES ASSUME FollowInv, [Next]_vars
             PROVE  DoneIsFollowed'
  BY TypesNext DEF FollowInv
<1>1. ASSUME NEW u \in Urls, Expire(u)
      PROVE  DoneIsFollowed'
  BY <1>1, StaysFollowed
     DEF Expire, FollowInv, Following, UrlsThat
<1>2. ASSUME NEW p \in Processes, Coordinate(p) \/ Crash(p) \/ Start(p)
      PROVE  DoneIsFollowed'
  BY <1>2, FollowMarkDone, FollowPutLinks, FollowCrash, FollowOthers
     DEF Coordinate
<1>3. ASSUME NEW p \in Processes, NEW t \in Threads, Take(p, t) \/ Report(p, t)
      PROVE  DoneIsFollowed'
  BY <1>3, FollowOthers
<1>4. CASE UNCHANGED vars
  BY <1>4, StaysFollowed DEF vars, FollowInv, Following, UrlsThat
<1> QED
  BY <1>1, <1>2, <1>3, <1>4 DEF Next

\* Whatever crashes and whichever locks run out, a page that is done has its
\* links in the queue, or a process that is about to add them, or lost it.
THEOREM Followed == Spec => []DoneIsFollowed
<1>1. Init => FollowInv
  BY TypesInit DEF Init, FollowInv, DoneIsFollowed
<1>2. FollowInv => DoneIsFollowed
  BY DEF FollowInv
<1> QED
  BY <1>1, <1>2, FollowNext, PTL DEF Spec

-----------------------------------------------------------------------------
(***************************************************************************)
(* What is claimed fits.                                                     *)
(***************************************************************************)
LEMMA Sizes ==
  /\ PerBucket \in Nat \ {0}
  /\ RefillWatermark \in Nat \ {0}
<1>1. FlushSize \in Nat \ {0} /\ HostBuckets \in Nat \ {0}
  BY UrlsAssumption, SizesAssumption
<1>2. FlushSize + HostBuckets - 1 \in Nat
      /\ FlushSize + HostBuckets - 1 >= HostBuckets
  BY <1>1
<1>3. \A a \in Nat, b \in Nat \ {0} : a >= b => a \div b \in Nat \ {0}
  BY SMTT(30)
<1>4. PerBucket \in Nat \ {0}
  BY <1>1, <1>2, <1>3 DEF PerBucket
<1>5. RefillWatermark \in Nat \ {0}
  BY <1>1 DEF RefillWatermark
<1> QED
  BY <1>4, <1>5

\* A batch numbered bucket by bucket: at most PerBucket from each.
LEMMA BatchFits ==
  ASSUME NEW batch \in ClaimBatches
  PROVE  IsFiniteSet(batch) /\ Cardinality(batch) <= HostBuckets * PerBucket
<1> DEFINE In(b) == {u \in batch : Bucket[u] = b}
           Grid == (1..HostBuckets) \X (1..PerBucket)
<1>1. batch \subseteq Urls /\ IsFiniteSet(batch)
  BY UrlsAssumption, FS_Subset DEF ClaimBatches
<1>2. ASSUME NEW b \in 1..HostBuckets
      PROVE  \E f : f \in Injection(In(b), 1..PerBucket)
  <2>1. In(b) = batch \cap {u \in Urls : Claimable(u) /\ Bucket[u] = b}
    BY <1>1 DEF ClaimBatches
  <2>2. Cardinality(In(b)) <= PerBucket
    BY <2>1 DEF ClaimBatches
  <2>3. IsFiniteSet(In(b))
    BY <1>1, FS_Subset
  <2> HIDE DEF In
  <2>4. /\ Cardinality(In(b)) \in Nat
        /\ ExistsBijection(1..Cardinality(In(b)), In(b))
    BY <2>3, FS_CardinalityType
  <2>5. PICK g : g \in Bijection(In(b), 1..Cardinality(In(b)))
    BY <2>4, Fun_ExistsBijSymmetric DEF ExistsBijection
  <2>6. 1..Cardinality(In(b)) \subseteq 1..PerBucket
    BY <2>2, <2>4, Sizes
  <2> WITNESS g
  <2> QED
    BY <2>5, <2>6 DEF Bijection, Injection, IsInjective
<1> DEFINE Nth == [b \in 1..HostBuckets |->
                     CHOOSE f : f \in Injection(In(b), 1..PerBucket)]
           place == [u \in batch |-> <<Bucket[u], Nth[Bucket[u]][u]>>]
<1>3. \A b \in 1..HostBuckets : Nth[b] \in Injection(In(b), 1..PerBucket)
  BY <1>2
<1>4. place \in Injection(batch, Grid)
  <2>1. \A u \in batch : Bucket[u] \in 1..HostBuckets /\ u \in In(Bucket[u])
    BY <1>1, UrlsAssumption
  <2> HIDE DEF Nth
  <2>2. \A b \in 1..HostBuckets :
          /\ \A u \in In(b) : Nth[b][u] \in 1..PerBucket
          /\ \A u, v \in In(b) : Nth[b][u] = Nth[b][v] => u = v
    BY <1>3 DEF Injection, IsInjective
  <2>3. place \in [batch -> Grid]
    BY <2>1, <2>2
  <2>4. ASSUME NEW u \in batch, NEW v \in batch, place[u] = place[v]
        PROVE  u = v
    BY <2>1, <2>2, <2>4
  <2> QED
    BY <2>3, <2>4 DEF Injection, IsInjective
<1>5. /\ IsFiniteSet(Grid)
      /\ Cardinality(Grid) = HostBuckets * PerBucket
  <2>1. HostBuckets \in Nat /\ PerBucket \in Nat
    BY Sizes, UrlsAssumption
  <2>2. /\ IsFiniteSet(1..HostBuckets) /\ Cardinality(1..HostBuckets) = HostBuckets
        /\ IsFiniteSet(1..PerBucket) /\ Cardinality(1..PerBucket) = PerBucket
    BY <2>1, FS_Interval
  <2>3. /\ IsFiniteSet(Grid)
        /\ Cardinality(Grid) = Cardinality(1..HostBuckets) * Cardinality(1..PerBucket)
    BY <2>2, FS_Product
  <2> HIDE DEF Grid
  <2> QED
    BY <2>2, <2>3, Zenon
<1> HIDE DEF place, Grid
<1> QED
  BY <1>1, <1>4, <1>5, FS_Injection

FitInv ==
  /\ QueueTypes
  /\ \A p \in Processes :
       /\ IsFiniteSet(putting[p]) /\ IsFiniteSet(work_q[p])
       /\ pc[p] = "put" <=> putting[p] # {}
  /\ ClaimsFit

\* What is claimed comes on top of less than the watermark.
LEMMA FitRefill ==
  ASSUME SizesFit, FitInv, NEW p \in Processes, Refill(p)
  PROVE  FitInv'
<1> PICK batch \in ClaimBatches : Refill(p)!2!(batch)
  BY DEF Refill
<1> DEFINE entries == {[url |-> u, nth |-> claims[u]] : u \in batch}
           entryOf == [u \in batch |-> [url |-> u, nth |-> claims[u]]]
<1>1. IsFiniteSet(batch) /\ Cardinality(batch) <= HostBuckets * PerBucket
  BY BatchFits
<1>2. entryOf \in Surjection(batch, entries)
  BY DEF Surjection
<1>3. IsFiniteSet(entries) /\ Cardinality(entries) <= Cardinality(batch)
  BY <1>1, <1>2, FS_Surjection
<1>4. putting' = [putting EXCEPT ![p] = entries] /\ work_q' = work_q
  BY DEF Refill
<1>5. (entries = {} <=> batch = {})
      /\ pc' = [pc EXCEPT ![p] = IF batch = {} THEN "drain" ELSE "put"]
  BY DEF Goes
<1> HIDE DEF entries, entryOf
<1>6. Cardinality(entries) + Cardinality(work_q[p]) <= 2 * FlushSize
  <2>1. Cardinality(work_q[p]) \in Nat /\ Cardinality(work_q[p]) < RefillWatermark
    BY FS_CardinalityType DEF FitInv, Refill, NeedsRefill
  <2>2. Cardinality(entries) \in Nat /\ Cardinality(batch) \in Nat
    BY <1>1, <1>3, FS_CardinalityType
  <2>3. /\ HostBuckets * PerBucket \in Nat
        /\ PerBucket * HostBuckets = HostBuckets * PerBucket
    BY Sizes, UrlsAssumption
  <2>4. RefillWatermark - 1 + HostBuckets * PerBucket <= 2 * FlushSize
    BY <2>3, Zenon DEF SizesFit
  <2> QED
    BY <1>1, <1>3, <2>1, <2>2, <2>3, <2>4, Sizes, SizesAssumption
<1>7. ClaimsFit'
  BY <1>4, <1>6 DEF ClaimsFit, FitInv, QueueTypes
<1>8. QueueTypes'
  BY TypesRefill DEF FitInv
<1>9. \A q \in Processes :
        /\ IsFiniteSet(putting'[q]) /\ IsFiniteSet(work_q'[q])
        /\ pc'[q] = "put" <=> putting'[q] # {}
  BY <1>3, <1>4, <1>5 DEF FitInv, QueueTypes, Refill, Goes
<1> QED
  BY <1>7, <1>8, <1>9 DEF FitInv

LEMMA FitPut ==
  ASSUME FitInv, NEW p \in Processes, Put(p)
  PROVE  FitInv'
<1> PICK entry \in putting[p] :
      /\ putting' = [putting EXCEPT ![p] = @ \ {entry}]
      /\ work_q' = [work_q EXCEPT ![p] = @ \cup {entry}]
      /\ pc' = [pc EXCEPT ![p] = IF putting[p] = {entry} THEN "drain" ELSE "put"]
  BY DEF Put
<1>1. QueueTypes'
  BY TypesNext DEF FitInv, Next, Coordinate
<1>2. /\ IsFiniteSet(putting[p] \ {entry}) /\ IsFiniteSet(work_q[p] \cup {entry})
      /\ Cardinality(putting[p] \ {entry}) = Cardinality(putting[p]) - 1
      /\ Cardinality(work_q[p] \cup {entry}) <= Cardinality(work_q[p]) + 1
      /\ Cardinality(putting[p]) \in Nat /\ Cardinality(work_q[p]) \in Nat
      /\ Cardinality(work_q[p] \cup {entry}) \in Nat
  <2>1. IsFiniteSet(putting[p]) /\ IsFiniteSet(work_q[p])
    BY DEF FitInv
  <2>2. Cardinality(putting[p]) \in Nat /\ Cardinality(work_q[p]) \in Nat
    BY <2>1, FS_CardinalityType
  <2>3. /\ IsFiniteSet(putting[p] \ {entry})
        /\ Cardinality(putting[p] \ {entry}) = Cardinality(putting[p]) - 1
    BY <2>1, FS_RemoveElement
  <2>4. /\ IsFiniteSet(work_q[p] \cup {entry})
        /\ Cardinality(work_q[p] \cup {entry}) =
             IF entry \in work_q[p] THEN Cardinality(work_q[p])
             ELSE Cardinality(work_q[p]) + 1
    BY <2>1, FS_AddElement
  <2> QED
    BY <2>2, <2>3, <2>4
<1>3. /\ putting'[p] = putting[p] \ {entry} /\ work_q'[p] = work_q[p] \cup {entry}
      /\ \A q \in Processes \ {p} :
           putting'[q] = putting[q] /\ work_q'[q] = work_q[q] /\ pc'[q] = pc[q]
      /\ pc'[p] = IF putting[p] = {entry} THEN "drain" ELSE "put"
  BY DEF FitInv, QueueTypes
<1>4. ClaimsFit'
  BY <1>2, <1>3, SizesAssumption DEF ClaimsFit, FitInv
<1>5. \A q \in Processes :
        /\ IsFiniteSet(putting'[q]) /\ IsFiniteSet(work_q'[q])
        /\ pc'[q] = "put" <=> putting'[q] # {}
  BY <1>2, <1>3 DEF FitInv
<1> QED
  BY <1>1, <1>4, <1>5 DEF FitInv

LEMMA FitTake ==
  ASSUME FitInv, NEW p \in Processes, NEW t \in Threads, Take(p, t)
  PROVE  FitInv'
<1> PICK entry \in work_q[p] : work_q' = [work_q EXCEPT ![p] = @ \ {entry}]
  BY DEF Take
<1>1. QueueTypes'
  BY TypesNext DEF FitInv, Next
<1>2. /\ IsFiniteSet(work_q[p] \ {entry})
      /\ Cardinality(work_q[p] \ {entry}) <= Cardinality(work_q[p])
      /\ Cardinality(putting[p]) \in Nat /\ Cardinality(work_q[p]) \in Nat
      /\ Cardinality(work_q[p] \ {entry}) \in Nat
  BY FS_RemoveElement, FS_CardinalityType DEF FitInv
<1>3. putting' = putting /\ pc' = pc
  BY DEF Take
<1>4. ClaimsFit'
  BY <1>2, <1>3, SizesAssumption DEF ClaimsFit, FitInv, QueueTypes
<1>5. \A q \in Processes : IsFiniteSet(work_q'[q])
  BY <1>2 DEF FitInv, QueueTypes
<1> QED
  BY <1>1, <1>3, <1>4, <1>5 DEF FitInv

LEMMA FitCrash ==
  ASSUME FitInv, NEW p \in Processes, Crash(p)
  PROVE  FitInv'
<1>1. QueueTypes'
  BY TypesNext DEF FitInv, Next
<1>2. IsFiniteSet({}) /\ Cardinality({}) = 0
  BY FS_EmptySet
<1>3. /\ putting' = [putting EXCEPT ![p] = {}]
      /\ work_q' = [work_q EXCEPT ![p] = {}]
      /\ pc' = [pc EXCEPT ![p] = "crashed"]
  BY DEF Crash
<1>4. ClaimsFit'
  BY <1>2, <1>3, SizesAssumption DEF ClaimsFit, FitInv, QueueTypes
<1>5. \A q \in Processes :
        /\ IsFiniteSet(putting'[q]) /\ IsFiniteSet(work_q'[q])
        /\ pc'[q] = "put" <=> putting'[q] # {}
  BY <1>2, <1>3 DEF FitInv, QueueTypes
<1> QED
  BY <1>1, <1>4, <1>5 DEF FitInv

LEMMA FitNext ==
  ASSUME SizesFit, FitInv, [Next]_vars
  PROVE  FitInv'
<1>1. QueueTypes'
  BY TypesNext DEF FitInv
<1>2. ASSUME putting' = putting, work_q' = work_q,
             \A q \in Processes : pc'[q] = "put" <=> pc[q] = "put"
      PROVE  FitInv'
  BY <1>1, <1>2 DEF FitInv, ClaimsFit
<1>3. ASSUME NEW p \in Processes, Coordinate(p)
      PROVE  FitInv'
  <2>1. CASE Refill(p)
    BY <2>1, FitRefill
  <2>2. CASE Put(p)
    BY <2>2, FitPut
  <2>3. CASE SkipRefill(p) \/ Drain(p) \/ MarkDone(p) \/ MarkError(p) \/ PutLinks(p)
    <3>1. putting' = putting /\ work_q' = work_q
      BY <2>3 DEF SkipRefill, Drain, MarkDone, MarkError, PutLinks
    <3>2. \A q \in Processes : pc'[q] = "put" <=> pc[q] = "put"
      BY <2>3 DEF SkipRefill, Drain, MarkDone, MarkError, PutLinks, Goes, FitInv,
                  QueueTypes
    <3> QED
      BY <1>2, <3>1, <3>2
  <2> QED
    BY <1>3, <2>1, <2>2, <2>3 DEF Coordinate
<1>4. ASSUME NEW u \in Urls, Expire(u)
      PROVE  FitInv'
  BY <1>2, <1>4 DEF Expire
<1>5. ASSUME NEW p \in Processes, Start(p)
      PROVE  FitInv'
  BY <1>2, <1>5 DEF Start, Alive, FitInv, QueueTypes
<1>6. ASSUME NEW p \in Processes, NEW t \in Threads, Report(p, t)
      PROVE  FitInv'
  BY <1>2, <1>6 DEF Report
<1>7. CASE UNCHANGED vars
  BY <1>2, <1>7 DEF vars
<1> QED
  BY <1>3, <1>4, <1>5, <1>6, <1>7, FitTake, FitCrash DEF Next

LEMMA FitInvariance ==
  ASSUME SizesFit
  PROVE  Spec => []FitInv
<1>1. Init => FitInv
  BY TypesInit, FS_EmptySet, SizesAssumption DEF Init, FitInv, ClaimsFit
<1>2. FitInv /\ [Next]_vars => FitInv'
  BY FitNext
<1> QED
  BY <1>1, <1>2, PTL DEF Spec

\* With sizes that fit, no claim is larger than the room there is for it,
\* whatever the links, the crashes and the other processes.
THEOREM ClaimsAlwaysFit ==
  ASSUME SizesFit
  PROVE  Spec => []ClaimsFit
<1>1. FitInv => ClaimsFit
  BY DEF FitInv
<1> QED
  BY <1>1, FitInvariance, PTL

\* With sizes that fit, a coordinator never waits to put what it claimed, so
\* that it and its threads cannot end up waiting for each other.
THEOREM NeverEmbraced ==
  ASSUME SizesFit
  PROVE  Spec => []NoEmbrace
<1>1. FitInv => NoEmbrace
  <2> SUFFICES ASSUME FitInv, NEW p \in Processes, pc[p] = "put"
               PROVE  WorkRoom(p)
    BY DEF NoEmbrace
  <2>1. Cardinality(putting[p]) > 0 /\ Cardinality(putting[p]) \in Nat
    BY FS_CardinalityType, FS_EmptySet DEF FitInv
  <2>2. Cardinality(work_q[p]) \in Nat
    BY FS_CardinalityType DEF FitInv
  <2> QED
    BY <2>1, <2>2, SizesAssumption DEF FitInv, ClaimsFit, WorkRoom
<1> QED
  BY <1>1, FitInvariance, PTL

-----------------------------------------------------------------------------
(***************************************************************************)
(* A claim is in one place of one process.                                   *)
(***************************************************************************)
\* All a process has of claims, those it has answered for included.
Has(p) ==
  {e \in Entry :
     \/ e \in putting[p] \cup work_q[p]
     \/ \E t \in Threads : e \in fetching[p][t]
     \/ \E r \in done_q[p] \cup pending[p] : r.entry = e}

Numbered == \A p \in Processes : \A e \in Has(p) : e.nth < claims[e.url]

Apart ==
  \A p, q \in Processes : \A e \in Has(p) \cap Has(q) : p = q

OnePlace(p) ==
  /\ putting[p] \cap work_q[p] = {}
  /\ \A t \in Threads :
       /\ fetching[p][t] \cap putting[p] = {}
       /\ fetching[p][t] \cap work_q[p] = {}
       /\ \A e, f \in fetching[p][t] : e = f
  /\ \A t, s \in Threads : t # s => fetching[p][t] \cap fetching[p][s] = {}
  /\ \A r \in done_q[p] \cup pending[p] :
       /\ r.entry \notin putting[p] /\ r.entry \notin work_q[p]
       /\ \A t \in Threads : r.entry \notin fetching[p][t]
  /\ \A r, s \in done_q[p] \cup pending[p] : r.entry = s.entry => r = s
  /\ done_q[p] \cap pending[p] = {}

ClaimInv ==
  /\ QueueTypes
  /\ Numbered
  /\ Apart
  /\ \A p \in Processes : OnePlace(p)
  /\ \A p \in Processes : putting[p] # {} => pc[p] = "put"

LEMMA ClaimInit == Init => ClaimInv
  BY TypesInit DEF Init, ClaimInv, Numbered, Apart, OnePlace, Has

\* Nobody has what he did not have before.
LEMMA NothingNew ==
  ASSUME ClaimInv, claims' = claims,
         \A p \in Processes : Has(p)' \subseteq Has(p)
  PROVE  Numbered' /\ Apart'
  BY DEF ClaimInv, Numbered, Apart

\* What a step of p leaves alone.
Others(p) ==
  \A q \in Processes \ {p} :
    /\ pc'[q] = pc[q] /\ putting'[q] = putting[q] /\ work_q'[q] = work_q[q]
    /\ fetching'[q] = fetching[q] /\ done_q'[q] = done_q[q]
    /\ pending'[q] = pending[q]

LEMMA OthersKeep ==
  ASSUME ClaimInv, NEW p \in Processes, Others(p)
  PROVE  \A q \in Processes \ {p} :
           /\ OnePlace(q)' /\ Has(q)' = Has(q)
           /\ Unanswered(q)' = Unanswered(q)
           /\ putting'[q] # {} => pc'[q] = "put"
  BY DEF Others, ClaimInv, OnePlace, Has, Unanswered

\* A claim that is moved on within the process is still had and unanswered.
Moves(p) ==
  /\ Others(p) /\ claims' = claims
  /\ OnePlace(p)' /\ (putting'[p] # {} => pc'[p] = "put")
  /\ Has(p)' = Has(p) /\ Unanswered(p)' = Unanswered(p)

LEMMA PutMoves ==
  ASSUME ClaimInv, NEW p \in Processes, Put(p)
  PROVE  Moves(p)
<1> PICK entry \in putting[p] :
      /\ putting' = [putting EXCEPT ![p] = @ \ {entry}]
      /\ work_q' = [work_q EXCEPT ![p] = @ \cup {entry}]
      /\ pc' = [pc EXCEPT ![p] = IF putting[p] = {entry} THEN "drain" ELSE "put"]
  BY DEF Put
<1>1. /\ putting'[p] = putting[p] \ {entry} /\ work_q'[p] = work_q[p] \cup {entry}
      /\ fetching' = fetching /\ done_q' = done_q /\ pending' = pending
      /\ claims' = claims /\ pc[p] = "put" /\ pc'[p] \in {"drain", "put"}
      /\ putting'[p] # {} => pc'[p] = "put"
  BY DEF Put, table, ClaimInv, QueueTypes
<1>2. Others(p)
  BY <1>1 DEF Others, ClaimInv, QueueTypes
<1>3. OnePlace(p)'
  BY <1>1 DEF OnePlace, ClaimInv
<1>4. Has(p)' = Has(p)
  BY <1>1 DEF Has
<1>5. Unanswered(p)' = Unanswered(p)
  BY <1>1 DEF Unanswered
<1> QED
  BY <1>1, <1>2, <1>3, <1>4, <1>5 DEF Moves

LEMMA TakeMoves ==
  ASSUME ClaimInv, NEW p \in Processes, NEW t \in Threads, Take(p, t)
  PROVE  Moves(p)
<1> PICK entry \in work_q[p] :
      /\ work_q' = [work_q EXCEPT ![p] = @ \ {entry}]
      /\ fetching' = [fetching EXCEPT ![p][t] = {entry}]
  BY DEF Take
<1>1. /\ work_q'[p] = work_q[p] \ {entry}
      /\ fetching[p][t] = {} /\ fetching'[p][t] = {entry}
      /\ \A s \in Threads \ {t} : fetching'[p][s] = fetching[p][s]
      /\ putting' = putting /\ done_q' = done_q /\ pending' = pending
      /\ claims' = claims /\ pc' = pc
  BY DEF Take, table, ClaimInv, QueueTypes
<1>2. Others(p)
  BY <1>1 DEF Others, ClaimInv, QueueTypes
<1>3. OnePlace(p)'
  BY <1>1 DEF OnePlace, ClaimInv
<1>4. Has(p)' = Has(p)
  BY <1>1 DEF Has
<1>5. Unanswered(p)' = Unanswered(p)
  BY <1>1 DEF Unanswered
<1> QED
  BY <1>1, <1>2, <1>3, <1>4, <1>5 DEF Moves, ClaimInv

LEMMA ReportMoves ==
  ASSUME ClaimInv, NEW p \in Processes, NEW t \in Threads, Report(p, t)
  PROVE  Moves(p)
<1> PICK entry \in fetching[p][t], outcome \in Outcomes :
      done_q' = [done_q EXCEPT ![p] =
                   @ \cup {[entry |-> entry, outcome |-> outcome]}]
  BY DEF Report, Reported
<1> DEFINE result == [entry |-> entry, outcome |-> outcome]
<1>1. /\ done_q'[p] = done_q[p] \cup {result} /\ result.entry = entry
      /\ fetching[p][t] = {entry} /\ fetching'[p][t] = {}
      /\ \A s \in Threads \ {t} : fetching'[p][s] = fetching[p][s]
      /\ putting' = putting /\ work_q' = work_q /\ pending' = pending
      /\ claims' = claims /\ pc' = pc
  BY DEF Report, table, ClaimInv, QueueTypes, OnePlace
<1>2. Others(p)
  BY <1>1 DEF Report, Others, ClaimInv, QueueTypes
<1> HIDE DEF result
<1>3. OnePlace(p)'
  BY <1>1 DEF OnePlace, ClaimInv
<1>4. Has(p)' = Has(p)
  BY <1>1 DEF Has
<1>5. Unanswered(p)' = Unanswered(p)
  BY <1>1 DEF Unanswered
<1> QED
  BY <1>1, <1>2, <1>3, <1>4, <1>5 DEF Moves, ClaimInv

LEMMA DrainMoves ==
  ASSUME ClaimInv, NEW p \in Processes, Drain(p)
  PROVE  Moves(p)
<1>1. /\ pending'[p] = pending[p] \cup done_q[p] /\ done_q'[p] = {}
      /\ pc[p] = "drain" /\ pc'[p] \in {"markDone", "loop", "ended"}
      /\ putting' = putting /\ work_q' = work_q /\ fetching' = fetching
      /\ claims' = claims
  BY DEF Drain, Goes, table, ClaimInv, QueueTypes
<1>2. Others(p)
  BY DEF Drain, Goes, Others, ClaimInv, QueueTypes
<1>3. OnePlace(p)'
  BY <1>1 DEF OnePlace, ClaimInv
<1>4. Has(p)' = Has(p)
  BY <1>1 DEF Has
<1>5. Unanswered(p)' = Unanswered(p)
  BY <1>1 DEF Unanswered
<1> QED
  BY <1>1, <1>2, <1>3, <1>4, <1>5 DEF Moves, ClaimInv

\* Steps that do nothing to the claims.
LEMMA RestMoves ==
  ASSUME ClaimInv, NEW p \in Processes, SkipRefill(p) \/ Start(p)
  PROVE  Moves(p)
<1>1. /\ putting' = putting /\ work_q' = work_q /\ fetching' = fetching
      /\ done_q' = done_q /\ pending' = pending /\ claims' = claims
      /\ pc[p] \in {"loop", "ended", "crashed"} /\ pc'[p] \in {"loop", "drain"}
  BY DEF SkipRefill, Start, Alive, Goes, table, ClaimInv, QueueTypes, Pcs
<1>2. Others(p)
  BY DEF SkipRefill, Start, Goes, Others, ClaimInv, QueueTypes
<1>3. OnePlace(p)' /\ Has(p)' = Has(p) /\ Unanswered(p)' = Unanswered(p)
  BY <1>1 DEF OnePlace, Has, Unanswered, ClaimInv
<1> QED
  BY <1>1, <1>2, <1>3 DEF Moves, ClaimInv

-----------------------------------------------------------------------------
(***************************************************************************)
(* What the other steps of a process do to its claims.                       *)
(***************************************************************************)
Ok(p) == {r.entry : r \in {x \in pending[p] : x.outcome = "ok"}}
NotOk(p) == {r.entry : r \in {x \in pending[p] : x.outcome # "ok"}}
Batch(us) == {[url |-> u, nth |-> claims[u]] : u \in us}

\* p answers for what it has, or loses it, and keeps the rest.
Lets(p, gone) ==
  /\ Others(p) /\ claims' = claims
  /\ OnePlace(p)' /\ (putting'[p] # {} => pc'[p] = "put")
  /\ Has(p)' \subseteq Has(p)
  /\ gone \subseteq Unanswered(p) /\ Unanswered(p)' = Unanswered(p) \ gone

LEMMA MarkDoneLets ==
  ASSUME ClaimInv, NEW p \in Processes, MarkDone(p)
  PROVE  Lets(p, Ok(p))
<1>1. /\ putting' = putting /\ work_q' = work_q /\ fetching' = fetching
      /\ done_q' = done_q /\ pending' = pending /\ claims' = claims
      /\ pc[p] = "markDone" /\ pc'[p] = "markError"
  BY DEF MarkDone, Goes, ClaimInv, QueueTypes
<1>2. Others(p)
  BY DEF MarkDone, Goes, Others, ClaimInv, QueueTypes
<1>3. OnePlace(p) /\ OnePlace(p)' /\ Has(p)' = Has(p)
  BY <1>1 DEF OnePlace, Has, ClaimInv
<1>4. Ok(p) \subseteq Unanswered(p)
  BY <1>1 DEF Ok, Unanswered
<1>5. Unanswered(p)' = Unanswered(p) \ Ok(p)
  BY <1>1, <1>3 DEF Ok, Unanswered, OnePlace
<1> QED
  BY <1>1, <1>2, <1>3, <1>4, <1>5 DEF Lets, ClaimInv

LEMMA MarkErrorLets ==
  ASSUME ClaimInv, NEW p \in Processes, MarkError(p)
  PROVE  Lets(p, NotOk(p))
<1>1. /\ putting' = putting /\ work_q' = work_q /\ fetching' = fetching
      /\ done_q' = done_q /\ pending' = pending /\ claims' = claims
      /\ pc[p] = "markError" /\ pc'[p] = "putLinks"
  BY DEF MarkError, Goes, ClaimInv, QueueTypes
<1>2. Others(p)
  BY DEF MarkError, Goes, Others, ClaimInv, QueueTypes
<1>3. OnePlace(p) /\ OnePlace(p)' /\ Has(p)' = Has(p)
  BY <1>1 DEF OnePlace, Has, ClaimInv
<1>4. NotOk(p) \subseteq Unanswered(p)
  BY <1>1 DEF NotOk, Unanswered
<1>5. Unanswered(p)' = Unanswered(p) \ NotOk(p)
  BY <1>1, <1>3 DEF NotOk, Unanswered, OnePlace
<1> QED
  BY <1>1, <1>2, <1>3, <1>4, <1>5 DEF Lets, ClaimInv

LEMMA PutLinksLets ==
  ASSUME ClaimInv, NEW p \in Processes, PutLinks(p)
  PROVE  Lets(p, {})
<1>1. /\ putting' = putting /\ work_q' = work_q /\ fetching' = fetching
      /\ done_q' = done_q /\ pending'[p] = {} /\ claims' = claims
      /\ pc[p] = "putLinks" /\ pc'[p] = "loop"
  BY DEF PutLinks, Goes, ClaimInv, QueueTypes
<1>2. Others(p)
  BY DEF PutLinks, Goes, Others, ClaimInv, QueueTypes
<1>3. OnePlace(p) /\ OnePlace(p)' /\ Has(p)' \subseteq Has(p)
  BY <1>1 DEF OnePlace, Has, ClaimInv
<1>4. Unanswered(p)' = Unanswered(p)
  BY <1>1 DEF Unanswered
<1> QED
  BY <1>1, <1>2, <1>3, <1>4 DEF Lets, ClaimInv

LEMMA CrashLets ==
  ASSUME ClaimInv, NEW p \in Processes, Crash(p)
  PROVE  Lets(p, Unanswered(p))
<1>1. /\ putting'[p] = {} /\ work_q'[p] = {} /\ done_q'[p] = {}
      /\ pending'[p] = {} /\ fetching'[p] = [t \in Threads |-> {}]
      /\ claims' = claims
  BY DEF Crash, table, ClaimInv, QueueTypes
<1>2. Others(p)
  BY DEF Crash, Others, ClaimInv, QueueTypes
<1>3. OnePlace(p)' /\ Has(p)' = {} /\ Unanswered(p)' = {}
  BY <1>1 DEF OnePlace, Has, Unanswered
<1> QED
  BY <1>1, <1>2, <1>3 DEF Lets

\* What p claims is nobody's yet.
LEMMA RefillGives ==
  ASSUME ClaimInv, NEW p \in Processes, NEW batch \in ClaimBatches,
         Refill(p)!2!(batch), Refill(p)
  PROVE  /\ Others(p) /\ OnePlace(p)' /\ (putting'[p] # {} => pc'[p] = "put")
         /\ Has(p)' = Has(p) \cup Batch(batch)
         /\ Unanswered(p)' = Unanswered(p) \cup Batch(batch)
<1>1. batch \subseteq Urls
  BY DEF ClaimBatches
<1>2. Batch(batch) \subseteq Entry
        /\ \A e \in Batch(batch) : e.nth = claims[e.url]
  BY <1>1 DEF Batch, Entry, ClaimInv, QueueTypes
<1>3. /\ putting[p] = {} /\ putting'[p] = Batch(batch)
      /\ pc[p] = "loop" /\ pc'[p] \in {"drain", "put"}
      /\ putting'[p] # {} => pc'[p] = "put"
      /\ work_q' = work_q /\ fetching' = fetching
      /\ done_q' = done_q /\ pending' = pending
  BY DEF Refill, Goes, Batch, ClaimInv, QueueTypes
<1>4. Others(p)
  BY DEF Goes, Refill, Others, ClaimInv, QueueTypes
<1>5. Batch(batch) \cap Has(p) = {}
  BY <1>2 DEF ClaimInv, Numbered, Has, QueueTypes, Entry
<1>6. OnePlace(p)'
  <2>1. \A e \in Batch(batch) :
          /\ e \notin work_q[p]
          /\ \A t \in Threads : e \notin fetching[p][t]
          /\ \A r \in done_q[p] \cup pending[p] : r.entry # e
    BY <1>2, <1>5 DEF Has
  <2> QED
    BY <1>3, <2>1 DEF OnePlace, ClaimInv
<1>7. Has(p)' = Has(p) \cup Batch(batch)
  BY <1>2, <1>3 DEF Has
<1>8. Unanswered(p)' = Unanswered(p) \cup Batch(batch)
  BY <1>3 DEF Unanswered
<1> QED
  BY <1>3, <1>4, <1>6, <1>7, <1>8

-----------------------------------------------------------------------------
(***************************************************************************)
(* What every step does to the claims of all processes together.             *)
(***************************************************************************)
LEMMA UnansweredIsHad ==
  ASSUME QueueTypes, NEW p \in Processes
  PROVE  Unanswered(p) \subseteq Has(p)
  BY DEF QueueTypes, Unanswered, Has, Result

LEMMA MovesAll ==
  ASSUME ClaimInv, QueueTypes', NEW p \in Processes, Moves(p)
  PROVE  ClaimInv' /\ Held' = Held
<1>1. \A q \in Processes : /\ Has(q)' = Has(q) /\ Unanswered(q)' = Unanswered(q)
                           /\ OnePlace(q)' /\ (putting'[q] # {} => pc'[q] = "put")
  BY OthersKeep DEF Moves
<1>2. Numbered' /\ Apart'
  BY <1>1, NothingNew DEF Moves
<1> QED
  BY <1>1, <1>2 DEF ClaimInv, Held

LEMMA LetsAll ==
  ASSUME ClaimInv, QueueTypes', NEW p \in Processes, NEW gone, Lets(p, gone)
  PROVE  ClaimInv' /\ gone \subseteq Held /\ Held' = Held \ gone
<1>1. \A q \in Processes : /\ Has(q)' \subseteq Has(q)
                           /\ OnePlace(q)' /\ (putting'[q] # {} => pc'[q] = "put")
  BY OthersKeep DEF Lets
<1>2. Numbered' /\ Apart'
  BY <1>1, NothingNew DEF Lets
<1>3. ClaimInv'
  BY <1>1, <1>2 DEF ClaimInv
<1>4. \A q \in Processes \ {p} : Unanswered(q)' = Unanswered(q)
  BY OthersKeep DEF Lets
<1>5. \A q \in Processes \ {p} : Unanswered(q) \cap gone = {}
  BY UnansweredIsHad DEF Lets, ClaimInv, Apart
<1>6. gone \subseteq Held
  BY DEF Lets, Held
<1>7. Held' = Held \ gone
  BY <1>4, <1>5 DEF Lets, Held
<1> QED
  BY <1>3, <1>6, <1>7

LEMMA RefillAll ==
  ASSUME ClaimInv, NEW p \in Processes, NEW batch \in ClaimBatches,
         Refill(p)!2!(batch), Refill(p)
  PROVE  /\ ClaimInv' /\ Held' = Held \cup Batch(batch)
         /\ Batch(batch) \cap Held = {} /\ Batch(batch) \subseteq Entry
<1>0. QueueTypes'
  BY TypesRefill DEF ClaimInv
<1>1. batch \subseteq Urls
  BY DEF ClaimBatches
<1>2. /\ claims' = [u \in Urls |-> IF u \in batch THEN claims[u] + 1 ELSE claims[u]]
      /\ \A u \in Urls : claims[u] \in Nat
      /\ Batch(batch) \subseteq Entry
      /\ \A e \in Batch(batch) : e.nth = claims[e.url] /\ e.url \in batch
  BY <1>1 DEF Batch, Entry, ClaimInv, QueueTypes
<1>3. \A q \in Processes :
        /\ OnePlace(q)' /\ (putting'[q] # {} => pc'[q] = "put")
        /\ q # p => Has(q)' = Has(q) /\ Unanswered(q)' = Unanswered(q)
  BY RefillGives, OthersKeep
<1>4. /\ Has(p)' = Has(p) \cup Batch(batch)
      /\ Unanswered(p)' = Unanswered(p) \cup Batch(batch)
  BY RefillGives
<1>5. \A q \in Processes : Has(q) \subseteq Entry /\ Batch(batch) \cap Has(q) = {}
  BY <1>2 DEF ClaimInv, Numbered, Has, Entry
<1>6. Numbered'
  <2>1. ASSUME NEW q \in Processes, NEW e \in Has(q)'
        PROVE  e.nth < claims'[e.url]
    <3>1. CASE e \in Has(q)
      <4>1. e.nth < claims[e.url] /\ e.nth \in Nat /\ e.url \in Urls
        BY <1>5, <3>1 DEF ClaimInv, Numbered, Entry
      <4> QED
        BY <1>2, <4>1
    <3>2. CASE e \in Batch(batch)
      BY <1>1, <1>2, <3>2
    <3> QED
      BY <1>3, <1>4, <2>1, <3>1, <3>2
  <2> QED
    BY <2>1 DEF Numbered
<1>7. Apart'
  BY <1>3, <1>4, <1>5 DEF ClaimInv, Apart
<1>8. Held' = Held \cup Batch(batch)
  BY <1>3, <1>4 DEF Held
<1>9. Batch(batch) \cap Held = {}
  BY <1>5, UnansweredIsHad DEF Held, ClaimInv
<1> QED
  BY <1>0, <1>2, <1>3, <1>6, <1>7, <1>8, <1>9 DEF ClaimInv

LEMMA IdleAll ==
  ASSUME ClaimInv, QueueTypes', claims' = claims,
         UNCHANGED <<pc, putting, work_q, fetching, done_q, pending>>
  PROVE  ClaimInv' /\ Held' = Held
<1>1. \A q \in Processes : /\ Has(q)' = Has(q) /\ Unanswered(q)' = Unanswered(q)
                           /\ OnePlace(q)' /\ (putting'[q] # {} => pc'[q] = "put")
  BY DEF ClaimInv, Has, Unanswered, OnePlace
<1>2. Numbered' /\ Apart'
  BY <1>1, NothingNew
<1> QED
  BY <1>1, <1>2 DEF ClaimInv, Held

LEMMA ClaimNext == ClaimInv /\ [Next]_vars => ClaimInv'
<1> SUFFICES ASSUME ClaimInv, [Next]_vars
             PROVE  ClaimInv'
  OBVIOUS
<1>0. QueueTypes'
  BY TypesNext DEF ClaimInv
<1>1. CASE UNCHANGED vars \/ \E u \in Urls : Expire(u)
  BY <1>0, <1>1, IdleAll DEF vars, Expire
<1>2. ASSUME NEW p \in Processes, Coordinate(p)
      PROVE  ClaimInv'
  <2>1. CASE Refill(p)
    <3> PICK batch \in ClaimBatches : Refill(p)!2!(batch)
      BY <2>1 DEF Refill
    <3> QED
      BY <2>1, RefillAll
  <2>2. CASE SkipRefill(p) \/ Put(p) \/ Drain(p)
    BY <1>0, <2>2, MovesAll, RestMoves, PutMoves, DrainMoves
  <2>3. CASE MarkDone(p) \/ MarkError(p) \/ PutLinks(p)
    BY <1>0, <2>3, LetsAll, MarkDoneLets, MarkErrorLets, PutLinksLets
  <2> QED
    BY <1>2, <2>1, <2>2, <2>3 DEF Coordinate
<1>3. ASSUME NEW p \in Processes, Crash(p) \/ Start(p)
      PROVE  ClaimInv'
  BY <1>0, <1>3, LetsAll, CrashLets, MovesAll, RestMoves
<1>4. ASSUME NEW p \in Processes, NEW t \in Threads, Take(p, t) \/ Report(p, t)
      PROVE  ClaimInv'
  BY <1>0, <1>4, MovesAll, TakeMoves, ReportMoves
<1> QED
  BY <1>1, <1>2, <1>3, <1>4 DEF Next

-----------------------------------------------------------------------------
(***************************************************************************)
(* The crawler implements the ledger.                                        *)
(***************************************************************************)
Failed(p) == {r.entry : r \in {x \in pending[p] : x.outcome = "error"}}

LedgerInv ==
  /\ ClaimInv
  /\ \A p \in Processes :
       /\ IsFiniteSet(done_q[p]) /\ IsFiniteSet(pending[p])
       /\ pc[p] \in {"markError", "putLinks"} => UrlsThat(p, "ok") \subseteq done

LEMMA LedgerInvNext == LedgerInv /\ [Next]_vars => LedgerInv'
<1> SUFFICES ASSUME LedgerInv, [Next]_vars
             PROVE  LedgerInv'
  OBVIOUS
<1> DEFINE Good(p) ==
       /\ IsFiniteSet(done_q[p]) /\ IsFiniteSet(pending[p])
       /\ pc[p] \in {"markError", "putLinks"} => UrlsThat(p, "ok") \subseteq done
<1>0. ClaimInv'
  BY ClaimNext DEF LedgerInv
<1>1. ASSUME NEW p \in Processes, Good(p), done \subseteq done',
             done_q'[p] = done_q[p], pending'[p] = pending[p], pc'[p] = pc[p]
      PROVE  Good(p)'
  BY <1>1 DEF UrlsThat
<1>2. CASE UNCHANGED vars \/ \E u \in Urls : Expire(u)
  <2>1. UNCHANGED <<done, done_q, pending, pc>>
    BY <1>2 DEF vars, Expire
  <2> QED
    BY <1>0, <1>1, <2>1 DEF LedgerInv
<1>3. ASSUME NEW p \in Processes,
             \/ Coordinate(p) \/ Crash(p) \/ Start(p)
             \/ \E t \in Threads : Take(p, t) \/ Report(p, t)
      PROVE  LedgerInv'
  <2>1. done \subseteq done'
    BY <1>3 DEF Coordinate, Refill, SkipRefill, Put, Drain, MarkDone, MarkError,
                PutLinks, Crash, Start, Take, Report, table
  <2>2. \A q \in Processes \ {p} :
          done_q'[q] = done_q[q] /\ pending'[q] = pending[q] /\ pc'[q] = pc[q]
    BY <1>3 DEF Coordinate, Refill, SkipRefill, Put, Drain, MarkDone, MarkError,
                PutLinks, Crash, Start, Take, Report, table, Goes, LedgerInv,
                ClaimInv, QueueTypes
  <2>3. Good(p)'
    <3> USE DEF LedgerInv, ClaimInv, QueueTypes, Goes
    <3>1. CASE Refill(p)
      BY <3>1 DEF Refill
    <3>2. CASE SkipRefill(p) \/ Put(p)
      BY <3>2 DEF SkipRefill, Put
    <3>3. CASE Drain(p)
      BY <3>3, FS_Union, FS_EmptySet DEF Drain
    <3>4. CASE MarkDone(p)
      BY <3>4 DEF MarkDone, UrlsThat
    <3>5. CASE MarkError(p)
      BY <3>5 DEF MarkError, UrlsThat
    <3>6. CASE PutLinks(p)
      BY <3>6, FS_EmptySet DEF PutLinks
    <3>7. CASE Crash(p)
      BY <3>7, FS_EmptySet DEF Crash
    <3>8. CASE Start(p)
      BY <3>8 DEF Start
    <3>9. CASE \E t \in Threads : Take(p, t) \/ Report(p, t)
      <4> PICK t \in Threads : Take(p, t) \/ Report(p, t)
        BY <3>9
      <4>1. CASE Take(p, t)
        BY <4>1 DEF Take, table, UrlsThat
      <4>2. CASE Report(p, t)
        <5> PICK result : done_q' = [done_q EXCEPT ![p] = @ \cup {result}]
          BY <4>2 DEF Report, Reported
        <5>1. IsFiniteSet(done_q[p] \cup {result})
          BY FS_AddElement
        <5> QED
          BY <4>2, <5>1 DEF Report, table, UrlsThat
      <4> QED
        BY <4>1, <4>2
    <3> QED
      BY <1>3, <3>1, <3>2, <3>3, <3>4, <3>5, <3>6, <3>7, <3>8, <3>9
         DEF Coordinate
  <2> QED
    BY <1>0, <1>1, <2>1, <2>2, <2>3 DEF LedgerInv
<1> QED
  BY <1>2, <1>3 DEF Next

\* As many failures are counted as claims come back failed.
LEMMA ErrorsAreClaims ==
  ASSUME LedgerInv, NEW p \in Processes, NEW u \in Urls
  PROVE  /\ Errors(p, u) = Cardinality({e \in Failed(p) : e.url = u})
         /\ Errors(p, u) \in Nat /\ IsFiniteSet({e \in Failed(p) : e.url = u})
<1> DEFINE results == {r \in pending[p] : r.entry.url = u /\ r.outcome = "error"}
           back == {e \in Failed(p) : e.url = u}
           f == [r \in results |-> r.entry]
<1>1. IsFiniteSet(results)
  BY FS_Subset DEF LedgerInv
<1>2. f \in Bijection(results, back)
  <2>1. f \in [results -> back]
    BY DEF Failed
  <2>2. \A r, s \in results : f[r] = f[s] => r = s
    BY DEF LedgerInv, ClaimInv, OnePlace
  <2>3. \A e \in back : \E r \in results : f[r] = e
    BY DEF Failed
  <2> QED
    BY <2>1, <2>2, <2>3 DEF Bijection, Injection, IsInjective, Surjection
<1> HIDE DEF f
<1>3. IsFiniteSet(back) /\ Cardinality(results) = Cardinality(back)
  <2>1. ExistsBijection(results, back)
    BY <1>2 DEF ExistsBijection
  <2> HIDE DEF results, back
  <2> QED
    BY <1>1, <2>1, FS_Bijection
<1>4. Cardinality(results) \in Nat
  BY <1>1, FS_CardinalityType
<1> QED
  BY <1>3, <1>4 DEF Errors

LEMMA LedgerStart == Init => LedgerInv /\ Ledger!Init
<1> SUFFICES ASSUME Init
             PROVE  LedgerInv /\ Ledger!Init
  OBVIOUS
<1>1. LedgerInv
  BY ClaimInit, FS_EmptySet DEF Init, LedgerInv
<1>2. Held = {}
  BY DEF Init, Held, Unanswered
<1> QED
  BY <1>1, <1>2 DEF Init, Ledger!Init

LEMMA RefillIsGive ==
  ASSUME LedgerInv, NEW p \in Processes, Refill(p)
  PROVE  Ledger!Give
<1> PICK batch \in ClaimBatches : Refill(p)!2!(batch)
  BY DEF Refill
<1>1. Held' = Held \cup Batch(batch)
  BY RefillAll DEF LedgerInv
<1>2. batch \in SUBSET {u \in known \ done : retries[u] < MaxRetries}
  BY DEF ClaimBatches, Claimable
<1>3. /\ claims' = [u \in Urls |-> IF u \in batch THEN claims[u] + 1 ELSE claims[u]]
      /\ UNCHANGED <<known, done, retries>>
  BY DEF Refill
<1> QED
  BY <1>1, <1>2, <1>3 DEF Ledger!Give, Batch

LEMMA MarkDoneIsFinish ==
  ASSUME LedgerInv, NEW p \in Processes, MarkDone(p)
  PROVE  Ledger!Finish
<1>1. Ok(p) \subseteq Held /\ Held' = Held \ Ok(p) /\ claims' = claims
  BY MarkDoneLets, LetsAll, TypesNext DEF LedgerInv, ClaimInv, Next, Coordinate, Lets
<1>2. UrlsThat(p, "ok") = {e.url : e \in Ok(p)}
  BY DEF UrlsThat, Ok
<1>3. done' = done \cup {e.url : e \in Ok(p)} /\ UNCHANGED <<known, retries>>
  BY <1>2 DEF MarkDone
<1> QED
  BY <1>1, <1>3 DEF Ledger!Finish

LEMMA MarkErrorIsFail ==
  ASSUME LedgerInv, NEW p \in Processes, MarkError(p)
  PROVE  Ledger!Fail
<1>1. NotOk(p) \subseteq Held /\ Held' = Held \ NotOk(p) /\ claims' = claims
  BY MarkErrorLets, LetsAll, TypesNext DEF LedgerInv, ClaimInv, Next, Coordinate, Lets
<1>2. Failed(p) \subseteq NotOk(p)
  BY DEF Failed, NotOk
<1>3. retries' = [u \in Urls |->
                    retries[u] + Cardinality({e \in Failed(p) : e.url = u})]
  BY ErrorsAreClaims DEF MarkError
<1>4. UNCHANGED <<known, done>>
  BY DEF MarkError
<1>5. \E back \in SUBSET Held :
        \E failed \in SUBSET back :
          /\ Held' = Held \ back
          /\ retries' = [u \in Urls |->
                           retries[u] + Cardinality({e \in failed : e.url = u})]
  <2>1. NotOk(p) \in SUBSET Held /\ Failed(p) \in SUBSET NotOk(p)
    BY <1>1, <1>2
  <2> QED
    BY <1>1, <1>3, <2>1, Zenon
<1> QED
  BY <1>1, <1>4, <1>5, Zenon DEF Ledger!Fail, Ledger!Cardinality, Cardinality

LEMMA PutLinksIsFollow ==
  ASSUME LedgerInv, NEW p \in Processes, PutLinks(p)
  PROVE  Ledger!Follow
<1>1. Held' = Held /\ claims' = claims
  <2>1. Lets(p, {})
    BY PutLinksLets DEF LedgerInv
  <2>2. QueueTypes'
    BY TypesNext DEF LedgerInv, ClaimInv, Next, Coordinate
  <2>3. Held' = Held \ {}
    BY <2>1, <2>2, LetsAll DEF LedgerInv
  <2> QED
    BY <2>1, <2>3 DEF Lets
<1>2. UrlsThat(p, "ok") \in SUBSET done
  BY DEF PutLinks, Goes, LedgerInv
<1>3. known' = known \cup UNION {Links[u] : u \in UrlsThat(p, "ok")}
      /\ UNCHANGED <<done, retries>>
  BY DEF PutLinks, Discovered
<1> QED
  BY <1>1, <1>2, <1>3 DEF Ledger!Follow

LEMMA CrashIsLose ==
  ASSUME LedgerInv, NEW p \in Processes, Crash(p)
  PROVE  Ledger!Lose
<1>1. /\ Unanswered(p) \subseteq Held /\ Held' = Held \ Unanswered(p)
  BY CrashLets, LetsAll, TypesNext DEF LedgerInv, ClaimInv, Next
<1>2. UNCHANGED <<known, done, retries, claims>>
  BY DEF Crash, table
<1> QED
  BY <1>1, <1>2 DEF Ledger!Lose

\* Every other step moves claims within a process, or touches none.
LEMMA OthersStutter ==
  ASSUME LedgerInv, [Next]_vars,
         \A p \in Processes : ~Refill(p) /\ ~MarkDone(p) /\ ~MarkError(p)
                               /\ ~PutLinks(p) /\ ~Crash(p)
  PROVE  UNCHANGED Ledger!vars
<1>0. QueueTypes'
  BY TypesNext DEF LedgerInv, ClaimInv
<1>1. CASE UNCHANGED vars \/ \E u \in Urls : Expire(u)
  <2>1. UNCHANGED <<known, done, retries, claims, pc, putting, work_q, fetching,
                    done_q, pending>>
    BY <1>1 DEF vars, Expire
  <2> QED
    BY <1>0, <2>1, IdleAll DEF LedgerInv, Ledger!vars
<1>2. ASSUME NEW p \in Processes,
             \/ SkipRefill(p) \/ Put(p) \/ Drain(p) \/ Start(p)
             \/ \E t \in Threads : Take(p, t) \/ Report(p, t)
      PROVE  UNCHANGED Ledger!vars
  <2>1. Moves(p)
    BY <1>2, RestMoves, PutMoves, DrainMoves, TakeMoves, ReportMoves DEF LedgerInv
  <2>2. Held' = Held
    BY <1>0, <2>1, MovesAll DEF LedgerInv
  <2>3. UNCHANGED <<known, done, retries, claims>>
    BY <1>2 DEF SkipRefill, Put, Drain, Start, Take, Report, table
  <2> QED
    BY <2>2, <2>3 DEF Ledger!vars
<1> QED
  BY <1>1, <1>2 DEF Next, Coordinate

LEMMA LedgerNext == LedgerInv /\ [Next]_vars => [Ledger!Next]_(Ledger!vars)
<1> SUFFICES ASSUME LedgerInv, [Next]_vars
             PROVE  [Ledger!Next]_(Ledger!vars)
  OBVIOUS
<1>1. ASSUME NEW p \in Processes,
             \/ Refill(p) \/ MarkDone(p) \/ MarkError(p) \/ PutLinks(p)
             \/ Crash(p)
      PROVE  Ledger!Next
  BY <1>1, RefillIsGive, MarkDoneIsFinish, MarkErrorIsFail, PutLinksIsFollow,
     CrashIsLose DEF Ledger!Next
<1> QED
  BY <1>1, OthersStutter

\* The crawler implements the ledger: whatever crashes, runs out or comes late,
\* each claim is answered once at most and by the process that has it, and only
\* what is known, not done and not given up is claimed.
THEOREM ImplementsLedger == Spec => LedgerSpec
<1>1. Init => LedgerInv /\ Ledger!Init
  BY LedgerStart
<1>2. LedgerInv /\ [Next]_vars => LedgerInv' /\ [Ledger!Next]_(Ledger!vars)
  BY LedgerInvNext, LedgerNext
<1> QED
  BY <1>1, <1>2, PTL DEF Spec, LedgerSpec, Ledger!Spec

-----------------------------------------------------------------------------
(***************************************************************************)
(* A URL is worked on once per lock that ran out, and once more while it is  *)
(* locked; with the errors counted so far that bounds how often it fails.    *)
(***************************************************************************)
Locked(u) == IF lock[u] = "held" THEN 1 ELSE 0

TableTypes ==
  /\ lock \in [Urls -> {"free", "held", "stale"}]
  /\ expiries \in [Urls -> Nat] /\ retries \in [Urls -> Nat]

Bounds(u) ==
  /\ Cardinality(Holders(u)) <= expiries[u] + Locked(u)
  /\ retries[u] + Cardinality(Holders(u)) <= MaxRetries + expiries[u]

BoundInv ==
  /\ LedgerInv /\ TableTypes
  /\ IsFiniteSet(Held)
  /\ \A u \in Urls : Bounds(u)

LEMMA TableNext == LedgerInv /\ TableTypes /\ [Next]_vars => TableTypes'
<1> SUFFICES ASSUME LedgerInv, TableTypes, [Next]_vars
             PROVE  TableTypes'
  OBVIOUS
<1>1. CASE UNCHANGED vars
  BY <1>1 DEF vars, TableTypes
<1>2. ASSUME NEW u \in Urls, Expire(u)
      PROVE  TableTypes'
  BY <1>2 DEF Expire, TableTypes
<1>3. ASSUME NEW p \in Processes, Coordinate(p)
      PROVE  TableTypes'
  <2>1. CASE Refill(p)
    BY <2>1 DEF Refill, TableTypes
  <2>2. CASE SkipRefill(p) \/ Put(p) \/ Drain(p)
    BY <2>2 DEF SkipRefill, Put, Drain, table, TableTypes
  <2>3. CASE MarkDone(p) \/ PutLinks(p)
    BY <2>3 DEF MarkDone, PutLinks, Unlocked, TableTypes
  <2>4. CASE MarkError(p)
    <3>1. \A u \in Urls : Errors(p, u) \in Nat
      BY ErrorsAreClaims
    <3>2. /\ retries' = [u \in Urls |-> retries[u] + Errors(p, u)]
          /\ expiries' = expiries /\ lock' = Unlocked(UrlsThat(p, "error"))
      BY <2>4 DEF MarkError
    <3>3. retries' \in [Urls -> Nat]
      BY <3>1, <3>2 DEF TableTypes
    <3> QED
      BY <3>2, <3>3 DEF Unlocked, TableTypes
  <2> QED
    BY <1>3, <2>1, <2>2, <2>3, <2>4 DEF Coordinate
<1>4. ASSUME NEW p \in Processes, Crash(p) \/ Start(p)
      PROVE  TableTypes'
  BY <1>4 DEF Crash, Start, table, TableTypes
<1>5. ASSUME NEW p \in Processes, NEW t \in Threads, Take(p, t) \/ Report(p, t)
      PROVE  TableTypes'
  BY <1>5 DEF Take, Report, table, TableTypes
<1> QED
  BY <1>1, <1>2, <1>3, <1>4, <1>5 DEF Next

LEMMA HoldersFinite ==
  ASSUME BoundInv, NEW u \in Urls
  PROVE  IsFiniteSet(Holders(u)) /\ Cardinality(Holders(u)) \in Nat
  BY FS_Subset, FS_CardinalityType DEF Holders, BoundInv

\* What is answered or lost is held no more.
LEMMA FewerHolders ==
  ASSUME BoundInv, NEW u \in Urls, NEW gone, gone \subseteq Held, Held' = Held \ gone
  PROVE  LET mine == {e \in gone : e.url = u}
         IN  /\ Cardinality(Holders(u))' = Cardinality(Holders(u)) - Cardinality(mine)
             /\ Cardinality(Holders(u))' \in Nat /\ Cardinality(mine) \in Nat
             /\ IsFiniteSet(mine) /\ (mine # {} => Cardinality(mine) >= 1)
<1> DEFINE mine == {e \in gone : e.url = u}
<1>1. IsFiniteSet(Holders(u)) /\ Cardinality(Holders(u)) \in Nat
  BY HoldersFinite
<1>2. mine \subseteq Holders(u) /\ Holders(u)' = Holders(u) \ mine
  BY DEF Holders
<1> HIDE DEF mine
<1>3. /\ IsFiniteSet(Holders(u) \ mine)
      /\ Cardinality(Holders(u) \ mine)
           = Cardinality(Holders(u)) - Cardinality(Holders(u) \cap mine)
  BY <1>1, FS_Difference
<1>4. Holders(u) \cap mine = mine
  BY <1>2
<1>5. IsFiniteSet(mine) /\ Cardinality(mine) \in Nat
  BY <1>1, <1>2, FS_Subset, FS_CardinalityType
<1>6. mine # {} => Cardinality(mine) >= 1
  BY <1>5, FS_EmptySet
<1>7. Cardinality(Holders(u) \ mine) \in Nat
  BY <1>3, FS_CardinalityType
<1>8. Cardinality(Holders(u))' = Cardinality(Holders(u) \ mine)
  BY <1>2
<1> QED
  BY <1>3, <1>4, <1>5, <1>6, <1>7, <1>8 DEF mine

LEMMA RefillBounds ==
  ASSUME BoundInv, NEW p \in Processes, Refill(p)
  PROVE  IsFiniteSet(Held)' /\ \A u \in Urls : Bounds(u)'
<1> PICK batch \in ClaimBatches : Refill(p)!2!(batch)
  BY DEF Refill
<1>1. /\ Held' = Held \cup Batch(batch) /\ Batch(batch) \cap Held = {}
  BY RefillAll DEF BoundInv, LedgerInv
<1>2. IsFiniteSet(batch) /\ batch \subseteq Urls
  BY BatchFits DEF ClaimBatches
<1>3. IsFiniteSet(Batch(batch))
  <2> DEFINE entryOf == [u \in batch |-> [url |-> u, nth |-> claims[u]]]
  <2>1. entryOf \in Surjection(batch, Batch(batch))
    BY DEF Surjection, Batch
  <2> HIDE DEF entryOf
  <2> QED
    BY <1>2, <2>1, FS_Surjection
<1>4. IsFiniteSet(Held)'
  BY <1>1, <1>3, FS_Union DEF BoundInv
<1>5. ASSUME NEW u \in Urls
      PROVE  Bounds(u)'
  <2>1. IsFiniteSet(Holders(u)) /\ Cardinality(Holders(u)) \in Nat
    BY HoldersFinite
  <2>2. /\ lock' = [v \in Urls |-> IF v \in batch THEN "held" ELSE lock[v]]
        /\ expiries' = expiries /\ retries' = retries
    BY DEF Refill
  <2>3. /\ expiries[u] \in Nat /\ retries[u] \in Nat /\ MaxRetries \in Nat
        /\ Bounds(u) /\ Locked(u) \in {0, 1}
    BY SizesAssumption DEF BoundInv, TableTypes, Locked
  <2>4. CASE u \notin batch
    <3>1. Holders(u)' = Holders(u)
      BY <1>1, <2>4 DEF Holders, Batch
    <3> QED
      BY <2>2, <2>4, <3>1, <2>3 DEF Bounds, Locked
  <2>5. CASE u \in batch
    <3> DEFINE new == [url |-> u, nth |-> claims[u]]
    <3>1. Holders(u)' = Holders(u) \cup {new} /\ new \notin Holders(u)
      BY <1>1, <2>5 DEF Holders, Batch
    <3> HIDE DEF new
    <3>2. Cardinality(Holders(u))' = Cardinality(Holders(u)) + 1
      BY <2>1, <3>1, FS_AddElement
    <3>3. retries[u] < MaxRetries /\ Locked(u) = 0 /\ Locked(u)' = 1
      BY <2>2, <2>5 DEF ClaimBatches, Claimable, Locked
    <3> QED
      BY <2>1, <2>2, <2>3, <3>2, <3>3 DEF Bounds
  <2> QED
    BY <2>4, <2>5
<1> QED
  BY <1>4, <1>5

LEMMA MarkDoneBounds ==
  ASSUME BoundInv, NEW p \in Processes, MarkDone(p)
  PROVE  IsFiniteSet(Held)' /\ \A u \in Urls : Bounds(u)'
<1>1. Ok(p) \subseteq Held /\ Held' = Held \ Ok(p)
  BY MarkDoneLets, LetsAll, TypesNext
     DEF BoundInv, LedgerInv, ClaimInv, Next, Coordinate
<1>2. IsFiniteSet(Held)'
  BY <1>1, FS_Difference DEF BoundInv
<1>3. ASSUME NEW u \in Urls
      PROVE  Bounds(u)'
  <2> DEFINE mine == {e \in Ok(p) : e.url = u}
  <2>1. /\ Cardinality(Holders(u))' = Cardinality(Holders(u)) - Cardinality(mine)
        /\ Cardinality(Holders(u))' \in Nat /\ Cardinality(mine) \in Nat
        /\ mine # {} => Cardinality(mine) >= 1
    BY <1>1, FewerHolders
  <2>2. u \in UrlsThat(p, "ok") => mine # {}
    BY DEF UrlsThat, Ok
  <2> HIDE DEF mine
  <2>3. /\ lock' = [v \in Urls |-> IF v \in UrlsThat(p, "ok") THEN "free" ELSE lock[v]]
        /\ expiries' = expiries /\ retries' = retries
    BY DEF MarkDone, Unlocked
  <2>4. /\ expiries[u] \in Nat /\ retries[u] \in Nat /\ MaxRetries \in Nat
        /\ Bounds(u) /\ Locked(u) \in {0, 1} /\ Cardinality(Holders(u)) \in Nat
    BY SizesAssumption, HoldersFinite DEF BoundInv, TableTypes, Locked
  <2>5. Locked(u)' = IF u \in UrlsThat(p, "ok") THEN 0 ELSE Locked(u)
    BY <2>3 DEF Locked
  <2> QED
    BY <2>1, <2>2, <2>3, <2>4, <2>5 DEF Bounds
<1> QED
  BY <1>2, <1>3

LEMMA MarkErrorBounds ==
  ASSUME BoundInv, NEW p \in Processes, MarkError(p)
  PROVE  IsFiniteSet(Held)' /\ \A u \in Urls : Bounds(u)'
<1>1. NotOk(p) \subseteq Held /\ Held' = Held \ NotOk(p)
  BY MarkErrorLets, LetsAll, TypesNext
     DEF BoundInv, LedgerInv, ClaimInv, Next, Coordinate
<1>2. IsFiniteSet(Held)'
  BY <1>1, FS_Difference DEF BoundInv
<1>3. ASSUME NEW u \in Urls
      PROVE  Bounds(u)'
  <2> DEFINE mine == {e \in NotOk(p) : e.url = u}
             failed == {e \in Failed(p) : e.url = u}
  <2>1. /\ Cardinality(Holders(u))' = Cardinality(Holders(u)) - Cardinality(mine)
        /\ Cardinality(Holders(u))' \in Nat /\ Cardinality(mine) \in Nat
        /\ IsFiniteSet(mine)
    BY <1>1, FewerHolders
  <2>2. /\ Errors(p, u) = Cardinality(failed) /\ Errors(p, u) \in Nat
        /\ IsFiniteSet(failed)
    BY ErrorsAreClaims DEF BoundInv
  <2>3. failed \subseteq mine /\ (u \in UrlsThat(p, "error") => failed # {})
    BY DEF UrlsThat, Failed, NotOk
  <2> HIDE DEF mine, failed
  <2>4. Cardinality(failed) <= Cardinality(mine)
    BY <2>1, <2>3, FS_Subset
  <2>5. failed # {} => Cardinality(failed) >= 1
    BY <2>2, FS_EmptySet
  <2>6. /\ lock' = [v \in Urls |->
                     IF v \in UrlsThat(p, "error") THEN "free" ELSE lock[v]]
        /\ expiries' = expiries
        /\ retries' = [v \in Urls |-> retries[v] + Errors(p, v)]
    BY DEF MarkError, Unlocked
  <2>7. /\ expiries[u] \in Nat /\ retries[u] \in Nat /\ MaxRetries \in Nat
        /\ Bounds(u) /\ Locked(u) \in {0, 1} /\ Cardinality(Holders(u)) \in Nat
    BY SizesAssumption, HoldersFinite DEF BoundInv, TableTypes, Locked
  <2>8. Locked(u)' = IF u \in UrlsThat(p, "error") THEN 0 ELSE Locked(u)
    BY <2>6 DEF Locked
  <2>9. retries'[u] = retries[u] + Errors(p, u)
    BY <2>6
  <2> QED
    BY <2>1, <2>2, <2>3, <2>4, <2>5, <2>6, <2>7, <2>8, <2>9 DEF Bounds
<1> QED
  BY <1>2, <1>3

\* Where nothing is added to Held and no lock, count or expiry changes.
LEMMA SameBounds ==
  ASSUME BoundInv, Held' \subseteq Held, UNCHANGED <<lock, expiries, retries>>
  PROVE  IsFiniteSet(Held)' /\ \A u \in Urls : Bounds(u)'
<1>1. IsFiniteSet(Held)'
  BY FS_Subset DEF BoundInv
<1>2. ASSUME NEW u \in Urls
      PROVE  Bounds(u)'
  <2>1. IsFiniteSet(Holders(u)) /\ Cardinality(Holders(u)) \in Nat
    BY HoldersFinite
  <2>2. Holders(u)' \subseteq Holders(u)
    BY DEF Holders
  <2>3. Cardinality(Holders(u))' \in Nat
        /\ Cardinality(Holders(u))' <= Cardinality(Holders(u))
    BY <2>1, <2>2, FS_Subset, FS_CardinalityType
  <2>4. /\ expiries[u] \in Nat /\ retries[u] \in Nat /\ MaxRetries \in Nat
        /\ Bounds(u) /\ Locked(u) \in {0, 1} /\ Locked(u)' = Locked(u)
    BY SizesAssumption DEF BoundInv, TableTypes, Locked
  <2> QED
    BY <2>1, <2>3, <2>4 DEF Bounds
<1> QED
  BY <1>1, <1>2

LEMMA BoundNext == BoundInv /\ [Next]_vars => BoundInv'
<1> SUFFICES ASSUME BoundInv, [Next]_vars
             PROVE  IsFiniteSet(Held)' /\ \A u \in Urls : Bounds(u)'
  BY LedgerInvNext, TableNext DEF BoundInv
<1>0. QueueTypes'
  BY TypesNext DEF BoundInv, LedgerInv, ClaimInv
<1>1. CASE UNCHANGED vars
  <2>1. Held' = Held
    BY <1>0, <1>1, IdleAll DEF vars, BoundInv, LedgerInv
  <2>2. UNCHANGED <<lock, expiries, retries>>
    BY <1>1 DEF vars
  <2> QED
    BY <2>1, <2>2, SameBounds
<1>2. ASSUME NEW x \in Urls, Expire(x)
      PROVE  IsFiniteSet(Held)' /\ \A u \in Urls : Bounds(u)'
  <2>1. Held' = Held
    BY <1>0, <1>2, IdleAll DEF Expire, BoundInv, LedgerInv
  <2>2. ASSUME NEW u \in Urls
        PROVE  Bounds(u)'
    <3>1. Holders(u)' = Holders(u)
      BY <2>1 DEF Holders
    <3>2. /\ lock' = [lock EXCEPT ![x] = "stale"] /\ lock[x] = "held"
          /\ expiries' = [expiries EXCEPT ![x] = @ + 1] /\ retries' = retries
      BY <1>2 DEF Expire
    <3>3. /\ expiries[u] \in Nat /\ retries[u] \in Nat /\ MaxRetries \in Nat
          /\ Cardinality(Holders(u)) \in Nat /\ Bounds(u)
      BY SizesAssumption, HoldersFinite DEF BoundInv, TableTypes
    <3>4. IF u = x THEN /\ expiries'[u] = expiries[u] + 1
                        /\ Locked(u) = 1 /\ Locked(u)' = 0
          ELSE expiries'[u] = expiries[u] /\ Locked(u)' = Locked(u)
      BY <3>2 DEF Locked, BoundInv, TableTypes
    <3>5. Locked(u) \in {0, 1}
      BY DEF Locked
    <3> QED
      BY <3>1, <3>2, <3>3, <3>4, <3>5 DEF Bounds
  <2> QED
    BY <2>1, <2>2 DEF BoundInv
<1>3. ASSUME NEW p \in Processes,
             \/ SkipRefill(p) \/ Put(p) \/ Drain(p) \/ Start(p)
             \/ \E t \in Threads : Take(p, t) \/ Report(p, t)
      PROVE  IsFiniteSet(Held)' /\ \A u \in Urls : Bounds(u)'
  <2>1. Moves(p)
    BY <1>3, RestMoves, PutMoves, DrainMoves, TakeMoves, ReportMoves
       DEF BoundInv, LedgerInv
  <2>2. Held' = Held
    BY <1>0, <2>1, MovesAll DEF BoundInv, LedgerInv
  <2>3. UNCHANGED <<lock, expiries, retries>>
    BY <1>3 DEF SkipRefill, Put, Drain, Start, Take, Report, table
  <2> QED
    BY <2>2, <2>3, SameBounds
<1>4. ASSUME NEW p \in Processes, PutLinks(p)
      PROVE  IsFiniteSet(Held)' /\ \A u \in Urls : Bounds(u)'
  <2>1. Lets(p, {})
    BY <1>4, PutLinksLets DEF BoundInv, LedgerInv
  <2>2. Held' \subseteq Held
    BY <1>0, <2>1, LetsAll DEF BoundInv, LedgerInv
  <2>3. UNCHANGED <<lock, expiries, retries>>
    BY <1>4 DEF PutLinks
  <2> QED
    BY <2>2, <2>3, SameBounds
<1>5. ASSUME NEW p \in Processes, Crash(p)
      PROVE  IsFiniteSet(Held)' /\ \A u \in Urls : Bounds(u)'
  <2>1. Lets(p, Unanswered(p))
    BY <1>5, CrashLets DEF BoundInv, LedgerInv
  <2>2. Held' \subseteq Held
    BY <1>0, <2>1, LetsAll DEF BoundInv, LedgerInv
  <2>3. UNCHANGED <<lock, expiries, retries>>
    BY <1>5 DEF Crash, table
  <2> QED
    BY <2>2, <2>3, SameBounds
<1> QED
  BY <1>1, <1>2, <1>3, <1>4, <1>5, RefillBounds, MarkDoneBounds, MarkErrorBounds
     DEF Next, Coordinate

LEMMA BoundInit == Init => BoundInv
<1> SUFFICES ASSUME Init
             PROVE  BoundInv
  OBVIOUS
<1>1. Held = {}
  BY DEF Init, Held, Unanswered
<1>2. ASSUME NEW u \in Urls
      PROVE  Bounds(u)
  <2>1. Holders(u) = {} /\ Cardinality({}) = 0
    BY <1>1, FS_EmptySet DEF Holders
  <2>2. expiries[u] = 0 /\ retries[u] = 0 /\ Locked(u) = 0
    BY DEF Init, Locked
  <2> QED
    BY <2>1, <2>2, SizesAssumption DEF Bounds
<1> QED
  BY <1>1, <1>2, LedgerStart, FS_EmptySet DEF Init, BoundInv, TableTypes

\* However many processes and threads crash, answer late or free a lock that is
\* no longer theirs, a URL is worked on once, and once more per lock that ran out.
THEOREM FetchersAreFew == Spec => []OneFetcher
<1>1. BoundInv => OneFetcher
  BY DEF BoundInv, Bounds, Locked, OneFetcher
<1> QED
  BY <1>1, BoundInit, BoundNext, PTL DEF Spec

\* A URL fails at most MaxRetries times, and once more per lock that ran out.
THEOREM RetriesEnd == Spec => []RetriesAreBounded
<1>1. BoundInv => RetriesAreBounded
  BY DEF BoundInv, Bounds, RetriesAreBounded
<1> QED
  BY <1>1, BoundInit, BoundNext, PTL DEF Spec

-----------------------------------------------------------------------------
(***************************************************************************)
(* The count of what is out: sent and not yet received by the coordinator.   *)
(***************************************************************************)
Outside(p) ==
  {e \in Entry :
     \/ e \in putting[p] \cup work_q[p]
     \/ \E t \in Threads : e \in fetching[p][t]
     \/ \E r \in done_q[p] : r.entry = e}

Counted(p) ==
  /\ IsFiniteSet(Outside(p)) /\ out[p] = Cardinality(Outside(p))
  /\ pc[p] = "ended" => Outside(p) = {} /\ pending[p] = {}

CountInv ==
  /\ LedgerInv
  /\ out \in [Processes -> Nat]
  /\ \A p \in Processes : Counted(p)

\* Where nothing enters or leaves, the count stays.
LEMMA SameCount ==
  ASSUME NEW p \in Processes, Counted(p), out'[p] = out[p],
         Outside(p)' = Outside(p), pending'[p] = pending[p],
         pc'[p] = "ended" => pc[p] = "ended"
  PROVE  Counted(p)'
  BY DEF Counted

LEMMA RefillCounts ==
  ASSUME CountInv, NEW p \in Processes, Refill(p)
  PROVE  Counted(p)' /\ out'[p] \in Nat
<1> PICK batch \in ClaimBatches : Refill(p)!2!(batch)
  BY DEF Refill
<1>1. IsFiniteSet(batch) /\ batch \subseteq Urls
  BY BatchFits DEF ClaimBatches
<1>2. IsFiniteSet(Batch(batch)) /\ Cardinality(Batch(batch)) = Cardinality(batch)
  <2> DEFINE f == [u \in batch |-> [url |-> u, nth |-> claims[u]]]
  <2>1. f \in Bijection(batch, Batch(batch))
    <3>1. f \in [batch -> Batch(batch)]
      BY DEF Batch
    <3>2. \A u, v \in batch : f[u] = f[v] => u = v
      OBVIOUS
    <3>3. \A e \in Batch(batch) : \E u \in batch : f[u] = e
      BY DEF Batch
    <3> QED
      BY <3>1, <3>2, <3>3 DEF Bijection, Injection, IsInjective, Surjection
  <2>2. ExistsBijection(batch, Batch(batch))
    BY <2>1 DEF ExistsBijection
  <2> QED
    BY <1>1, <2>2, FS_Bijection
<1>3. Batch(batch) \cap Has(p) = {} /\ Batch(batch) \subseteq Entry
  <2>1. Batch(batch) \subseteq Entry /\ \A e \in Batch(batch) : e.nth = claims[e.url]
    BY <1>1 DEF Batch, Entry, CountInv, LedgerInv, ClaimInv, QueueTypes
  <2> QED
    BY <2>1 DEF CountInv, LedgerInv, ClaimInv, Numbered, Has, QueueTypes, Entry
<1>4. /\ putting[p] = {} /\ putting'[p] = Batch(batch)
      /\ work_q' = work_q /\ fetching' = fetching /\ done_q' = done_q
      /\ pc'[p] \in {"drain", "put"} /\ out'[p] = out[p] + Cardinality(batch)
  BY DEF Refill, Goes, Batch, CountInv, LedgerInv, ClaimInv, QueueTypes
<1>5. Outside(p)' = Outside(p) \cup Batch(batch)
  BY <1>3, <1>4 DEF Outside
<1>6. Outside(p) \cap Batch(batch) = {}
  BY <1>3 DEF Outside, Has
<1>7. IsFiniteSet(Outside(p)) /\ out[p] = Cardinality(Outside(p)) /\ out[p] \in Nat
  BY DEF CountInv, Counted
<1>8. /\ IsFiniteSet(Outside(p) \cup Batch(batch))
      /\ Cardinality(Outside(p) \cup Batch(batch)) =
           Cardinality(Outside(p)) + Cardinality(Batch(batch))
             - Cardinality(Outside(p) \cap Batch(batch))
  BY <1>2, <1>7, FS_Union
<1>9. Cardinality(Outside(p) \cap Batch(batch)) = 0 /\ Cardinality(batch) \in Nat
  BY <1>1, <1>6, FS_EmptySet, FS_CardinalityType
<1> QED
  BY <1>2, <1>4, <1>5, <1>7, <1>8, <1>9 DEF Counted

LEMMA DrainCounts ==
  ASSUME CountInv, NEW p \in Processes, Drain(p)
  PROVE  Counted(p)' /\ out'[p] \in Nat
<1> DEFINE got == {r.entry : r \in done_q[p]}
<1>1. /\ pending'[p] = pending[p] \cup done_q[p] /\ done_q'[p] = {}
      /\ putting' = putting /\ work_q' = work_q /\ fetching' = fetching
      /\ out'[p] = out[p] - Cardinality(done_q[p])
  BY DEF Drain, CountInv, LedgerInv, ClaimInv, QueueTypes
<1>2. pc'[p] = "ended" =>
        pending[p] \cup done_q[p] = {} /\ out[p] = Cardinality(done_q[p])
  BY DEF Drain, Goes, AllReceived, CountInv, LedgerInv, ClaimInv, QueueTypes
<1>3. IsFiniteSet(done_q[p]) /\ OnePlace(p) /\ done_q[p] \subseteq Result
  BY DEF CountInv, LedgerInv, ClaimInv, QueueTypes
<1>4. IsFiniteSet(got) /\ Cardinality(got) = Cardinality(done_q[p])
  <2> DEFINE f == [r \in done_q[p] |-> r.entry]
  <2>1. f \in Bijection(done_q[p], got)
    <3>1. f \in [done_q[p] -> got]
      OBVIOUS
    <3>2. \A r, s \in done_q[p] : f[r] = f[s] => r = s
      BY <1>3 DEF OnePlace
    <3>3. \A e \in got : \E r \in done_q[p] : f[r] = e
      OBVIOUS
    <3> QED
      BY <3>1, <3>2, <3>3 DEF Bijection, Injection, IsInjective, Surjection
  <2>2. ExistsBijection(done_q[p], got)
    BY <2>1 DEF ExistsBijection
  <2> HIDE DEF got
  <2> QED
    BY <1>3, <2>2, FS_Bijection
<1>5. got \subseteq Outside(p)
  BY <1>3 DEF Outside, Result
<1>6. Outside(p)' = Outside(p) \ got
  BY <1>1, <1>3 DEF Outside, OnePlace
<1>7. IsFiniteSet(Outside(p)) /\ out[p] = Cardinality(Outside(p)) /\ out[p] \in Nat
  BY DEF CountInv, Counted
<1> HIDE DEF got
<1>8. /\ IsFiniteSet(Outside(p) \ got)
      /\ Cardinality(Outside(p) \ got) =
           Cardinality(Outside(p)) - Cardinality(Outside(p) \cap got)
  BY <1>7, FS_Difference
<1>9. Outside(p) \cap got = got
  BY <1>5
<1>10. Cardinality(Outside(p) \ got) \in Nat
  BY <1>8, FS_CardinalityType
<1>11. out'[p] = Cardinality(Outside(p)') /\ out'[p] \in Nat
  BY <1>1, <1>4, <1>6, <1>7, <1>8, <1>9, <1>10
<1>12. pc'[p] = "ended" => Outside(p)' = {} /\ pending'[p] = {}
  <2> SUFFICES ASSUME pc'[p] = "ended"
               PROVE  Outside(p)' = {} /\ pending'[p] = {}
    OBVIOUS
  <2>1. pending'[p] = {} /\ out'[p] = 0
    BY <1>1, <1>2, <1>7, <1>4, <1>3, FS_CardinalityType
  <2>2. Cardinality(Outside(p) \ got) = 0
    BY <1>6, <1>11, <2>1
  <2> QED
    BY <1>6, <1>8, <2>1, <2>2, FS_EmptySet
<1> QED
  BY <1>6, <1>8, <1>11, <1>12 DEF Counted

LEMMA ReportCounts ==
  ASSUME CountInv, NEW p \in Processes, NEW t \in Threads, Report(p, t)
  PROVE  Outside(p)' = Outside(p) /\ pending' = pending /\ pc' = pc /\ out' = out
<1> PICK entry \in fetching[p][t], outcome \in Outcomes :
      done_q' = [done_q EXCEPT ![p] =
                   @ \cup {[entry |-> entry, outcome |-> outcome]}]
  BY DEF Report, Reported
<1> DEFINE result == [entry |-> entry, outcome |-> outcome]
<1>1. /\ done_q'[p] = done_q[p] \cup {result} /\ result.entry = entry
      /\ fetching[p][t] = {entry} /\ fetching'[p][t] = {}
      /\ \A s \in Threads \ {t} : fetching'[p][s] = fetching[p][s]
      /\ putting' = putting /\ work_q' = work_q
      /\ pending' = pending /\ pc' = pc /\ out' = out
  BY DEF Report, table, CountInv, LedgerInv, ClaimInv, QueueTypes, OnePlace
<1> HIDE DEF result
<1> QED
  BY <1>1 DEF Outside

LEMMA OthersCount ==
  ASSUME CountInv, NEW p \in Processes, NEW q \in Processes \ {p}, Others(p),
         out'[q] = out[q]
  PROVE  Counted(q)'
<1>1. Outside(q)' = Outside(q) /\ pending'[q] = pending[q] /\ pc'[q] = pc[q]
  BY DEF Others, Outside
<1> QED
  BY <1>1, SameCount DEF CountInv

LEMMA CountNext == CountInv /\ [Next]_vars => CountInv'
<1> SUFFICES ASSUME CountInv, [Next]_vars
             PROVE  out' \in [Processes -> Nat] /\ \A p \in Processes : Counted(p)'
  BY LedgerInvNext DEF CountInv
<1>0. ClaimInv /\ QueueTypes
  BY DEF CountInv, LedgerInv, ClaimInv
<1>1. CASE UNCHANGED vars \/ \E u \in Urls : Expire(u)
  <2>1. UNCHANGED <<pc, out, putting, work_q, fetching, done_q, pending>>
    BY <1>1 DEF vars, Expire
  <2>2. \A p \in Processes : Outside(p)' = Outside(p)
    BY <2>1 DEF Outside
  <2> QED
    BY <2>1, <2>2, SameCount DEF CountInv
<1>2. ASSUME NEW p \in Processes, Others(p), Counted(p)', out'[p] \in Nat,
             out' = [out EXCEPT ![p] = out'[p]]
      PROVE  out' \in [Processes -> Nat] /\ \A q \in Processes : Counted(q)'
  <2>1. \A q \in Processes \ {p} : out'[q] = out[q]
    BY <1>2 DEF CountInv
  <2>2. out' \in [Processes -> Nat]
    BY <1>2 DEF CountInv
  <2> QED
    BY <1>2, <2>1, <2>2, OthersCount
<1>3. ASSUME NEW p \in Processes, Others(p), out' = out,
             Outside(p)' = Outside(p), pending'[p] = pending[p],
             pc'[p] = "ended" => pc[p] = "ended"
      PROVE  out' \in [Processes -> Nat] /\ \A q \in Processes : Counted(q)'
  BY <1>3, SameCount, OthersCount DEF CountInv
<1>4. ASSUME NEW p \in Processes, Refill(p)
      PROVE  out' \in [Processes -> Nat] /\ \A q \in Processes : Counted(q)'
  <2>1. Counted(p)' /\ out'[p] \in Nat
    BY <1>4, RefillCounts
  <2>2. Others(p)
    BY <1>0, <1>4 DEF Refill, Goes, Others, QueueTypes
  <2>3. out' = [out EXCEPT ![p] = out'[p]]
    BY <1>4 DEF Refill, CountInv
  <2> QED
    BY <1>2, <2>1, <2>2, <2>3
<1>5. ASSUME NEW p \in Processes, Drain(p)
      PROVE  out' \in [Processes -> Nat] /\ \A q \in Processes : Counted(q)'
  <2>1. Counted(p)' /\ out'[p] \in Nat
    BY <1>5, DrainCounts
  <2>2. Others(p)
    BY <1>0, <1>5 DEF Drain, Goes, Others, QueueTypes
  <2>3. out' = [out EXCEPT ![p] = out'[p]]
    BY <1>5 DEF Drain, CountInv
  <2> QED
    BY <1>2, <2>1, <2>2, <2>3
<1>6. ASSUME NEW p \in Processes, Put(p)
      PROVE  out' \in [Processes -> Nat] /\ \A q \in Processes : Counted(q)'
  <2>1. Others(p)
    BY <1>0, <1>6, PutMoves DEF Moves
  <2> PICK entry \in putting[p] :
        /\ putting' = [putting EXCEPT ![p] = @ \ {entry}]
        /\ work_q' = [work_q EXCEPT ![p] = @ \cup {entry}]
    BY <1>6 DEF Put
  <2>2. /\ putting'[p] = putting[p] \ {entry}
        /\ work_q'[p] = work_q[p] \cup {entry}
        /\ fetching' = fetching /\ done_q' = done_q /\ pending' = pending
        /\ pc'[p] \in {"drain", "put"} /\ out' = out
    BY <1>0, <1>6 DEF Put, QueueTypes
  <2>3. Outside(p)' = Outside(p)
    BY <2>2 DEF Outside
  <2> QED
    BY <1>3, <2>1, <2>2, <2>3
<1>7. ASSUME NEW p \in Processes, SkipRefill(p) \/ Start(p)
      PROVE  out' \in [Processes -> Nat] /\ \A q \in Processes : Counted(q)'
  <2>1. Others(p)
    BY <1>0, <1>7, RestMoves DEF Moves
  <2>2. /\ UNCHANGED <<out, putting, work_q, fetching, done_q, pending>>
        /\ pc'[p] # "ended"
    BY <1>0, <1>7 DEF SkipRefill, Start, Goes, QueueTypes
  <2>3. Outside(p)' = Outside(p)
    BY <2>2 DEF Outside
  <2> QED
    BY <1>3, <2>1, <2>2, <2>3
<1>8. ASSUME NEW p \in Processes, MarkDone(p) \/ MarkError(p)
      PROVE  out' \in [Processes -> Nat] /\ \A q \in Processes : Counted(q)'
  <2>1. Others(p)
    BY <1>0, <1>8, MarkDoneLets, MarkErrorLets DEF Lets
  <2>2. /\ UNCHANGED <<out, putting, work_q, fetching, done_q, pending>>
        /\ pc'[p] # "ended"
    BY <1>0, <1>8 DEF MarkDone, MarkError, Goes, QueueTypes
  <2>3. Outside(p)' = Outside(p)
    BY <2>2 DEF Outside
  <2> QED
    BY <1>3, <2>1, <2>2, <2>3
<1>9. ASSUME NEW p \in Processes, PutLinks(p)
      PROVE  out' \in [Processes -> Nat] /\ \A q \in Processes : Counted(q)'
  <2>1. Others(p)
    BY <1>0, <1>9, PutLinksLets DEF Lets
  <2>2. /\ UNCHANGED <<out, putting, work_q, fetching, done_q>>
        /\ pc'[p] = "loop"
    BY <1>0, <1>9 DEF PutLinks, Goes, QueueTypes
  <2>3. Outside(p)' = Outside(p)
    BY <2>2 DEF Outside
  <2>4. Counted(p)'
    BY <2>2, <2>3 DEF CountInv, Counted
  <2> QED
    BY <2>1, <2>2, <2>4, OthersCount DEF CountInv
<1>10. ASSUME NEW p \in Processes, Crash(p)
       PROVE  out' \in [Processes -> Nat] /\ \A q \in Processes : Counted(q)'
  <2>1. Others(p)
    BY <1>0, <1>10, CrashLets DEF Lets
  <2>2. /\ putting'[p] = {} /\ work_q'[p] = {} /\ done_q'[p] = {}
        /\ fetching'[p] = [t \in Threads |-> {}] /\ pc'[p] = "crashed"
    BY <1>0, <1>10 DEF Crash, QueueTypes
  <2>3. Outside(p)' = {}
    BY <2>2 DEF Outside
  <2>4. out' = [out EXCEPT ![p] = 0] /\ out'[p] = 0
    BY <1>10 DEF Crash, CountInv
  <2>5. Counted(p)'
    BY <2>2, <2>3, <2>4, FS_EmptySet DEF Counted
  <2>6. out' = [out EXCEPT ![p] = out'[p]] /\ out'[p] \in Nat
    BY <2>4 DEF CountInv
  <2> QED
    BY <1>2, <2>1, <2>5, <2>6
<1>11. ASSUME NEW p \in Processes, NEW t \in Threads, Take(p, t)
       PROVE  out' \in [Processes -> Nat] /\ \A q \in Processes : Counted(q)'
  <2>1. Others(p)
    BY <1>0, <1>11, TakeMoves DEF Moves
  <2> PICK entry \in work_q[p] :
        /\ work_q' = [work_q EXCEPT ![p] = @ \ {entry}]
        /\ fetching' = [fetching EXCEPT ![p][t] = {entry}]
    BY <1>11 DEF Take
  <2>2. /\ work_q'[p] = work_q[p] \ {entry}
        /\ fetching[p][t] = {} /\ fetching'[p][t] = {entry}
        /\ \A s \in Threads \ {t} : fetching'[p][s] = fetching[p][s]
        /\ putting' = putting /\ done_q' = done_q /\ pending' = pending
        /\ pc' = pc /\ out' = out
    BY <1>0, <1>11 DEF Take, QueueTypes
  <2>3. Outside(p)' = Outside(p)
    BY <2>2 DEF Outside
  <2> QED
    BY <1>3, <2>1, <2>2, <2>3
<1>12. ASSUME NEW p \in Processes, NEW t \in Threads, Report(p, t)
       PROVE  out' \in [Processes -> Nat] /\ \A q \in Processes : Counted(q)'
  <2>1. Others(p)
    BY <1>0, <1>12, ReportMoves DEF Moves
  <2> QED
    BY <1>3, <1>12, <2>1, ReportCounts
<1> QED
  BY <1>1, <1>4, <1>5, <1>6, <1>7, <1>8, <1>9, <1>10, <1>11, <1>12
     DEF Next, Coordinate

LEMMA CountInit == Init => CountInv
<1> SUFFICES ASSUME Init
             PROVE  CountInv
  OBVIOUS
<1>1. \A p \in Processes : Outside(p) = {} /\ out[p] = 0 /\ pc[p] = "loop"
  BY DEF Init, Outside
<1> QED
  BY <1>1, LedgerStart, FS_EmptySet DEF Init, CountInv, Counted

\* A coordinator ends only when all it claimed was fetched, received and written
\* back: the count of what is out agrees with what threads and queues hold.
THEOREM EndsWithNothing == Spec => []EndsEmptyHanded
<1>1. CountInv => EndsEmptyHanded
  <2> SUFFICES ASSUME CountInv, NEW p \in Processes, pc[p] = "ended"
               PROVE  Unanswered(p) = {}
    BY DEF EndsEmptyHanded
  <2>1. Outside(p) = {} /\ pending[p] = {}
    BY DEF CountInv, Counted
  <2> QED
    BY <2>1 DEF Outside, Unanswered, CountInv, LedgerInv, ClaimInv, QueueTypes,
                Result
<1> QED
  BY <1>1, CountInit, CountNext, PTL DEF Spec

-----------------------------------------------------------------------------
(***************************************************************************)
(* Why an exhausted coordinator ends.  ExhaustedEnds needs Fairness, which   *)
(* TLC checks on an instance.  What that fairness brings about is proved     *)
(* here: somebody can always bring an answer nearer to the queue, nobody     *)
(* takes it further away, and once nothing is out the coordinator's next     *)
(* look at its results is the last but for a flush.                          *)
(***************************************************************************)
Fetching(p) == {t \in Threads : fetching[p][t] # {}}

\* Each answer is taken, reported and drained, and what is drained is flushed.
AnswersLeft(p) ==
  4 * Cardinality(work_q[p]) + 3 * Cardinality(Fetching(p))
    + 2 * Cardinality(done_q[p]) + (IF pending[p] = {} THEN 0 ELSE 1)

AnswersComeNearer ==
  \A p \in Processes : exhausted[p] /\ exhausted'[p] =>
    \/ /\ AnswersLeft(p) \in Nat /\ AnswersLeft(p)' \in Nat
       /\ AnswersLeft(p)' < AnswersLeft(p)
    \/ UNCHANGED <<putting[p], work_q[p], fetching[p], done_q[p], pending[p], out[p]>>

\* Take and Report are possible, or the next Drain finds results, or that Drain
\* knows that all were received and flushes what is pending or ends.
NobodyStalls ==
  \A p \in Processes : exhausted[p] /\ pc[p] # "ended" =>
    /\ pc[p] # "put"
    /\ \/ \E t \in Threads : fetching[p][t] = {} /\ work_q[p] # {}
       \/ \E t \in Threads : fetching[p][t] # {} /\ ResultRoom(p)
       \/ done_q[p] # {}
       \/ AllReceived(p, {})

\* A coordinator that claims nothing more has put all it claimed.
AllPut ==
  /\ exhausted \in [Processes -> BOOLEAN]
  /\ \A p \in Processes : exhausted[p] =>
       putting[p] = {} /\ pc[p] \notin {"put", "crashed"}

LEMMA AllPutNext == QueueTypes /\ AllPut /\ [Next]_vars => AllPut'
<1> SUFFICES ASSUME QueueTypes, AllPut, [Next]_vars
             PROVE  AllPut'
  OBVIOUS
<1>1. ASSUME NEW p \in Processes, Refill(p) PROVE AllPut'
  <2> PICK batch \in ClaimBatches : Refill(p)!2!(batch)
    BY <1>1 DEF Refill
  <2>1. exhausted' = [exhausted EXCEPT ![p] = (batch = {})] /\ (batch = {}) \in BOOLEAN
    OBVIOUS
  <2>2. exhausted' \in [Processes -> BOOLEAN]
    BY <2>1 DEF AllPut
  <2>3. \A q \in Processes \ {p} :
          exhausted'[q] = exhausted[q] /\ putting'[q] = putting[q] /\ pc'[q] = pc[q]
    BY <2>1 DEF AllPut, QueueTypes, Goes
  <2>4. CASE batch = {}
    <3>1. putting'[p] = {} /\ pc'[p] = "drain"
      BY <2>4 DEF Goes, QueueTypes
    <3> QED
      BY <2>2, <2>3, <3>1 DEF AllPut
  <2>5. CASE batch # {}
    <3>1. ~exhausted'[p]
      BY <2>1, <2>5 DEF AllPut
    <3> QED
      BY <2>2, <2>3, <3>1 DEF AllPut
  <2> QED
    BY <2>4, <2>5
<1>2. ASSUME NEW p \in Processes, Put(p) PROVE AllPut'
  BY <1>2 DEF Put, table, AllPut, QueueTypes
<1>3. ASSUME NEW p \in Processes,
             SkipRefill(p) \/ Drain(p) \/ MarkDone(p) \/ MarkError(p) \/ PutLinks(p)
      PROVE  AllPut'
  BY <1>3 DEF SkipRefill, Drain, MarkDone, MarkError, PutLinks, Goes, AllPut, QueueTypes
<1>4. ASSUME NEW p \in Processes, Crash(p) \/ Start(p) PROVE AllPut'
  BY <1>4 DEF Crash, Start, AllPut, QueueTypes
<1>5. CASE UNCHANGED <<exhausted, putting, pc>>
  BY <1>5 DEF AllPut
<1>6. ASSUME NEW p \in Processes, NEW t \in Threads, Take(p, t) \/ Report(p, t)
      PROVE  AllPut'
  BY <1>5, <1>6 DEF Take, Report
<1>7. ASSUME NEW u \in Urls, Expire(u) PROVE AllPut'
  BY <1>5, <1>7 DEF Expire
<1>8. CASE UNCHANGED vars
  BY <1>5, <1>8 DEF vars
<1> QED
  BY <1>1, <1>2, <1>3, <1>4, <1>6, <1>7, <1>8 DEF Next, Coordinate

LEMMA AllPutAlways == Spec => []AllPut
<1>1. Init => AllPut
  BY DEF Init, AllPut
<1>2. CountInv => QueueTypes
  BY DEF CountInv, LedgerInv, ClaimInv
<1> QED
  BY <1>1, <1>2, AllPutNext, CountInit, CountNext, PTL DEF Spec

\* Whatever was claimed, and however small the queue of results is, threads and
\* coordinator do not leave an answer lying: the count of what is out is that of
\* answers still to come (_coordinator, _http_worker).
THEOREM ExhaustedNeverStalls == Spec => []NobodyStalls
<1>1. CountInv /\ AllPut => NobodyStalls
  <2> SUFFICES ASSUME CountInv, AllPut, NEW p \in Processes, exhausted[p],
                      work_q[p] # {} => Fetching(p) = Threads,
                      Fetching(p) # {} => ~ResultRoom(p), done_q[p] = {}
               PROVE  AllReceived(p, {})
    BY DEF NobodyStalls, AllPut, Fetching
  <2>1. Cardinality(Threads) \in Nat \ {0} /\ Cardinality(done_q[p]) = 0
    BY ThreadsAssumption, FS_CardinalityType, FS_EmptySet
  <2>2. Fetching(p) = {}
    BY <2>1 DEF ResultRoom
  <2>3. work_q[p] = {} /\ putting[p] = {}
    BY <2>2, ThreadsAssumption DEF AllPut
  <2>4. Outside(p) = {}
    BY <2>2, <2>3 DEF Outside, Fetching
  <2>5. out[p] = 0 /\ Cardinality({}) = 0
    BY <2>4, FS_EmptySet DEF CountInv, Counted
  <2> QED
    BY <2>5 DEF AllReceived
<1> QED
  BY <1>1, AllPutAlways, CountInit, CountNext, PTL DEF Spec

\* What there is to count is finite.
LEMMA AnswersAreFinite ==
  ASSUME CountInv, NEW p \in Processes
  PROVE  /\ IsFiniteSet(work_q[p]) /\ IsFiniteSet(Fetching(p)) /\ IsFiniteSet(done_q[p])
         /\ Cardinality(work_q[p]) \in Nat /\ Cardinality(Fetching(p)) \in Nat
         /\ Cardinality(done_q[p]) \in Nat
<1>1. IsFiniteSet(work_q[p])
  <2>1. work_q[p] \in SUBSET Outside(p)
    BY DEF Outside, CountInv, LedgerInv, ClaimInv, QueueTypes
  <2> QED
    BY <2>1, FS_Subset DEF CountInv, Counted
<1>2. IsFiniteSet(Fetching(p))
  BY ThreadsAssumption, FS_Subset DEF Fetching
<1>3. IsFiniteSet(done_q[p])
  BY DEF CountInv, LedgerInv
<1> QED
  BY <1>1, <1>2, <1>3, FS_CardinalityType

LEMMA LeftIsNatural == CountInv => \A p \in Processes : AnswersLeft(p) \in Nat
<1> SUFFICES ASSUME CountInv, NEW p \in Processes PROVE AnswersLeft(p) \in Nat
  OBVIOUS
<1> QED
  BY AnswersAreFinite DEF AnswersLeft

LEMMA TakeNears ==
  ASSUME CountInv, NEW p \in Processes, NEW t \in Threads, Take(p, t)
  PROVE  AnswersLeft(p)' < AnswersLeft(p)
<1> PICK entry \in work_q[p] :
      /\ work_q' = [work_q EXCEPT ![p] = @ \ {entry}]
      /\ fetching' = [fetching EXCEPT ![p][t] = {entry}]
  BY DEF Take
<1>1. /\ work_q'[p] = work_q[p] \ {entry}
      /\ fetching[p][t] = {} /\ fetching'[p][t] = {entry}
      /\ \A s \in Threads \ {t} : fetching'[p][s] = fetching[p][s]
      /\ done_q' = done_q /\ pending' = pending
  BY DEF Take, CountInv, LedgerInv, ClaimInv, QueueTypes
<1>2. Fetching(p)' = Fetching(p) \cup {t} /\ t \notin Fetching(p)
  BY <1>1 DEF Fetching
<1>3. Cardinality(work_q'[p]) = Cardinality(work_q[p]) - 1
  BY <1>1, AnswersAreFinite, FS_RemoveElement
<1>4. Cardinality(Fetching(p)') = Cardinality(Fetching(p)) + 1
  BY <1>2, AnswersAreFinite, FS_AddElement
<1> QED
  BY <1>1, <1>3, <1>4, AnswersAreFinite DEF AnswersLeft

LEMMA ReportNears ==
  ASSUME CountInv, NEW p \in Processes, NEW t \in Threads, Report(p, t)
  PROVE  AnswersLeft(p)' < AnswersLeft(p)
<1> PICK entry \in fetching[p][t], outcome \in Outcomes :
      done_q' = [done_q EXCEPT ![p] =
                   @ \cup {[entry |-> entry, outcome |-> outcome]}]
  BY DEF Report, Reported
<1> DEFINE result == [entry |-> entry, outcome |-> outcome]
<1>1. /\ done_q'[p] = done_q[p] \cup {result}
      /\ fetching[p][t] # {} /\ fetching'[p][t] = {}
      /\ \A s \in Threads \ {t} : fetching'[p][s] = fetching[p][s]
      /\ work_q' = work_q /\ pending' = pending
  BY DEF Report, table, CountInv, LedgerInv, ClaimInv, QueueTypes
<1> HIDE DEF result
<1>2. Fetching(p)' = Fetching(p) \ {t} /\ t \in Fetching(p)
  BY <1>1 DEF Fetching
<1>3. Cardinality(Fetching(p)') = Cardinality(Fetching(p)) - 1
  BY <1>2, AnswersAreFinite, FS_RemoveElement
<1>4. Cardinality(done_q'[p]) \in {Cardinality(done_q[p]), Cardinality(done_q[p]) + 1}
  BY <1>1, AnswersAreFinite, FS_AddElement
<1> QED
  BY <1>1, <1>3, <1>4, AnswersAreFinite DEF AnswersLeft

LEMMA DrainNears ==
  ASSUME CountInv, NEW p \in Processes, Drain(p)
  PROVE  \/ AnswersLeft(p)' < AnswersLeft(p)
         \/ UNCHANGED <<putting[p], work_q[p], fetching[p], done_q[p], pending[p], out[p]>>
<1>1. /\ pending'[p] = pending[p] \cup done_q[p] /\ done_q'[p] = {}
      /\ putting' = putting /\ work_q' = work_q /\ fetching' = fetching
      /\ out'[p] = out[p] - Cardinality(done_q[p]) /\ out[p] \in Nat
  BY DEF Drain, CountInv, LedgerInv, ClaimInv, QueueTypes
<1>2. Fetching(p)' = Fetching(p) /\ Cardinality({}) = 0
  BY <1>1, FS_EmptySet DEF Fetching
<1>3. CASE done_q[p] = {}
  BY <1>1, <1>2, <1>3
<1>4. CASE done_q[p] # {}
  <2>1. Cardinality(done_q[p]) > 0
    BY <1>4, AnswersAreFinite, FS_EmptySet
  <2> QED
    BY <1>1, <1>2, <2>1, AnswersAreFinite DEF AnswersLeft
<1> QED
  BY <1>3, <1>4

LEMMA PutLinksNears ==
  ASSUME CountInv, NEW p \in Processes, PutLinks(p)
  PROVE  \/ AnswersLeft(p)' < AnswersLeft(p)
         \/ UNCHANGED <<putting[p], work_q[p], fetching[p], done_q[p], pending[p], out[p]>>
<1>1. /\ pending'[p] = {} /\ done_q' = done_q /\ out' = out
      /\ putting' = putting /\ work_q' = work_q /\ fetching' = fetching
  BY DEF PutLinks, CountInv, LedgerInv, ClaimInv, QueueTypes
<1>2. Fetching(p)' = Fetching(p)
  BY <1>1 DEF Fetching
<1> QED
  BY <1>1, <1>2, AnswersAreFinite DEF AnswersLeft

LEMMA AnswersStep ==
  ASSUME CountInv, AllPut, [Next]_vars, NEW p \in Processes, exhausted[p], exhausted'[p]
  PROVE  \/ AnswersLeft(p)' < AnswersLeft(p)
         \/ UNCHANGED <<putting[p], work_q[p], fetching[p], done_q[p], pending[p], out[p]>>
<1>0. QueueTypes /\ out \in [Processes -> Nat] /\ pc[p] # "put"
  BY DEF CountInv, LedgerInv, ClaimInv, AllPut
<1> DEFINE Same ==
      UNCHANGED <<putting[p], work_q[p], fetching[p], done_q[p], pending[p], out[p]>>
<1>1. CASE UNCHANGED <<putting, work_q, fetching, done_q, pending, out>>
  BY <1>1
<1>2. ASSUME NEW u \in Urls, Expire(u) PROVE Same
  BY <1>1, <1>2 DEF Expire
<1>3. ASSUME NEW q \in Processes,
             SkipRefill(q) \/ MarkDone(q) \/ MarkError(q) \/ Start(q)
      PROVE  Same
  BY <1>1, <1>3 DEF SkipRefill, MarkDone, MarkError, Start
<1>4. ASSUME NEW q \in Processes \ {p}, Refill(q) \/ Put(q) \/ Drain(q) \/ PutLinks(q)
      PROVE  Same
  BY <1>0, <1>4 DEF Refill, Put, Drain, PutLinks, QueueTypes
<1>5. ASSUME NEW q \in Processes \ {p}, Crash(q) PROVE Same
  BY <1>0, <1>5 DEF Crash, QueueTypes
<1>6. ASSUME NEW q \in Processes \ {p}, NEW t \in Threads, Take(q, t) \/ Report(q, t)
      PROVE  Same
  BY <1>0, <1>6 DEF Take, Report, QueueTypes
<1>7. ~Refill(p) /\ ~Put(p)
  BY <1>0 DEF Refill, NeedsRefill, Put
<1>8. ~Crash(p)
  BY DEF Crash, AllPut
<1>9. ASSUME NEW t \in Threads, Take(p, t) \/ Report(p, t)
      PROVE  AnswersLeft(p)' < AnswersLeft(p)
  BY <1>9, TakeNears, ReportNears
<1>10. CASE UNCHANGED vars
  BY <1>1, <1>10 DEF vars
<1> QED
  BY <1>2, <1>3, <1>4, <1>5, <1>6, <1>7, <1>8, <1>9, <1>10, DrainNears, PutLinksNears
     DEF Next, Coordinate

\* From the moment a coordinator finds nothing to claim until it ends or crashes,
\* no step of it, of its threads or of any other process adds to what it waits
\* for, and every step that moves an answer brings it nearer.
THEOREM ExhaustedComesNearer == Spec => [][AnswersComeNearer]_vars
<1>1. CountInv' => (\A p \in Processes : AnswersLeft(p) \in Nat)'
  BY LeftIsNatural, PTL
<1>2. CountInv /\ AllPut /\ CountInv' /\ [Next]_vars => [AnswersComeNearer]_vars
  BY <1>1, LeftIsNatural, AnswersStep DEF AnswersComeNearer
<1> QED
  BY <1>2, AllPutAlways, CountInit, CountNext, PTL DEF Spec
=============================================================================
