--------------------------- MODULE EdgeStatsProofs ---------------------------
(***************************************************************************)
(* Proofs that the markers of EdgeStats account for every page whose         *)
(* counters are stale, for any pages, relations, workers and batch size,     *)
(* that the queries of a recompute are never refused, and that a marked page *)
(* never waits for nothing and every quiet step brings it nearer.            *)
(***************************************************************************)
EXTENDS EdgeStats, FiniteSetTheorems, WellFoundedInduction, TLAPS

\* A write of a relation changes what is counted only for its two sources.
LEMMA OthersCountTheSame ==
  ASSUME NEW e \in Edges, edges \in [Edges -> Relation \cup {Absent}],
         NEW after \in Relation \cup {Absent},
         edges' = [edges EXCEPT ![e] = after],
         NEW n \in Nodes, n \notin Sources(edges[e], after)
  PROVE  Counted(n)' = Counted(n)
<1>1. ASSUME NEW x \in {edges[e], after}
      PROVE  ~(x.stored /\ x.source = n)
  BY <1>1 DEF Sources
<1>2. ASSUME NEW f \in Edges
      PROVE  /\ (edges'[f].stored /\ edges'[f].source = n) <=>
                  (edges[f].stored /\ edges[f].source = n)
             /\ edges[f].stored /\ edges[f].source = n => edges'[f] = edges[f]
  <2>1. CASE f = e
    BY <1>1, <2>1
  <2>2. CASE f # e
    BY <2>2
  <2> QED
    BY <2>1, <2>2
<1> QED
  BY <1>2 DEF Counted

LEMMA CountedTyped ==
  ASSUME edges \in [Edges -> Relation \cup {Absent}], NEW n
  PROVE  Counted(n) \in Counters
<1>1. ASSUME NEW e \in Edges, edges[e].stored
      PROVE  edges[e] \in Relation
  BY <1>1 DEF Absent
<1> QED
  BY <1>1 DEF Counted, Counters

LEMMA InitIInv == Init => IInv
<1> SUFFICES ASSUME Init PROVE IInv
  OBVIOUS
<1>1. edges \in [Edges -> Relation \cup {Absent}]
  BY DEF Init
<1>2. TypeOK
  BY <1>1, CountedTyped DEF Init, TypeOK
<1>3. StaleIsMarked /\ ClaimedOnce /\ ReadsHold
  BY DEF Init, StaleIsMarked, Current, ClaimedOnce, ReadsHold, Busy, Resting
<1> QED
  BY <1>2, <1>3 DEF IInv

-----------------------------------------------------------------------------
(***************************************************************************)
(* Each step keeps the invariant.                                            *)
(***************************************************************************)
LEMMA WriteEdgeStep ==
  ASSUME IInv, NEW e \in Edges, WriteEdge(e)
  PROVE  IInv'
<1> PICK after \in Versions(e) :
      /\ edges' = [edges EXCEPT ![e] = after]
      /\ owed' = owed \cup Sources(edges[e], after)
  BY DEF WriteEdge
<1>0. UNCHANGED <<pages, stats, dirty, older, queue, intact, work, held, lost>>
  BY DEF WriteEdge, sweep
<1>1. edges \in [Edges -> Relation \cup {Absent}] /\ edges[e] \in Relation \cup {Absent}
  BY DEF IInv, TypeOK
<1>2. after \in Relation \cup {Absent}
  BY PagesAssumption DEF Versions, Relation
<1>3. Sources(edges[e], after) \subseteq Nodes
  <2>1. ASSUME NEW x \in {edges[e], after}, x.stored
        PROVE  x.source \in Nodes
    <3>1. x \in Relation
      BY <1>1, <1>2, <2>1 DEF Absent
    <3> QED
      BY <3>1 DEF Relation
  <2> QED
    BY <2>1 DEF Sources
<1>4. \A n \in Nodes : n \notin owed' => Counted(n)' = Counted(n)
  BY <1>1, <1>2, OthersCountTheSame
<1>5. owed \subseteq owed'
  OBVIOUS
<1>6. TypeOK'
  BY <1>0, <1>2, <1>3 DEF IInv, TypeOK
<1>7. StaleIsMarked'
  BY <1>0, <1>4, <1>5 DEF IInv, TypeOK, StaleIsMarked, Current
<1>8. ClaimedOnce'
  BY <1>0 DEF IInv, ClaimedOnce, Busy
<1>9. ReadsHold'
  <2> SUFFICES ASSUME NEW w \in Workers
               PROVE  LET n == work[w].node IN
                      /\ work[w].at = "read" =>
                           work[w].counted = Counted(n)' \/ Noticed(n)'
                      /\ work[w].at = "stored" => Current(n)' \/ Noticed(n)'
                      /\ work[w].at = "gone" => n \notin pages
    BY <1>0 DEF ReadsHold
  <2>1. work[w].at \in {"read", "stored", "gone"} => work[w].node \in Nodes
    BY DEF IInv, TypeOK, Resting
  <2> QED
    BY <1>0, <1>4, <1>5, <2>1 DEF IInv, ReadsHold, Noticed, Current
<1> QED
  BY <1>6, <1>7, <1>8, <1>9 DEF IInv

LEMMA RewriteKeeps ==
  ASSUME IInv, NEW n \in Nodes, Rewrite(n),
         owed' \in {owed, owed \ {n}},
         UNCHANGED <<edges, pages, stats, queue, work, held, lost>>
  PROVE  IInv'
<1>1. /\ dirty' = dirty \cup {n} /\ intact' = intact \ {n}
      /\ older' \subseteq older \cup (dirty \X {n})
  BY DEF Rewrite
<1>2. TypeOK'
  BY <1>1 DEF IInv, TypeOK
<1>3. StaleIsMarked'
  BY <1>1 DEF IInv, StaleIsMarked, Current, Counted
<1>4. ClaimedOnce'
  BY <1>1 DEF IInv, ClaimedOnce, Busy
<1>5. \A m : Noticed(m) => Noticed(m)'
  BY <1>1 DEF Noticed
<1>6. ReadsHold'
  BY <1>5 DEF IInv, ReadsHold, Current, Counted
<1> QED
  BY <1>2, <1>3, <1>4, <1>6 DEF IInv

LEMMA DeliverySteps ==
  ASSUME IInv, NEW n \in Nodes, Mark(n) \/ Redeliver(n) \/ LoseMark(n)
  PROVE  IInv'
<1>1. CASE Mark(n)
  BY <1>1, RewriteKeeps DEF Mark
<1>2. CASE Redeliver(n)
  BY <1>2, RewriteKeeps DEF Redeliver
<1>3. CASE LoseMark(n)
  <2>1. /\ owed' = owed \ {n} /\ lost' = lost \cup {n}
        /\ UNCHANGED <<edges, pages, stats, dirty, older, queue, intact, work,
                       held>>
    BY <1>3 DEF LoseMark, sweep
  <2>2. TypeOK'
    BY <2>1 DEF IInv, TypeOK
  <2>3. StaleIsMarked'
    BY <2>1 DEF IInv, StaleIsMarked, Current, Counted
  <2>4. ClaimedOnce'
    BY <2>1 DEF IInv, ClaimedOnce, Busy
  <2>5. ReadsHold'
    <3>1. \A m : Noticed(m) => Noticed(m)'
      BY <2>1 DEF Noticed
    <3> QED
      BY <2>1, <3>1 DEF IInv, ReadsHold, Current, Counted
  <2> QED
    BY <2>2, <2>3, <2>4, <2>5 DEF IInv
<1> QED
  BY <1>1, <1>2, <1>3

LEMMA StartSweepStep ==
  ASSUME IInv, StartSweep
  PROVE  IInv'
<1>1. PICK batch \in SUBSET dirty : queue' = batch /\ intact' = batch
  BY DEF StartSweep, OldestBatch
<1>2. UNCHANGED <<edges, pages, stats, owed, dirty, older, work, held, lost>>
  BY DEF StartSweep
<1>3. \A w \in Workers : work[w] = Resting
  BY DEF StartSweep, Swept
<1>4. TypeOK' /\ StaleIsMarked'
  <2>1. batch \subseteq Nodes
    BY <1>1 DEF IInv, TypeOK
  <2>2. TypeOK'
    BY <1>1, <1>2, <2>1 DEF IInv, TypeOK
  <2>3. StaleIsMarked'
    BY <1>2 DEF IInv, StaleIsMarked, Current, Counted
  <2> QED
    BY <2>2, <2>3
<1>5. ClaimedOnce' /\ ReadsHold'
  BY <1>1, <1>2, <1>3 DEF ClaimedOnce, ReadsHold, Busy, Resting
<1> QED
  BY <1>4, <1>5 DEF IInv

LEMMA RecomputeStep ==
  ASSUME IInv, NEW w \in Workers, Recompute(w)
  PROVE  IInv'
<1> PICK n \in queue :
      /\ queue' = queue \ {n}
      /\ work' = [work EXCEPT ![w] =
                    [at |-> "read", node |-> n, counted |-> Counted(n)]]
      /\ lost' = lost \ {n}
  BY DEF Recompute
<1>0. UNCHANGED <<edges, pages, stats, owed, dirty, older, intact, held>>
  BY DEF Recompute
<1> DEFINE mine == [at |-> "read", node |-> n, counted |-> Counted(n)]
<1>1. /\ mine.at = "read" /\ mine.node = n /\ mine.counted = Counted(n)
      /\ work[w].at = "rest" /\ n \in Nodes /\ n \in dirty
      /\ mine \in [at: {"read", "stored", "gone"}, node: Nodes,
                   counted: Counters]
  BY CountedTyped DEF Recompute, Resting, IInv, TypeOK, ClaimedOnce
<1>2. /\ work'[w] = mine
      /\ \A v \in Workers \ {w} : work'[v] = work[v]
      /\ DOMAIN work' = Workers
  BY DEF IInv, TypeOK
<1> HIDE DEF mine
<1>3. \A v \in Workers : work[v].at # "rest" => v # w /\ work[v].node # n
  BY <1>1 DEF IInv, ClaimedOnce, Busy
<1>4. TypeOK'
  <2>1. work' \in [Workers -> {Resting}
                     \cup [at: {"read", "stored", "gone"}, node: Nodes,
                           counted: Counters]]
    BY <1>1, <1>2 DEF IInv, TypeOK, mine
  <2> QED
    BY <1>0, <2>1 DEF IInv, TypeOK
<1>5. StaleIsMarked'
  BY <1>0, <1>1 DEF IInv, StaleIsMarked, Current, Counted
<1>6. ClaimedOnce'
  BY <1>0, <1>1, <1>2, <1>3 DEF IInv, ClaimedOnce, Busy
<1>7. ReadsHold'
  <2>1. Counted(n)' = Counted(n)
    BY <1>0 DEF Counted
  <2>2. \A m \in Nodes : m # n /\ Noticed(m) => Noticed(m)'
    BY <1>0 DEF Noticed
  <2>3. \A m : Counted(m)' = Counted(m) /\ Current(m)' = Current(m)
    BY <1>0 DEF Counted, Current
  <2>4. \A v \in Workers : work[v].at # "rest" => work[v].node \in Nodes
    BY DEF IInv, TypeOK, Resting
  <2> QED
    BY <1>0, <1>1, <1>2, <1>3, <2>2, <2>3, <2>4 DEF IInv, ReadsHold
<1> QED
  BY <1>4, <1>5, <1>6, <1>7 DEF IInv

LEMMA StoreStatsStep ==
  ASSUME IInv, NEW w \in Workers, StoreStats(w)
  PROVE  IInv'
<1> PICK n : n = work[w].node
  OBVIOUS
<1> DEFINE after == IF n \in pages THEN "stored" ELSE "gone"
<1>0. UNCHANGED <<edges, pages, owed, dirty, older, queue, intact, held, lost>>
  BY DEF StoreStats
<1>1. /\ work[w].at = "read"
      /\ work' = [work EXCEPT ![w].at = after]
      /\ stats' = IF n \in pages THEN [stats EXCEPT ![n] = work[w].counted]
                  ELSE stats
  BY DEF StoreStats
<1>2. work[w] \in [at: {"read", "stored", "gone"}, node: Nodes,
                  counted: Counters]
  BY <1>1 DEF IInv, TypeOK, Resting
<1>3. /\ work'[w].at = after /\ work'[w].node = n
      /\ work'[w] \in [at: {"read", "stored", "gone"}, node: Nodes,
                       counted: Counters]
      /\ \A v \in Workers \ {w} : work'[v] = work[v]
      /\ DOMAIN work' = Workers
  BY <1>1, <1>2 DEF IInv, TypeOK
<1>4. TypeOK'
  <2>1. work' \in [Workers -> {Resting}
                     \cup [at: {"read", "stored", "gone"}, node: Nodes,
                           counted: Counters]]
    BY <1>1, <1>3 DEF IInv, TypeOK
  <2>2. stats' \in [Nodes -> Counters]
    BY <1>1, <1>2 DEF IInv, TypeOK
  <2> QED
    BY <1>0, <2>1, <2>2 DEF IInv, TypeOK
<1>5. \A m : Counted(m)' = Counted(m) /\ Noticed(m)' = Noticed(m)
  BY <1>0 DEF Counted, Noticed
<1>6. n \in Nodes /\ n \in dirty
  BY <1>1, <1>2 DEF IInv, ClaimedOnce, Busy
<1>7. StaleIsMarked'
  <2>1. \A m \in Nodes : m # n => Current(m)' = Current(m)
    BY <1>1, <1>5 DEF Current, IInv, TypeOK
  <2> QED
    BY <1>0, <1>6, <2>1 DEF IInv, TypeOK, StaleIsMarked
<1>8. ClaimedOnce'
  BY <1>0, <1>1, <1>3 DEF IInv, ClaimedOnce, Busy
<1>9. ReadsHold'
  <2>1. n \in pages => Current(n)' \/ Noticed(n)'
    <3>1. ASSUME n \in pages PROVE stats'[n] = work[w].counted
      BY <1>1, <1>6, <3>1 DEF IInv, TypeOK
    <3>2. work[w].counted = Counted(n) \/ Noticed(n)
      BY <1>1 DEF IInv, ReadsHold
    <3> QED
      BY <1>5, <3>1, <3>2 DEF Current
  <2>2. \A v \in Workers \ {w} : work[v].at # "rest" =>
           work[v].node # n /\ work[v].node \in Nodes
    BY <1>1 DEF IInv, TypeOK, ClaimedOnce, Busy, Resting
  <2>3. \A m \in Nodes : m # n => Current(m)' = Current(m)
    BY <1>1, <1>5 DEF Current, IInv, TypeOK
  <2> QED
    BY <1>0, <1>3, <1>5, <2>1, <2>2, <2>3 DEF IInv, ReadsHold
<1> QED
  BY <1>4, <1>7, <1>8, <1>9 DEF IInv

LEMMA DropMarkerStep ==
  ASSUME IInv, NEW w \in Workers, DropMarker(w)
  PROVE  IInv'
<1> PICK n : n = work[w].node
  OBVIOUS
<1>0. UNCHANGED <<edges, pages, stats, owed, queue, held, lost>>
  BY DEF DropMarker
<1>1. /\ work[w].at \in {"stored", "gone"} /\ n \in Nodes
      /\ work' = [work EXCEPT ![w] = Resting]
      /\ intact' = intact \ {n}
      /\ \/ /\ MayDrop(w) /\ dirty' = dirty \ {n}
            /\ older' = {pair \in older : pair[1] # n /\ pair[2] # n}
         \/ ~MayDrop(w) /\ UNCHANGED <<dirty, older>>
  BY DEF DropMarker, IInv, TypeOK, Resting
<1>2. /\ work'[w] = Resting
      /\ \A v \in Workers \ {w} : work'[v] = work[v]
      /\ DOMAIN work' = Workers
  BY <1>1 DEF IInv, TypeOK
<1>3. TypeOK'
  BY <1>0, <1>1 DEF IInv, TypeOK
<1>4. \A m : /\ Counted(m)' = Counted(m) /\ Current(m)' = Current(m)
             /\ Noticed(m) => Noticed(m)'
  BY <1>0, <1>1 DEF Counted, Current, Noticed
<1>5. StaleIsMarked'
  <2>1. n \in pages /\ MayDrop(w) => Current(n) \/ n \in owed \cup lost
    BY <1>1 DEF IInv, ReadsHold, MayDrop, Noticed
  <2> QED
    BY <1>0, <1>1, <1>4, <2>1 DEF IInv, StaleIsMarked
<1>6. ClaimedOnce'
  <2>1. \A v \in Workers \ {w} : Busy(v) => work[v].node # n
    BY <1>1 DEF IInv, ClaimedOnce, Busy
  <2>2. n \notin queue
    BY <1>1 DEF IInv, ClaimedOnce, Busy
  <2> QED
    BY <1>0, <1>1, <1>2, <2>1, <2>2 DEF IInv, ClaimedOnce, Busy, Resting
<1>7. ReadsHold'
  BY <1>0, <1>2, <1>4 DEF IInv, ReadsHold, Resting
<1> QED
  BY <1>3, <1>5, <1>6, <1>7 DEF IInv

LEMMA FailureSteps ==
  ASSUME IInv, (\E w \in Workers : FailRecompute(w)) \/ TimeOut
  PROVE  IInv'
<1> DEFINE doings == {Resting} \cup [at: {"read", "stored", "gone"},
                                    node: Nodes, counted: Counters]
<1>0. UNCHANGED <<edges, pages, stats, owed, dirty, older, held, lost>>
  BY DEF TimeOut, FailRecompute
<1>1. /\ queue' \subseteq queue /\ intact' \subseteq intact
      /\ work' \in [Workers -> doings]
      /\ \A v \in Workers : work'[v] \in {work[v], Resting}
  BY DEF TimeOut, FailRecompute, IInv, TypeOK
<1>2. TypeOK' /\ StaleIsMarked'
  <2>1. TypeOK'
    BY <1>0, <1>1 DEF IInv, TypeOK
  <2>2. StaleIsMarked'
    BY <1>0 DEF IInv, StaleIsMarked, Current, Counted
  <2> QED
    BY <2>1, <2>2
<1>3. ClaimedOnce'
  BY <1>0, <1>1 DEF IInv, ClaimedOnce, Busy, Resting
<1>4. \A m : /\ Counted(m)' = Counted(m) /\ Current(m)' = Current(m)
             /\ Noticed(m) => Noticed(m)'
  BY <1>0, <1>1 DEF Counted, Current, Noticed
<1>5. ReadsHold'
  BY <1>0, <1>1, <1>4 DEF IInv, ReadsHold, Resting
<1> QED
  BY <1>2, <1>3, <1>5 DEF IInv

LEMMA PageSteps ==
  ASSUME IInv, NEW n \in Nodes, ReadPage(n) \/ WritePage(n) \/ DeletePage(n)
  PROVE  IInv'
<1>1. CASE ReadPage(n)
  <2>1. UNCHANGED <<edges, pages, stats, owed, dirty, older, queue, intact,
                    work, lost>>
    BY <1>1 DEF ReadPage, sweep
  <2>2. TypeOK'
    BY <1>1, <2>1 DEF ReadPage, IInv, TypeOK
  <2> QED
    BY <2>1, <2>2 DEF IInv, StaleIsMarked, ClaimedOnce, ReadsHold, Busy,
                      Noticed, Current, Counted
<1>2. CASE WritePage(n)
  <2>1. /\ UNCHANGED <<edges, pages, owed, dirty, older, queue, intact, work>>
        /\ stats' = [stats EXCEPT ![n] = held[n].counters]
        /\ lost' = IF held[n].counters = stats[n] THEN lost ELSE lost \cup {n}
    BY <1>2 DEF WritePage, sweep
  <2>2. TypeOK'
    <3>1. held[n].counters \in Counters
      <4>1. held[n] \in {NotHeld} \cup [read: {TRUE}, counters: Counters]
        BY DEF IInv, TypeOK
      <4>2. held[n] # NotHeld
        BY <1>2 DEF WritePage, NotHeld
      <4> QED
        BY <4>1, <4>2
    <3>2. stats' \in [Nodes -> Counters] /\ lost' \subseteq Nodes
      BY <2>1, <3>1 DEF IInv, TypeOK
    <3>3. held' = [held EXCEPT ![n] = NotHeld]
      BY <1>2 DEF WritePage
    <3> QED
      BY <2>1, <3>2, <3>3 DEF IInv, TypeOK
  <2>3. \A m \in Nodes : m # n => Current(m)' = Current(m)
    BY <2>1 DEF IInv, TypeOK, Current, Counted
  <2>4. Current(n)' = Current(n) \/ n \in lost'
    BY <2>1 DEF IInv, TypeOK, Current, Counted
  <2>5. lost \subseteq lost'
    BY <2>1
  <2>6. StaleIsMarked'
    BY <2>1, <2>3, <2>4, <2>5 DEF IInv, TypeOK, StaleIsMarked
  <2>7. ClaimedOnce'
    BY <2>1 DEF IInv, ClaimedOnce, Busy
  <2>8. \A m : Counted(m)' = Counted(m) /\ (Noticed(m) => Noticed(m)')
    BY <2>1, <2>5 DEF Counted, Noticed
  <2>9. \A w \in Workers : work[w].at # "rest" => work[w].node \in Nodes
    BY DEF IInv, TypeOK, Resting
  <2>10. \A m : m \in lost' => Noticed(m)'
    BY DEF Noticed
  <2>11. ReadsHold'
    BY <2>1, <2>3, <2>4, <2>8, <2>9, <2>10 DEF IInv, ReadsHold
  <2> QED
    BY <2>2, <2>6, <2>7, <2>11 DEF IInv
<1>3. CASE DeletePage(n)
  <2>1. /\ UNCHANGED <<edges, stats, owed, dirty, older, queue, intact, work,
                       held, lost>>
        /\ pages' \subseteq pages
    BY <1>3 DEF DeletePage, sweep
  <2>2. TypeOK'
    BY <2>1 DEF IInv, TypeOK
  <2>3. StaleIsMarked'
    BY <2>1 DEF IInv, StaleIsMarked, Current, Counted
  <2>4. ClaimedOnce'
    BY <2>1 DEF IInv, ClaimedOnce, Busy
  <2>5. \A m : /\ Counted(m)' = Counted(m) /\ Current(m)' = Current(m)
               /\ Noticed(m)' = Noticed(m)
    BY <2>1 DEF Counted, Current, Noticed
  <2>6. ReadsHold'
    BY <2>1, <2>5 DEF IInv, ReadsHold
  <2> QED
    BY <2>2, <2>3, <2>4, <2>6 DEF IInv
<1> QED
  BY <1>1, <1>2, <1>3

LEMMA StutterStep ==
  ASSUME IInv, UNCHANGED vars
  PROVE  IInv'
<1>1. UNCHANGED <<edges, pages, stats, owed, dirty, older, queue, intact, work,
                  held, lost>>
  BY DEF vars
<1>2. TypeOK'
  BY <1>1 DEF IInv, TypeOK
<1>3. \A m : /\ Counted(m)' = Counted(m) /\ Current(m)' = Current(m)
             /\ Noticed(m)' = Noticed(m)
  BY <1>1 DEF Counted, Current, Noticed
<1>4. StaleIsMarked' /\ ReadsHold'
  BY <1>1, <1>3 DEF IInv, StaleIsMarked, ReadsHold
<1>5. ClaimedOnce'
  BY <1>1 DEF IInv, ClaimedOnce, Busy
<1> QED
  BY <1>2, <1>4, <1>5 DEF IInv

LEMMA StepKeepsIInv == IInv /\ [Next]_vars => IInv'
<1> SUFFICES ASSUME IInv, [Next]_vars PROVE IInv'
  OBVIOUS
<1>1. ASSUME NEW e \in Edges, WriteEdge(e) PROVE IInv'
  BY <1>1, WriteEdgeStep
<1>2. ASSUME NEW n \in Nodes, Mark(n) \/ Redeliver(n) \/ LoseMark(n)
      PROVE  IInv'
  BY <1>2, DeliverySteps
<1>3. ASSUME NEW n \in Nodes, ReadPage(n) \/ WritePage(n) \/ DeletePage(n)
      PROVE  IInv'
  BY <1>3, PageSteps
<1>4. ASSUME NEW w \in Workers, Recompute(w) PROVE IInv'
  BY <1>4, RecomputeStep
<1>5. ASSUME NEW w \in Workers, StoreStats(w) PROVE IInv'
  BY <1>5, StoreStatsStep
<1>6. ASSUME NEW w \in Workers, DropMarker(w) PROVE IInv'
  BY <1>6, DropMarkerStep
<1>7. CASE (\E w \in Workers : FailRecompute(w)) \/ TimeOut
  BY <1>7, FailureSteps
<1>8. CASE StartSweep
  BY <1>8, StartSweepStep
<1>9. CASE UNCHANGED vars
  BY <1>9, StutterStep
<1> QED
  BY <1>1, <1>2, <1>3, <1>4, <1>5, <1>6, <1>7, <1>8, <1>9, PagesAssumption
     DEF Next

-----------------------------------------------------------------------------
\* The protocol's invariant holds in every reachable state.
THEOREM Invariance == Spec => []IInv
  BY InitIInv, StepKeepsIInv, PTL DEF Spec

\* Whatever the order of writes, deliveries, recomputes, failures and
\* timeouts, counters, markers and claims keep their shape.
THEOREM Typing == Spec => []TypeOK
<1>1. IInv => TypeOK
  BY DEF IInv
<1> QED
  BY <1>1, Invariance, PTL

\* Whatever the order of writes, deliveries, recomputes, failures and
\* timeouts, a page with stale counters is marked or about to be, or its
\* counters were lost to one of the two holes of the code.
THEOREM StaleMarked == Spec => []StaleIsMarked
<1>1. IInv => StaleIsMarked
  BY DEF IInv
<1> QED
  BY <1>1, Invariance, PTL

\* No two workers recompute one page at the same time, and a page that is being
\* recomputed stays marked until its worker is done.
THEOREM ClaimsAreApart == Spec => []ClaimedOnce
<1>1. IInv => ClaimedOnce
  BY DEF IInv
<1> QED
  BY <1>1, Invariance, PTL

LEMMA ChunkFits ==
  /\ TargetsPerQuery \in Nat \ {0}
  /\ TargetsPerQuery * TransitiveTypes <= MaxDisjunctions
  BY DisjunctionsAssumption, SMTT(30) DEF TargetsPerQuery

\* However many relations a page has and whatever the limits are, Firestore
\* never refuses the query a recompute makes, and a query holds one target at
\* least, so that the recompute comes to an end.
THEOREM QueriesAreAccepted ==
  ASSUME NEW targets, IsFiniteSet(targets)
  PROVE  ~Refused(targets) /\ TargetsPerQuery > 0
<1> DEFINE most == IF Cardinality(targets) < TargetsPerQuery
                   THEN Cardinality(targets) ELSE TargetsPerQuery
<1>1. Cardinality(targets) \in Nat
  BY FS_CardinalityType
<1>2. most \in Nat /\ most <= TargetsPerQuery /\ TargetsPerQuery \in Nat
  BY <1>1, ChunkFits
<1>3. TransitiveTypes \in Nat /\ MaxDisjunctions \in Nat
  BY DisjunctionsAssumption
<1>4. most * TransitiveTypes <= TargetsPerQuery * TransitiveTypes
  <2> HIDE DEF most
  <2>1. \A a, b, c \in Nat : a <= b => a * c <= b * c
    BY SMTT(30)
  <2> QED
    BY <1>2, <1>3, <2>1
<1>5. most * TransitiveTypes <= MaxDisjunctions
  <2>1. most * TransitiveTypes \in Nat /\ TargetsPerQuery * TransitiveTypes \in Nat
    BY <1>2, <1>3
  <2> HIDE DEF most
  <2> QED
    BY <1>3, <1>4, <2>1, ChunkFits
<1> QED
  BY <1>2, <1>3, <1>5, ChunkFits DEF Refused

-----------------------------------------------------------------------------
(***************************************************************************)
(* Why counters settle.  QuietSettles needs Fairness, which TLC checks on an *)
(* instance.  What that fairness brings about is proved here: while a page   *)
(* is marked, or owed a mark, a step of the protocol can be taken, and every *)
(* step that is not Interference leaves less to do.  When nothing is left,   *)
(* StaleIsMarked says that the counters are current.                         *)
(***************************************************************************)
At(places) == {w \in Workers : work[w].at \in places}

\* A mark to deliver, a marker to claim, to take, to store and to drop.  A claim
\* that was broken counts twice: its marker is left to the next sweep.
WorkLeft ==
  5 * Cardinality(owed) + 4 * Cardinality(dirty \ intact) + 3 * Cardinality(queue)
    + 2 * Cardinality(At({"read"})) + Cardinality(At({"stored", "gone"}))

ComesNearer ==
  \/ Interference
  \/ WorkLeft \in Nat /\ WorkLeft' \in Nat /\ WorkLeft' < WorkLeft
  \/ UNCHANGED <<edges, stats, owed, markers, queue, work, lost>>

\* The guards of Mark, StartSweep, Recompute, StoreStats and DropMarker.
CanGoOn ==
  \/ owed # {}
  \/ Swept /\ dirty # {} /\ OldestBatch # {}
  \/ queue # {} /\ \E w \in Workers : work[w] = Resting
  \/ \E w \in Workers : work[w].at = "read" /\ ~Refused(TargetsOf(work[w].counted))
  \/ \E w \in Workers : work[w].at \in {"stored", "gone"}

NoneWaits == owed \cup dirty # {} => CanGoOn

\* A standing claim is in the hands of the sweep.
ClaimsInHand ==
  \A n \in intact : n \in queue \/ \E w \in Workers : Busy(w) /\ work[w].node = n

\* Any two markers have an order.
OlderOrders ==
  /\ \A m, n \in dirty : m = n \/ <<m, n>> \in older \/ <<n, m>> \in older
  /\ \A m \in dirty : <<m, m>> \notin older
  /\ \A m, n, k \in dirty : <<m, n>> \in older /\ <<n, k>> \in older => <<m, k>> \in older

SweepInv == ClaimsInHand /\ OlderOrders

LEMMA RewriteOrders ==
  ASSUME TypeOK, OlderOrders, NEW n, Rewrite(n)
  PROVE  OlderOrders'
<1>1. /\ dirty' = dirty \cup {n}
      /\ \A m, k : <<m, k>> \in older' <=>
           \/ <<m, k>> \in older /\ m # n /\ k # n
           \/ k = n /\ m \in dirty \ {n}
  <2>1. /\ dirty' = dirty \cup {n}
        /\ older' = {pair \in older : pair[1] # n /\ pair[2] # n}
                      \cup {<<m, n>> : m \in dirty \ {n}}
    BY DEF Rewrite
  <2> QED
    BY <2>1
<1> QED
  BY <1>1 DEF OlderOrders, TypeOK

LEMMA DropOrders ==
  ASSUME OlderOrders, NEW n, dirty' = dirty \ {n},
         older' = {pair \in older : pair[1] # n /\ pair[2] # n}
  PROVE  OlderOrders'
<1>1. \A m, k : <<m, k>> \in older' <=> <<m, k>> \in older /\ m # n /\ k # n
  OBVIOUS
<1> QED
  BY <1>1 DEF OlderOrders

LEMMA SameOrders ==
  ASSUME OlderOrders, UNCHANGED <<dirty, older>>
  PROVE  OlderOrders'
  BY DEF OlderOrders

LEMMA SweepInvStep == IInv /\ SweepInv /\ [Next]_vars => SweepInv'
<1> SUFFICES ASSUME IInv, SweepInv, [Next]_vars PROVE SweepInv'
  OBVIOUS
<1> USE DEF SweepInv
<1>0. TypeOK /\ ClaimedOnce
  BY DEF IInv
<1>1. ASSUME NEW n \in Nodes, Mark(n) \/ Redeliver(n) PROVE SweepInv'
  <2>1. Rewrite(n) /\ UNCHANGED <<queue, work>>
    BY <1>1 DEF Mark, Redeliver
  <2>2. OlderOrders'
    BY <1>0, <2>1, RewriteOrders
  <2>3. ClaimsInHand'
    BY <2>1 DEF Rewrite, ClaimsInHand, Busy
  <2> QED
    BY <2>2, <2>3
<1>2. ASSUME NEW w \in Workers, Recompute(w) PROVE SweepInv'
  <2> PICK n \in queue :
        /\ queue' = queue \ {n}
        /\ work' = [work EXCEPT ![w] =
                      [at |-> "read", node |-> n, counted |-> Counted(n)]]
    BY <1>2 DEF Recompute
  <2>1. UNCHANGED <<dirty, older, intact>> /\ work[w] = Resting
    BY <1>2 DEF Recompute
  <2>2. /\ work'[w].at = "read" /\ work'[w].node = n
        /\ \A v \in Workers \ {w} : work'[v] = work[v]
    BY <1>0 DEF TypeOK
  <2>3. ~Busy(w)
    BY <2>1 DEF Busy, Resting
  <2>4. ClaimsInHand'
    BY <2>1, <2>2, <2>3 DEF ClaimsInHand, Busy
  <2> QED
    BY <2>1, <2>4, SameOrders
<1>3. ASSUME NEW w \in Workers, StoreStats(w) PROVE SweepInv'
  <2> DEFINE after == IF work[w].node \in pages THEN "stored" ELSE "gone"
  <2>1. /\ UNCHANGED <<dirty, older, intact, queue>> /\ work[w].at = "read"
        /\ work' = [work EXCEPT ![w].at = after]
    BY <1>3 DEF StoreStats
  <2>2. work[w] \in [at: {"read", "stored", "gone"}, node: Nodes, counted: Counters]
    BY <1>0, <2>1 DEF TypeOK, Resting
  <2>3. /\ work'[w].at = after /\ work'[w].node = work[w].node
        /\ \A v \in Workers \ {w} : work'[v] = work[v]
    BY <1>0, <2>1, <2>2 DEF TypeOK
  <2>4. ClaimsInHand'
    BY <2>1, <2>3 DEF ClaimsInHand, Busy
  <2> QED
    BY <2>1, <2>4, SameOrders
<1>4. ASSUME NEW w \in Workers, DropMarker(w) PROVE SweepInv'
  <2> PICK n : n = work[w].node
    OBVIOUS
  <2>1. /\ work' = [work EXCEPT ![w] = Resting]
        /\ intact' = intact \ {n} /\ queue' = queue
        /\ \/ /\ dirty' = dirty \ {n}
              /\ older' = {pair \in older : pair[1] # n /\ pair[2] # n}
           \/ UNCHANGED <<dirty, older>>
    BY <1>4 DEF DropMarker
  <2>2. OlderOrders'
    BY <2>1, DropOrders, SameOrders
  <2>3. ClaimsInHand'
    BY <1>0, <2>1 DEF ClaimsInHand, Busy, TypeOK
  <2> QED
    BY <2>2, <2>3
<1>5. ASSUME NEW w \in Workers, FailRecompute(w) PROVE SweepInv'
  <2>1. /\ work' = [work EXCEPT ![w] = Resting]
        /\ intact' = intact \ {work[w].node} /\ UNCHANGED <<queue, dirty, older>>
    BY <1>5 DEF FailRecompute
  <2>2. ClaimsInHand'
    BY <1>0, <2>1 DEF ClaimsInHand, Busy, TypeOK
  <2> QED
    BY <2>1, <2>2, SameOrders
<1>6. CASE TimeOut \/ StartSweep
  <2>1. intact' = {} \/ intact' = queue'
    BY <1>6 DEF TimeOut, StartSweep
  <2>2. UNCHANGED <<dirty, older>>
    BY <1>6 DEF TimeOut, StartSweep
  <2> QED
    BY <2>1, <2>2, SameOrders DEF ClaimsInHand
<1>7. CASE UNCHANGED <<dirty, older, intact, queue, work>>
  <2>1. ClaimsInHand'
    BY <1>7 DEF ClaimsInHand, Busy
  <2> QED
    BY <1>7, <2>1, SameOrders
<1>8. ASSUME NEW n \in Nodes, LoseMark(n) \/ ReadPage(n) \/ WritePage(n) \/ DeletePage(n)
      PROVE  SweepInv'
  BY <1>7, <1>8 DEF LoseMark, ReadPage, WritePage, DeletePage, sweep
<1>9. ASSUME NEW e \in Edges, WriteEdge(e) PROVE SweepInv'
  BY <1>7, <1>9 DEF WriteEdge, sweep
<1>10. CASE UNCHANGED vars
  BY <1>7, <1>10 DEF vars
<1> QED
  BY <1>1, <1>2, <1>3, <1>4, <1>5, <1>6, <1>8, <1>9, <1>10, PagesAssumption DEF Next

(***************************************************************************)
(* A sweep finds a batch: among finitely many markers in an order there are  *)
(* oldest ones, as many as it claims.                                        *)
(***************************************************************************)
LEMMA LeastNatural ==
  ASSUME NEW T, T \subseteq Nat, T # {}
  PROVE  \E x \in T : \A y \in T : x <= y
<1> DEFINE Less == OpToRel(<, Nat)
<1>1. \A x, y \in Nat : x < y => <<x, y>> \in Less
  BY DEF OpToRel
<1>2. IsWellFoundedOn(Less, Nat)
  BY NatLessThanWellFounded
<1> HIDE DEF Less
<1>3. PICK x \in T : \A y \in T : <<y, x>> \notin Less
  BY <1>2, WFMin
<1>4. \A y \in T : y \in Nat /\ x \in Nat /\ ~(y < x)
  BY <1>1, <1>3
<1> QED
  BY <1>3, <1>4

\* Fewest markers are older than the oldest.
LEMMA OldestMarker ==
  ASSUME OlderOrders, IsFiniteSet(dirty), NEW S \in SUBSET dirty, S # {}
  PROVE  \E x \in S : \A y \in S \ {x} : <<x, y>> \in older
<1> DEFINE Before(x) == {y \in dirty : <<y, x>> \in older}
           Counts == {Cardinality(Before(x)) : x \in S}
<1>1. \A x : IsFiniteSet(Before(x)) /\ Cardinality(Before(x)) \in Nat
  BY FS_Subset, FS_CardinalityType
<1> HIDE DEF Before
<1>2. PICK k \in Counts : \A j \in Counts : k <= j
  <2>1. Counts \subseteq Nat /\ Counts # {}
    BY <1>1
  <2> HIDE DEF Counts
  <2> QED
    BY <2>1, LeastNatural
<1>3. PICK x \in S : k = Cardinality(Before(x))
  OBVIOUS
<1>4. ASSUME NEW y \in S \ {x}, <<y, x>> \in older PROVE FALSE
  <2>1. Before(y) \subseteq Before(x) /\ y \in Before(x) /\ y \notin Before(y)
    BY <1>4 DEF Before, OlderOrders
  <2>2. Cardinality(Before(y)) <= Cardinality(Before(x))
    BY <1>1, <2>1, FS_Subset
  <2>3. Cardinality(Before(y)) # Cardinality(Before(x))
    BY <1>1, <2>1, FS_Subset
  <2>4. Cardinality(Before(x)) <= Cardinality(Before(y))
    BY <1>2, <1>3
  <2> QED
    BY <1>1, <2>2, <2>3, <2>4
<1> QED
  BY <1>3, <1>4 DEF OlderOrders

LEMMA BatchExists ==
  ASSUME OlderOrders, IsFiniteSet(dirty)
  PROVE  OldestBatch # {}
<1> DEFINE First(B) == \A m \in B, n \in dirty \ B : <<m, n>> \in older
           Firsts == {B \in SUBSET dirty : Cardinality(B) <= SweepBatch /\ First(B)}
           Gaps == {SweepBatch - Cardinality(B) : B \in Firsts}
<1>1. \A B \in SUBSET dirty : IsFiniteSet(B) /\ Cardinality(B) \in Nat
  BY FS_Subset, FS_CardinalityType
<1>2. SweepBatch \in Nat \ {0}
  BY BatchAssumption
<1>3. {} \in Firsts
  BY <1>2, FS_EmptySet
<1>4. Gaps \subseteq Nat /\ Gaps # {}
  BY <1>1, <1>2, <1>3
<1>5. PICK g \in Gaps : \A h \in Gaps : g <= h
  <2> HIDE DEF Gaps
  <2> QED
    BY <1>4, LeastNatural
<1>6. PICK B \in Firsts : g = SweepBatch - Cardinality(B)
  OBVIOUS
<1>7. ASSUME B # dirty, Cardinality(B) # SweepBatch PROVE FALSE
  <2>1. PICK x \in dirty \ B : \A y \in (dirty \ B) \ {x} : <<x, y>> \in older
    <3>1. dirty \ B \in SUBSET dirty /\ dirty \ B # {}
      BY <1>6, <1>7
    <3> QED
      BY <3>1, OldestMarker
  <2>2. Cardinality(B \cup {x}) = Cardinality(B) + 1
    BY <1>1, <1>6, <2>1, FS_AddElement
  <2>3. First(B \cup {x})
    BY <1>6, <2>1
  <2>4. B \cup {x} \in Firsts
    BY <1>1, <1>2, <1>6, <1>7, <2>1, <2>2, <2>3
  <2>5. g <= SweepBatch - Cardinality(B \cup {x})
    <3>1. SweepBatch - Cardinality(B \cup {x}) \in Gaps
      BY <2>4
    <3> HIDE DEF Gaps
    <3> QED
      BY <1>5, <3>1
  <2>6. Cardinality(B) \in Nat /\ SweepBatch \in Nat
    BY <1>1, <1>2, <1>6
  <2> HIDE DEF Gaps, Firsts
  <2> QED
    BY <1>6, <2>2, <2>5, <2>6
<1> QED
  BY <1>6, <1>7 DEF OldestBatch

\* What is counted of a page has finitely many targets, so its query is accepted.
LEMMA TargetsAccepted ==
  ASSUME IsFiniteSet(Edges), NEW counted \in Counters
  PROVE  ~Refused(TargetsOf(counted))
<1> DEFINE targets == {Target[e] : e \in Edges}
           target == [e \in Edges |-> Target[e]]
<1>1. target \in Surjection(Edges, targets)
  BY DEF Surjection
<1>2. IsFiniteSet(targets)
  BY <1>1, FS_Surjection
<1>3. TargetsOf(counted) \subseteq targets
  BY DEF TargetsOf, Counters
<1>4. IsFiniteSet(TargetsOf(counted))
  BY <1>2, <1>3, FS_Subset
<1> QED
  BY <1>4, QueriesAreAccepted

LEMMA SomethingCanGoOn ==
  ASSUME IInv, SweepInv, IsFiniteSet(Nodes), IsFiniteSet(Edges), Workers # {}
  PROVE  NoneWaits
<1> SUFFICES ASSUME owed = {}, dirty # {} PROVE CanGoOn
  BY DEF NoneWaits, CanGoOn
<1>1. TypeOK /\ IsFiniteSet(dirty)
  BY FS_Subset DEF IInv, TypeOK
<1>2. CASE Swept
  BY <1>1, <1>2, BatchExists DEF CanGoOn, SweepInv
<1>3. ASSUME NEW w \in Workers, work[w] # Resting PROVE CanGoOn
  <2>1. work[w] \in [at: {"read", "stored", "gone"}, node: Nodes, counted: Counters]
    BY <1>1, <1>3 DEF TypeOK
  <2>2. CASE work[w].at = "read"
    BY <2>1, <2>2, TargetsAccepted DEF CanGoOn
  <2>3. CASE work[w].at \in {"stored", "gone"}
    BY <2>3 DEF CanGoOn
  <2> QED
    BY <2>1, <2>2, <2>3
<1>4. CASE queue # {} /\ \A w \in Workers : work[w] = Resting
  BY <1>4 DEF CanGoOn
<1> QED
  BY <1>2, <1>3, <1>4 DEF Swept

\* However large the backlog and whatever has failed, a page marked or owed a
\* mark never waits for nothing: an event can be delivered, the scheduler can
\* start a sweep that claims something (sweepEdgeStats), or a worker go on.
THEOREM MarkersNeverWait ==
  ASSUME IsFiniteSet(Nodes), IsFiniteSet(Edges), Workers # {}
  PROVE  Spec => []NoneWaits
<1>1. Init => SweepInv
  BY DEF Init, SweepInv, ClaimsInHand, OlderOrders
<1>2. Spec => []SweepInv
  BY <1>1, SweepInvStep, Invariance, PTL DEF Spec
<1>3. IInv /\ SweepInv => NoneWaits
  BY SomethingCanGoOn
<1> QED
  BY <1>2, <1>3, Invariance, PTL

LEMMA WorkIsNatural ==
  ASSUME TypeOK, IsFiniteSet(Nodes), IsFiniteSet(Workers)
  PROVE  /\ IsFiniteSet(owed) /\ IsFiniteSet(dirty) /\ IsFiniteSet(dirty \ intact)
         /\ IsFiniteSet(queue) /\ \A places : IsFiniteSet(At(places))
         /\ Cardinality(owed) \in Nat /\ Cardinality(dirty \ intact) \in Nat
         /\ Cardinality(queue) \in Nat /\ \A places : Cardinality(At(places)) \in Nat
         /\ WorkLeft \in Nat
<1>1. /\ IsFiniteSet(owed) /\ IsFiniteSet(dirty) /\ IsFiniteSet(dirty \ intact)
      /\ IsFiniteSet(queue)
  BY FS_Subset DEF TypeOK
<1>2. \A places : IsFiniteSet(At(places))
  BY FS_Subset DEF At
<1>3. /\ Cardinality(owed) \in Nat /\ Cardinality(dirty \ intact) \in Nat
      /\ Cardinality(queue) \in Nat /\ \A places : Cardinality(At(places)) \in Nat
  BY <1>1, <1>2, FS_CardinalityType
<1> QED
  BY <1>1, <1>2, <1>3 DEF WorkLeft

\* What each step of the protocol leaves to do.
LEMMA WorkGetsLess ==
  ASSUME IInv, SweepInv, IsFiniteSet(Nodes), IsFiniteSet(Workers), Next
  PROVE  \/ Interference
         \/ WorkLeft' < WorkLeft
         \/ UNCHANGED <<edges, stats, owed, markers, queue, work, lost>>
<1> DEFINE a == Cardinality(owed)
           b == Cardinality(dirty \ intact)
           c == Cardinality(queue)
           d == Cardinality(At({"read"}))
           e == Cardinality(At({"stored", "gone"}))
<1>1. TypeOK /\ ClaimedOnce
  BY DEF IInv
<1>2. a \in Nat /\ b \in Nat /\ c \in Nat /\ d \in Nat /\ e \in Nat
  BY <1>1, WorkIsNatural
<1>3. /\ IsFiniteSet(owed) /\ IsFiniteSet(dirty) /\ IsFiniteSet(dirty \ intact)
      /\ IsFiniteSet(queue) /\ \A places : IsFiniteSet(At(places))
  BY <1>1, WorkIsNatural
<1>4. WorkLeft = 5 * a + 4 * b + 3 * c + 2 * d + e
  BY DEF WorkLeft
<1>5. ASSUME NEW n \in Nodes, Mark(n) PROVE WorkLeft' < WorkLeft
  <2>1. /\ n \in owed /\ owed' = owed \ {n} /\ UNCHANGED <<queue, work>>
        /\ dirty' \ intact' = (dirty \ intact) \cup {n}
    BY <1>5 DEF Mark, Rewrite
  <2>2. Cardinality(owed') = a - 1
    BY <1>3, <2>1, FS_RemoveElement
  <2>3. Cardinality(dirty' \ intact') \in {b, b + 1}
    BY <1>3, <2>1, FS_AddElement
  <2>4. At({"read"})' = At({"read"}) /\ At({"stored", "gone"})' = At({"stored", "gone"})
    BY <2>1 DEF At
  <2>5. WorkLeft' = 5 * (a - 1) + 4 * Cardinality(dirty' \ intact') + 3 * c + 2 * d + e
    BY <2>1, <2>2, <2>4 DEF WorkLeft
  <2> HIDE DEF a, b, c, d, e
  <2> QED
    BY <1>2, <1>4, <2>3, <2>5
<1>6. ASSUME StartSweep PROVE WorkLeft' < WorkLeft
  <2> PICK batch \in OldestBatch : queue' = batch /\ intact' = batch
    BY <1>6 DEF StartSweep
  <2>1. /\ dirty' = dirty /\ owed' = owed /\ work' = work
        /\ dirty # {} /\ queue = {} /\ \A w \in Workers : work[w] = Resting
    BY <1>6 DEF StartSweep, Swept
  <2>2. intact = {}
    BY <2>1 DEF SweepInv, ClaimsInHand, Busy, Resting
  <2>3. /\ batch \subseteq dirty /\ dirty \cap batch = batch
        /\ batch # dirty => Cardinality(batch) = SweepBatch
    BY DEF OldestBatch
  <2>4. IsFiniteSet(batch) /\ Cardinality(batch) \in Nat
    BY <1>3, <2>3, FS_Subset, FS_CardinalityType
  <2>5. Cardinality(batch) > 0
    <3>1. CASE batch = dirty
      BY <2>1, <2>4, <3>1, FS_EmptySet
    <3>2. CASE batch # dirty
      BY <2>3, <3>2, BatchAssumption
    <3> QED
      BY <3>1, <3>2
  <2>6. Cardinality(dirty' \ intact') = b - Cardinality(batch)
    <3>1. dirty \ intact = dirty
      BY <2>2
    <3>2. Cardinality(dirty \ batch) = Cardinality(dirty) - Cardinality(dirty \cap batch)
      BY <1>3, FS_Difference
    <3> QED
      BY <2>1, <2>3, <3>1, <3>2
  <2>7. c = 0
    BY <2>1, FS_EmptySet
  <2>8. At({"read"})' = At({"read"}) /\ At({"stored", "gone"})' = At({"stored", "gone"})
    BY <2>1 DEF At
  <2>9. WorkLeft' = 5 * a + 4 * (b - Cardinality(batch)) + 3 * Cardinality(batch) + 2 * d + e
    BY <2>1, <2>6, <2>8 DEF WorkLeft
  <2> HIDE DEF a, b, c, d, e
  <2> QED
    BY <1>2, <1>4, <2>4, <2>5, <2>7, <2>9
<1>7. ASSUME NEW w \in Workers, Recompute(w) PROVE WorkLeft' < WorkLeft
  <2> PICK n \in queue :
        /\ queue' = queue \ {n}
        /\ work' = [work EXCEPT ![w] =
                      [at |-> "read", node |-> n, counted |-> Counted(n)]]
    BY <1>7 DEF Recompute
  <2>1. UNCHANGED <<dirty, intact, owed>> /\ work[w].at = "rest"
    BY <1>7 DEF Recompute, Resting
  <2>2. work'[w].at = "read" /\ \A v \in Workers \ {w} : work'[v] = work[v]
    BY <1>1 DEF TypeOK
  <2>3. /\ At({"read"})' = At({"read"}) \cup {w} /\ w \notin At({"read"})
        /\ At({"stored", "gone"})' = At({"stored", "gone"})
    BY <2>1, <2>2 DEF At
  <2>4. Cardinality(queue') = c - 1
    BY <1>3, FS_RemoveElement
  <2>5. Cardinality(At({"read"})') = d + 1
    BY <1>3, <2>3, FS_AddElement
  <2>6. WorkLeft' = 5 * a + 4 * b + 3 * (c - 1) + 2 * (d + 1) + e
    BY <2>1, <2>3, <2>4, <2>5 DEF WorkLeft
  <2> HIDE DEF a, b, c, d, e
  <2> QED
    BY <1>2, <1>4, <2>6
<1>8. ASSUME NEW w \in Workers, StoreStats(w) PROVE WorkLeft' < WorkLeft
  <2> DEFINE after == IF work[w].node \in pages THEN "stored" ELSE "gone"
  <2>1. /\ UNCHANGED <<dirty, intact, owed, queue>> /\ work[w].at = "read"
        /\ work' = [work EXCEPT ![w].at = after]
    BY <1>8 DEF StoreStats
  <2>2. work[w] \in [at: {"read", "stored", "gone"}, node: Nodes, counted: Counters]
    BY <1>1, <2>1 DEF TypeOK, Resting
  <2>3. /\ work'[w].at \in {"stored", "gone"}
        /\ \A v \in Workers \ {w} : work'[v] = work[v]
    BY <1>1, <2>1, <2>2 DEF TypeOK
  <2>4. /\ At({"read"})' = At({"read"}) \ {w} /\ w \in At({"read"})
        /\ At({"stored", "gone"})' = At({"stored", "gone"}) \cup {w}
        /\ w \notin At({"stored", "gone"})
    BY <2>1, <2>3 DEF At
  <2>5. Cardinality(At({"read"})') = d - 1
    BY <1>3, <2>4, FS_RemoveElement
  <2>6. Cardinality(At({"stored", "gone"})') = e + 1
    BY <1>3, <2>4, FS_AddElement
  <2>7. WorkLeft' = 5 * a + 4 * b + 3 * c + 2 * (d - 1) + (e + 1)
    BY <2>1, <2>5, <2>6 DEF WorkLeft
  <2> HIDE DEF a, b, c, d, e
  <2> QED
    BY <1>2, <1>4, <2>7
<1>9. ASSUME NEW w \in Workers, DropMarker(w) PROVE WorkLeft' < WorkLeft
  <2> PICK n : n = work[w].node
    OBVIOUS
  <2>1. /\ work[w].at \in {"stored", "gone"} /\ UNCHANGED <<owed, queue>>
        /\ work' = [work EXCEPT ![w] = Resting] /\ intact' = intact \ {n}
        /\ dirty' = dirty \ {n} \/ (dirty' = dirty /\ n \notin intact)
    BY <1>9 DEF DropMarker, MayDrop
  <2>2. work'[w].at = "rest" /\ \A v \in Workers \ {w} : work'[v] = work[v]
    BY <1>1, <2>1 DEF TypeOK, Resting
  <2>3. /\ At({"stored", "gone"})' = At({"stored", "gone"}) \ {w}
        /\ w \in At({"stored", "gone"}) /\ At({"read"})' = At({"read"})
    BY <2>1, <2>2 DEF At
  <2>4. Cardinality(At({"stored", "gone"})') = e - 1
    BY <1>3, <2>3, FS_RemoveElement
  <2>5. Cardinality(dirty' \ intact') <= b /\ Cardinality(dirty' \ intact') \in Nat
    <3>1. dirty' \ intact' \in SUBSET (dirty \ intact)
      BY <2>1
    <3> QED
      BY <1>3, <3>1, FS_Subset, FS_CardinalityType
  <2>6. WorkLeft' = 5 * a + 4 * Cardinality(dirty' \ intact') + 3 * c + 2 * d + (e - 1)
    BY <2>1, <2>3, <2>4 DEF WorkLeft
  <2> HIDE DEF a, b, c, d, e
  <2> QED
    BY <1>2, <1>4, <2>5, <2>6
<1>10. ASSUME NEW n \in Nodes, ReadPage(n) \/ DeletePage(n)
       PROVE  UNCHANGED <<edges, stats, owed, markers, queue, work, lost>>
  BY <1>10 DEF ReadPage, DeletePage, sweep, markers
<1> HIDE DEF a, b, c, d, e
<1> QED
  BY <1>5, <1>6, <1>7, <1>8, <1>9, <1>10, PagesAssumption DEF Next, Interference

\* Once nothing interferes - no relation is written, no page approved, no step
\* of the sweep fails - every step of the protocol brings the counters nearer
\* to being settled: a claim broken by a late event costs one more sweep of one
\* marker, and nothing else is done twice.
THEOREM SettlingComesNearer ==
  ASSUME IsFiniteSet(Nodes), IsFiniteSet(Workers)
  PROVE  Spec => [][ComesNearer]_vars
<1>1. Init => SweepInv
  BY DEF Init, SweepInv, ClaimsInHand, OlderOrders
<1>2. Spec => []SweepInv
  BY <1>1, SweepInvStep, Invariance, PTL DEF Spec
<1>3. IInv => WorkLeft \in Nat
  BY WorkIsNatural DEF IInv
<1>4. IInv' => (WorkLeft \in Nat)'
  BY <1>3, PTL
<1>5. IInv /\ SweepInv /\ IInv' /\ [Next]_vars => [ComesNearer]_vars
  BY <1>3, <1>4, WorkGetsLess DEF ComesNearer
<1> QED
  BY <1>2, <1>5, Invariance, PTL DEF Spec
=============================================================================
