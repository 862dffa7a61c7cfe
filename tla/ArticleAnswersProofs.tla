------------------------ MODULE ArticleAnswersProofs ------------------------
(***************************************************************************)
(* Theorems about ArticleAnswers for any articles, requests and sizes.  The  *)
(* inductive invariant adds to the properties where the row of an article is *)
(* while a run is under way: due, asked for, or written; and that nothing on *)
(* the disk or in memory contradicts an answer of the output.  At the end,   *)
(* why a run comes to one.                                                   *)
(***************************************************************************)
EXTENDS ArticleAnswers, FiniteSetTheorems, TLAPS

Types ==
  /\ content \in [Articles -> 1..MaxVersion]
  /\ final \in File /\ temp \in File /\ kept \in File /\ buffer \in File
  /\ tempThere \in BOOLEAN /\ whole \in BOOLEAN
  /\ inserted \in 0..(FlushEvery - 1)
  /\ phase \in {"idle", "reading", "checking", "asking", "dumping", "promoting"}
  /\ due \subseteq Articles
  /\ unsent \subseteq Requests /\ queued \subseteq Requests /\ working \subseteq Requests
  /\ answered \subseteq Requests /\ failed \subseteq Requests
  /\ permits \in Int

\* Nothing is asked outside a run that asks, and every open request holds a permit.
PoolInv ==
  /\ phase # "asking" => unsent = {} /\ InFlight = {} /\ due = {}
  /\ queued \cap working = {} /\ queued \cap answered = {} /\ working \cap answered = {}
  /\ unsent \cap InFlight = {}
  /\ permits >= 0
  /\ IsFiniteSet(InFlight) /\ Cardinality(InFlight) + permits = Capacity

Sofar == Over(temp, buffer)
Asked(a) == RequestsOf(a) \cap (unsent \cup InFlight) # {}

\* Where the row of each article is.
RowsInv ==
  /\ phase \in {"idle", "reading", "checking", "promoting"} => buffer = NoRows
  /\ phase \in {"reading", "checking", "asking"} => ~whole
  /\ phase = "asking" => \A a \in Articles : a \in due \/ Asked(a) \/ Sofar[a].version = content[a]
  /\ phase = "dumping" /\ whole => \A a \in Articles : Sofar[a].version = content[a]
  /\ NothingDropped

\* No row is of a text still to come.
NoneAhead ==
  \A a \in Articles : /\ final[a].version <= content[a] /\ temp[a].version <= content[a]
                      /\ kept[a].version <= content[a] /\ buffer[a].version <= content[a]

\* Nothing contradicts an answer of the output, and a run that ends has it.
AnswersInv ==
  \A a \in Articles : Answered(final, a) =>
    /\ temp[a] \in {NoRow, final[a]} /\ buffer[a] \in {NoRow, final[a]}
    /\ phase \in {"checking", "asking"} => kept[a] = final[a]
    /\ phase = "asking" => ~Asked(a) /\ (a \in due \/ Sofar[a] = final[a])
    /\ phase = "dumping" /\ whole => Sofar[a] = final[a]
    /\ phase = "promoting" /\ whole => temp[a] = final[a]

IInv == Types /\ PoolInv /\ RowsInv /\ NoneAhead /\ AnswersInv

(***************************************************************************)
(* Writing a row.                                                            *)
(***************************************************************************)
LEMMA OverIsFile ==
  ASSUME NEW f \in File, NEW g \in File
  PROVE  Over(f, g) \in File
BY DEF Over, File

LEMMA NoRowsIsFile == NoRows \in File
BY DEF NoRows, File

\* A row is in what is written so far once it is emitted, and no other row changes.
LEMMA Emitted ==
  ASSUME Types, NEW a \in Articles, NEW row \in Row, Emit(a, row)
  PROVE  /\ temp' \in File /\ buffer' \in File /\ inserted' \in 0..(FlushEvery - 1)
         /\ Sofar'[a] = row
         /\ \A b \in Articles \ {a} :
              /\ Sofar'[b] = Sofar[b]
              /\ temp'[b] \in {temp[b], buffer[b], NoRow}
              /\ buffer'[b] \in {buffer[b], NoRow}
         /\ temp'[a] \in {temp[a], row}
         /\ buffer'[a] \in {NoRow, row}
<1> DEFINE held == [buffer EXCEPT ![a] = row]
<1>1. held \in File
  BY DEF Types, File
<1>2. row # NoRow
  BY SizesAssumption DEF Row, NoRow
<1>3. held[a] = row /\ \A b \in Articles \ {a} : held[b] = buffer[b]
  BY DEF Types, File
<1>4. CASE inserted = FlushEvery - 1
  <2>1. inserted' = 0 /\ buffer' = NoRows /\ temp' = Over(temp, held)
    BY <1>4 DEF Emit, Flushed
  <2>2. temp' \in File /\ buffer' \in File
    BY <2>1, <1>1, OverIsFile, NoRowsIsFile DEF Types
  <2>3. \A b \in Articles : Sofar'[b] = temp'[b]
    BY <2>1 DEF Sofar, Over, NoRows
  <2>4. temp'[a] = row
    BY <2>1, <1>2, <1>3 DEF Over
  <2>5. \A b \in Articles \ {a} : temp'[b] = Sofar[b]
    BY <2>1, <1>3 DEF Over, Sofar
  <2>6. \A b \in Articles : Sofar[b] \in {temp[b], buffer[b]}
    BY DEF Over, Sofar
  <2>7. \A b \in Articles : buffer'[b] = NoRow
    BY <2>1 DEF NoRows
  <2> HIDE DEF held
  <2> QED
    BY <2>1, <2>2, <2>3, <2>4, <2>5, <2>6, <2>7, SizesAssumption
<1>5. CASE inserted # FlushEvery - 1
  <2>1. inserted' = inserted + 1 /\ buffer' = held /\ temp' = temp
    BY <1>5 DEF Emit
  <2>2. inserted' \in 0..(FlushEvery - 1)
    BY <2>1, <1>5, SizesAssumption DEF Types
  <2>3. Sofar'[a] = row
    BY <2>1, <1>2, <1>3 DEF Sofar, Over
  <2>4. \A b \in Articles \ {a} : Sofar'[b] = Sofar[b]
    BY <2>1, <1>3 DEF Sofar, Over
  <2> HIDE DEF held
  <2> QED
    BY <2>1, <2>2, <2>3, <2>4, <1>1, <1>3 DEF Types
<1> QED
  BY <1>4, <1>5

\* The row an article that is due is given, and that of one whose answers are in.
LEMMA DueRow ==
  ASSUME Types, NEW a \in Articles
  PROVE  LET row == IF CacheValid(a) THEN kept[a] ELSE [version |-> content[a], good |-> TRUE]
         IN  row \in Row /\ row.version = content[a]
<1>1. kept[a] \in Row \cup {NoRow} /\ content[a] \in 1..MaxVersion
  BY DEF Types, File
<1> QED
  BY <1>1, SizesAssumption DEF CacheValid, Row, NoRow

LEMMA AnsweredRow ==
  ASSUME Types, NEW a \in Articles, NEW good \in BOOLEAN
  PROVE  [version |-> content[a], good |-> good] \in Row
<1>1. content[a] \in 1..MaxVersion
  BY DEF Types
<1> QED
  BY <1>1 DEF Row

(***************************************************************************)
(* Types.                                                                    *)
(***************************************************************************)
LEMMA TypesInit == Init => Types
<1> SUFFICES ASSUME Init PROVE Types
  OBVIOUS
<1>1. NoRows \in File
  BY NoRowsIsFile
<1>2. 1 \in 1..MaxVersion /\ 0 \in 0..(FlushEvery - 1) /\ Capacity \in Int
  BY SizesAssumption
<1> QED
  BY <1>1, <1>2 DEF Init, Types

LEMMA TypesStep == Types /\ [Next]_vars => Types'
<1> SUFFICES ASSUME Types, [Next]_vars PROVE Types'
  OBVIOUS
<1>0. NoRows \in File /\ Capacity \in Int /\ 0 \in 0..(FlushEvery - 1)
  BY NoRowsIsFile, SizesAssumption
<1>1. ASSUME NEW a \in Articles, Reparse(a) PROVE Types'
  <2>1. content' \in [Articles -> 1..MaxVersion]
    BY <1>1, SizesAssumption DEF Types, Reparse
  <2> QED
    BY <2>1, <1>1 DEF Types, Reparse, disk, rows, pool
<1>2. CASE Start
  BY <1>2, <1>0 DEF Types, Start, disk, pool
<1>3. CASE Prepare
  <2>1. kept' \in File
    BY <1>3, OverIsFile DEF Types, Prepare, Existing
  <2> QED
    BY <2>1, <1>3, <1>0 DEF Types, Prepare, rows, pool
<1>4. CASE CheckHealth
  BY <1>4 DEF Types, CheckHealth, disk, rows
<1>5. ASSUME NEW a \in Articles, EmitCached(a) PROVE Types'
  <2> DEFINE row == IF CacheValid(a) THEN kept[a] ELSE [version |-> content[a], good |-> TRUE]
  <2>1. row \in Row
    BY DueRow
  <2>2. Emit(a, row)
    BY <1>5 DEF EmitCached
  <2> HIDE DEF row
  <2>3. temp' \in File /\ buffer' \in File /\ inserted' \in 0..(FlushEvery - 1)
    BY <2>1, <2>2, Emitted
  <2> QED
    BY <2>3, <1>5 DEF Types, EmitCached, pool
<1>6. ASSUME NEW q \in Requests, Put(q) PROVE Types'
  BY <1>6 DEF Types, Put, disk, rows
<1>7. ASSUME NEW q \in Requests, Take(q) PROVE Types'
  BY <1>7 DEF Types, Take, disk, rows
<1>8. ASSUME NEW q \in Requests, NEW good \in BOOLEAN, Answer(q, good) PROVE Types'
  BY <1>8 DEF Types, Answer, disk, rows
<1>9. ASSUME NEW q \in Requests, Drain(q) PROVE Types'
  <2>1. q[1] \in Articles
    BY DEF Requests
  <2>2. temp' \in File /\ buffer' \in File /\ inserted' \in 0..(FlushEvery - 1)
    <3> DEFINE row == [version |-> content[q[1]], good |-> RequestsOf(q[1]) \cap failed = {}]
    <3>1. row \in Row
      BY <2>1, AnsweredRow
    <3>2. Emit(q[1], row) \/ UNCHANGED <<temp, rows>>
      BY <1>9 DEF Drain
    <3> HIDE DEF row
    <3>3. CASE Emit(q[1], row)
      BY <2>1, <3>1, <3>3, Emitted
    <3>4. CASE UNCHANGED <<temp, rows>>
      BY <3>4 DEF rows, Types
    <3> QED
      BY <3>2, <3>3, <3>4
  <2>3. failed' \subseteq Requests
    BY <1>9 DEF Drain, Types
  <2>4. answered' \subseteq Requests /\ permits' \in Int
    BY <1>9 DEF Drain, Types, Released
  <2> QED
    BY <2>2, <2>3, <2>4, <1>9 DEF Types, Drain
<1>10. CASE Finish
  BY <1>10 DEF Types, Finish, disk, rows, pool
<1>11. CASE Interrupt
  BY <1>11, <1>0 DEF Types, Interrupt, disk, rows
<1>12. CASE Dump
  <2>1. temp' \in File
    BY <1>12, OverIsFile DEF Types, Dump, Flushed
  <2> QED
    BY <2>1, <1>12, <1>0 DEF Types, Dump, pool
<1>13. CASE Promote
  BY <1>13, <1>0 DEF Types, Promote, rows, pool
<1>14. CASE Fail
  <2>1. temp' \in File
    BY <1>14, OverIsFile DEF Types, Fail, Flushed
  <2> QED
    BY <2>1, <1>14, <1>0 DEF Types, Fail, Idle
<1>15. CASE Crash
  <2>1. PICK S \in SUBSET Articles :
          temp' = Over(temp, [a \in Articles |-> IF a \in S THEN buffer[a] ELSE NoRow])
    BY <1>15 DEF Crash
  <2>2. [a \in Articles |-> IF a \in S THEN buffer[a] ELSE NoRow] \in File
    BY DEF Types, File
  <2>3. temp' \in File
    BY <2>1, <2>2, OverIsFile DEF Types
  <2> QED
    BY <2>3, <1>15, <1>0 DEF Types, Crash, Idle
<1>16. CASE UNCHANGED vars
  BY <1>16 DEF Types, vars, disk, rows, pool
<1> QED
  BY <1>1, <1>2, <1>3, <1>4, <1>5, <1>6, <1>7, <1>8, <1>9, <1>10, <1>11, <1>12, <1>13,
     <1>14, <1>15, <1>16 DEF Next, Progress

(***************************************************************************)
(* The pool.                                                                 *)
(***************************************************************************)
LEMMA PoolEmpty ==  \* as at the beginning and after the end of a run
  ASSUME unsent' = {}, queued' = {}, working' = {}, answered' = {}, due' = {},
         permits' = Capacity
  PROVE  PoolInv'
<1>1. InFlight' = {}
  BY DEF InFlight
<1>2. IsFiniteSet(InFlight') /\ Cardinality(InFlight') = 0
  BY <1>1, FS_EmptySet
<1> QED
  BY <1>1, <1>2, SizesAssumption DEF PoolInv

LEMMA PoolInit == Init => PoolInv
<1> SUFFICES ASSUME Init PROVE PoolInv
  OBVIOUS
<1>1. InFlight = {}
  BY DEF InFlight, Init
<1>2. IsFiniteSet(InFlight) /\ Cardinality(InFlight) = 0
  BY <1>1, FS_EmptySet
<1> QED
  BY <1>1, <1>2, SizesAssumption DEF PoolInv, Init

LEMMA PoolStep == Types /\ PoolInv /\ [Next]_vars => PoolInv'
<1> SUFFICES ASSUME Types, PoolInv, [Next]_vars PROVE PoolInv'
  OBVIOUS
<1>a. ASSUME UNCHANGED <<due, pool>>, phase' # "asking" => phase # "asking" \/ (due = {} /\ unsent = {} /\ InFlight = {})
      PROVE  PoolInv'
  <2>1. UNCHANGED <<due, unsent, permits>> /\ InFlight' = InFlight
    BY <1>a DEF pool, InFlight
  <2> QED
    BY <2>1, <1>a DEF PoolInv, pool
<1>1. ASSUME NEW a \in Articles, Reparse(a) PROVE PoolInv'
  BY <1>1, <1>a DEF Reparse
<1>2. CASE Start
  BY <1>2, <1>a DEF Start
<1>3. CASE Prepare
  BY <1>3, <1>a DEF Prepare
<1>4. CASE CheckHealth
  <2>1. UNCHANGED <<queued, working, answered, permits>> /\ InFlight' = InFlight /\ InFlight = {}
    BY <1>4 DEF CheckHealth, PoolInv, InFlight
  <2> QED
    BY <2>1, <1>4 DEF PoolInv, CheckHealth
<1>5. ASSUME NEW a \in Articles, EmitCached(a) PROVE PoolInv'
  <2>1. UNCHANGED <<queued, working, answered, unsent, permits, phase>> /\ InFlight' = InFlight
    BY <1>5 DEF EmitCached, pool, InFlight
  <2> QED
    BY <2>1, <1>5 DEF PoolInv, EmitCached
<1>6. ASSUME NEW q \in Requests, Put(q) PROVE PoolInv'
  <2>1. InFlight' = InFlight \cup {q} /\ q \notin InFlight
    BY <1>6 DEF Put, InFlight, PoolInv
  <2>2. IsFiniteSet(InFlight') /\ Cardinality(InFlight') = Cardinality(InFlight) + 1
    BY <2>1, FS_AddElement DEF PoolInv
  <2>3. Cardinality(InFlight) \in Nat
    BY FS_CardinalityType DEF PoolInv
  <2>4. permits' >= 0 /\ Cardinality(InFlight') + permits' = Capacity
    BY <2>2, <2>3, <1>6, SizesAssumption DEF Put, PoolInv, Types
  <2>5. /\ queued' \cap working' = {} /\ queued' \cap answered' = {}
        /\ working' \cap answered' = {} /\ unsent' \cap InFlight' = {}
    BY <2>1, <1>6 DEF Put, InFlight, PoolInv
  <2> QED
    BY <2>2, <2>4, <2>5, <1>6 DEF Put, PoolInv
<1>7. ASSUME NEW q \in Requests, Take(q) PROVE PoolInv'
  <2>1. InFlight' = InFlight /\ InFlight # {}
    BY <1>7 DEF Take, InFlight
  <2>2. queued' \cap working' = {} /\ queued' \cap answered' = {} /\ working' \cap answered' = {}
    BY <1>7 DEF Take, InFlight, PoolInv
  <2> QED
    BY <2>1, <2>2, <1>7 DEF Take, PoolInv
<1>8. ASSUME NEW q \in Requests, NEW good \in BOOLEAN, Answer(q, good) PROVE PoolInv'
  <2>1. InFlight' = InFlight /\ InFlight # {}
    BY <1>8 DEF Answer, InFlight
  <2>2. queued' \cap working' = {} /\ queued' \cap answered' = {} /\ working' \cap answered' = {}
    BY <1>8 DEF Answer, InFlight, PoolInv
  <2> QED
    BY <2>1, <2>2, <1>8 DEF Answer, PoolInv
<1>9. ASSUME NEW q \in Requests, Drain(q) PROVE PoolInv'
  <2>1. InFlight' = InFlight \ {q} /\ q \in InFlight
    BY <1>9 DEF Drain, InFlight, PoolInv
  <2>2. IsFiniteSet(InFlight') /\ Cardinality(InFlight') = Cardinality(InFlight) - 1
    BY <2>1, FS_RemoveElement DEF PoolInv
  <2>3. Cardinality(InFlight) \in Nat
    BY FS_CardinalityType DEF PoolInv
  <2>4. permits' >= 0 /\ Cardinality(InFlight') + permits' = Capacity
    BY <2>2, <2>3, <1>9, SizesAssumption DEF Drain, PoolInv, Types, Released
  <2>5. /\ queued' \cap working' = {} /\ queued' \cap answered' = {}
        /\ working' \cap answered' = {} /\ unsent' \cap InFlight' = {}
    BY <2>1, <1>9 DEF Drain, InFlight, PoolInv
  <2> QED
    BY <2>2, <2>4, <2>5, <1>9 DEF Drain, PoolInv
<1>10. CASE Finish
  BY <1>10, <1>a DEF Finish, AllDrained
<1>11. CASE Interrupt
  BY <1>11, PoolEmpty DEF Interrupt
<1>12. CASE Dump
  BY <1>12, <1>a DEF Dump
<1>13. CASE Promote
  BY <1>13, <1>a DEF Promote
<1>14. CASE Fail
  BY <1>14, PoolEmpty DEF Fail, Idle
<1>15. CASE Crash
  BY <1>15, PoolEmpty DEF Crash, Idle
<1>16. CASE UNCHANGED vars
  BY <1>16, <1>a DEF vars
<1> QED
  BY <1>1, <1>2, <1>3, <1>4, <1>5, <1>6, <1>7, <1>8, <1>9, <1>10, <1>11, <1>12, <1>13,
     <1>14, <1>15, <1>16 DEF Next, Progress

LEMMA PoolFits == PoolInv /\ Types => PutNeverWaits /\ permits \in 0..Capacity
<1> SUFFICES ASSUME PoolInv, Types PROVE PutNeverWaits /\ permits \in 0..Capacity
  OBVIOUS
<1>1. queued \subseteq InFlight
  BY DEF InFlight
<1>2. Cardinality(queued) <= Cardinality(InFlight) /\ Cardinality(queued) \in Nat /\ Cardinality(InFlight) \in Nat
  BY <1>1, FS_Subset, FS_CardinalityType DEF PoolInv
<1> QED
  BY <1>2, SizesAssumption DEF PoolInv, PutNeverWaits, Types

(***************************************************************************)
(* Where rows are.                                                           *)
(***************************************************************************)
LEMMA SomethingToAsk ==
  ASSUME NEW a \in Articles, Parts[a] # 0
  PROVE  \E q \in Requests : q[1] = a
<1>1. Parts[a] \in Nat
  BY PartsAssumption
<1>2. <<a, 1>> \in {a} \X (1..Parts[a])
  BY <1>1
<1>3. <<a, 1>> \in Requests /\ <<a, 1>>[1] = a
  BY <1>2 DEF Requests
<1> QED
  BY <1>3

LEMMA RowsInit == Init => RowsInv
BY DEF Init, RowsInv, NothingDropped

LEMMA RowsStep == Types /\ PoolInv /\ RowsInv /\ [Next]_vars => RowsInv'
<1> SUFFICES ASSUME Types, PoolInv, RowsInv, [Next]_vars PROVE RowsInv'
  OBVIOUS
<1>a. ASSUME UNCHANGED <<content, disk, rows, phase, whole, due>>,
             unsent' \cup InFlight' = unsent \cup InFlight
      PROVE  RowsInv'
  <2>1. Sofar' = Sofar
    BY <1>a DEF Sofar, Over, disk, rows
  <2>2. \A a \in Articles : Asked(a)' = Asked(a)
    BY <1>a DEF Asked
  <2>3. UNCHANGED <<content, temp, buffer, phase, whole, due>>
    BY <1>a DEF disk, rows
  <2> QED
    BY <2>1, <2>2, <2>3 DEF RowsInv, NothingDropped
<1>b. ASSUME phase' = "idle", buffer' = NoRows PROVE RowsInv'
  BY <1>b DEF RowsInv, NothingDropped
<1>1. ASSUME NEW a \in Articles, Reparse(a) PROVE RowsInv'
  BY <1>1, <1>b DEF Reparse, RowsInv, rows
<1>2. CASE Start
  BY <1>2 DEF Start, RowsInv, NothingDropped
<1>3. CASE Prepare
  BY <1>3 DEF Prepare, RowsInv, NothingDropped, rows
<1>4. CASE CheckHealth
  <2>1. \A a \in Articles : a \in due' \/ Asked(a)'
    <3> SUFFICES ASSUME NEW a \in Articles, a \notin due' PROVE Asked(a)'
      OBVIOUS
    <3>1. Parts[a] # 0
      BY <1>4 DEF CheckHealth
    <3>2. PICK q \in Requests : q[1] = a
      BY <3>1, SomethingToAsk
    <3>3. q \in unsent' /\ q \in RequestsOf(a)
      BY <3>2, <1>4 DEF CheckHealth, RequestsOf
    <3> QED
      BY <3>3 DEF Asked
  <2>2. phase' = "asking" /\ whole' = whole /\ ~whole
    BY <1>4 DEF CheckHealth, RowsInv
  <2> QED
    BY <2>1, <2>2 DEF RowsInv, NothingDropped
<1>5. ASSUME NEW a \in Articles, EmitCached(a) PROVE RowsInv'
  <2> DEFINE row == IF CacheValid(a) THEN kept[a] ELSE [version |-> content[a], good |-> TRUE]
  <2>1. row \in Row /\ row.version = content[a]
    BY DueRow
  <2>2. Emit(a, row)
    BY <1>5 DEF EmitCached
  <2> HIDE DEF row
  <2>3. Sofar'[a] = row /\ \A b \in Articles \ {a} : Sofar'[b] = Sofar[b]
    BY <2>1, <2>2, Emitted
  <2>4. \A b \in Articles : Asked(b)' = Asked(b)
    BY <1>5 DEF EmitCached, Asked, pool, InFlight
  <2>5. phase' = "asking" /\ phase = "asking" /\ ~whole' /\ content' = content /\ due' = due \ {a}
    BY <1>5 DEF EmitCached, RowsInv
  <2> QED
    BY <2>1, <2>3, <2>4, <2>5 DEF RowsInv, NothingDropped
<1>6. ASSUME NEW q \in Requests, Put(q) PROVE RowsInv'
  BY <1>6, <1>a DEF Put, InFlight
<1>7. ASSUME NEW q \in Requests, Take(q) PROVE RowsInv'
  BY <1>7, <1>a DEF Take, InFlight
<1>8. ASSUME NEW q \in Requests, NEW good \in BOOLEAN, Answer(q, good) PROVE RowsInv'
  BY <1>8, <1>a DEF Answer, InFlight
<1>9. ASSUME NEW q \in Requests, Drain(q) PROVE RowsInv'
  <2> DEFINE a == q[1]
             row == [version |-> content[a], good |-> RequestsOf(a) \cap failed = {}]
  <2>0. a \in Articles /\ q \in RequestsOf(a)
    BY DEF Requests, RequestsOf
  <2>1. phase' = "asking" /\ phase = "asking" /\ ~whole' /\ content' = content /\ due' = due
    BY <1>9 DEF Drain, RowsInv
  <2>2. unsent' \cup InFlight' = (unsent \cup InFlight) \ {q}
    BY <1>9 DEF Drain, InFlight, PoolInv
  <2>3. \A b \in Articles \ {a} : Asked(b)' = Asked(b)
    BY <2>2 DEF Asked, RequestsOf
  <2>4. CASE RequestsOf(a) \cap Outstanding(q) = {}
    <3>1. Emit(a, row)
      BY <1>9, <2>4 DEF Drain
    <3>2. row \in Row /\ row.version = content[a]
      BY <2>0, AnsweredRow
    <3> HIDE DEF row
    <3>3. Sofar'[a] = row /\ \A b \in Articles \ {a} : Sofar'[b] = Sofar[b]
      BY <2>0, <3>1, <3>2, Emitted
    <3> QED
      BY <2>1, <2>3, <3>2, <3>3 DEF RowsInv, NothingDropped
  <2>5. CASE RequestsOf(a) \cap Outstanding(q) # {}
    <3>1. Asked(a)'
      BY <2>2, <2>5 DEF Asked, Outstanding
    <3>2. Sofar' = Sofar
      BY <1>9, <2>5 DEF Drain, Sofar, Over, rows
    <3> QED
      BY <2>1, <2>3, <3>1, <3>2 DEF RowsInv, NothingDropped
  <2> QED
    BY <2>4, <2>5
<1>10. CASE Finish
  <2>1. \A a \in Articles : a \notin due /\ ~Asked(a)
    BY <1>10 DEF Finish, AllDrained, Asked
  <2>2. \A a \in Articles : Sofar[a].version = content[a]
    BY <2>1, <1>10 DEF Finish, RowsInv
  <2>3. Sofar' = Sofar /\ content' = content
    BY <1>10 DEF Finish, Sofar, Over, disk, rows
  <2> QED
    BY <2>2, <2>3, <1>10 DEF Finish, RowsInv, NothingDropped
<1>11. CASE Interrupt
  BY <1>11 DEF Interrupt, RowsInv, NothingDropped
<1>12. CASE Dump
  BY <1>12 DEF Dump, RowsInv, NothingDropped, Sofar, Flushed
<1>13. CASE Promote
  BY <1>13, <1>b DEF Promote, RowsInv, rows
<1>14. CASE Fail
  BY <1>14, <1>b DEF Fail, Idle
<1>15. CASE Crash
  BY <1>15, <1>b DEF Crash, Idle
<1>16. CASE UNCHANGED vars
  BY <1>16, <1>a DEF vars, pool, InFlight
<1> QED
  BY <1>1, <1>2, <1>3, <1>4, <1>5, <1>6, <1>7, <1>8, <1>9, <1>10, <1>11, <1>12, <1>13,
     <1>14, <1>15, <1>16 DEF Next, Progress

(***************************************************************************)
(* Answers of the output.                                                    *)
(***************************************************************************)
LEMMA AheadStep == Types /\ NoneAhead /\ [Next]_vars => NoneAhead'
<1> SUFFICES ASSUME Types, NoneAhead, [Next]_vars,
                    NEW b \in Articles
             PROVE  /\ final'[b].version <= content'[b] /\ temp'[b].version <= content'[b]
                    /\ kept'[b].version <= content'[b] /\ buffer'[b].version <= content'[b]
  BY DEF NoneAhead
<1>0. /\ final[b].version <= content[b] /\ temp[b].version <= content[b]
      /\ kept[b].version <= content[b] /\ buffer[b].version <= content[b]
      /\ content[b] \in Nat /\ NoRow.version <= content[b]
  BY SizesAssumption DEF NoneAhead, Types, NoRow
<1>a. ASSUME content' = content,
             final'[b] \in {final[b], temp[b]},
             temp'[b] \in {NoRow, temp[b], buffer[b]},
             kept'[b] \in {NoRow, kept[b], final[b], temp[b]},
             buffer'[b] \in {NoRow, buffer[b]}
      PROVE  /\ final'[b].version <= content'[b] /\ temp'[b].version <= content'[b]
             /\ kept'[b].version <= content'[b] /\ buffer'[b].version <= content'[b]
  BY <1>0, <1>a
<1>e. ASSUME NEW a \in Articles, NEW row \in Row, row.version = content[a], Emit(a, row),
             UNCHANGED <<content, final, kept>>
      PROVE  /\ final'[b].version <= content'[b] /\ temp'[b].version <= content'[b]
             /\ kept'[b].version <= content'[b] /\ buffer'[b].version <= content'[b]
  <2>1. /\ b # a => temp'[b] \in {temp[b], buffer[b], NoRow} /\ buffer'[b] \in {buffer[b], NoRow}
        /\ b = a => temp'[b] \in {temp[b], row} /\ buffer'[b] \in {NoRow, row}
    BY <1>e, Emitted
  <2> QED
    BY <2>1, <1>e, <1>0
<1>1. ASSUME NEW a \in Articles, Reparse(a)
      PROVE  /\ final'[b].version <= content'[b] /\ temp'[b].version <= content'[b]
             /\ kept'[b].version <= content'[b] /\ buffer'[b].version <= content'[b]
  <2>1. content'[b] \in {content[b], content[b] + 1}
    BY <1>1 DEF Reparse, Types
  <2>2. \A r \in Row \cup {NoRow} : r.version \in Nat
    BY SizesAssumption DEF Row, NoRow
  <2>3. final[b].version \in Nat /\ temp[b].version \in Nat /\ kept[b].version \in Nat /\ buffer[b].version \in Nat
    BY <2>2 DEF Types, File
  <2> QED
    BY <2>1, <2>3, <1>0, <1>1 DEF Reparse, disk, rows
<1>2. CASE Start
  BY <1>2, <1>a DEF Start, disk, NoRows
<1>3. CASE Prepare
  BY <1>3, <1>a DEF Prepare, rows, NoRows, Existing, Over
<1>4. CASE CheckHealth
  BY <1>4, <1>a DEF CheckHealth, disk, rows
<1>5. ASSUME NEW a \in Articles, EmitCached(a)
      PROVE  /\ final'[b].version <= content'[b] /\ temp'[b].version <= content'[b]
             /\ kept'[b].version <= content'[b] /\ buffer'[b].version <= content'[b]
  <2> DEFINE row == IF CacheValid(a) THEN kept[a] ELSE [version |-> content[a], good |-> TRUE]
  <2>1. row \in Row /\ row.version = content[a]
    BY DueRow
  <2>2. Emit(a, row) /\ UNCHANGED <<content, final, kept>>
    BY <1>5 DEF EmitCached
  <2> HIDE DEF row
  <2> QED
    BY <2>1, <2>2, <1>e
<1>6. ASSUME NEW q \in Requests, Put(q) \/ Take(q) \/ \E good \in BOOLEAN : Answer(q, good)
      PROVE  /\ final'[b].version <= content'[b] /\ temp'[b].version <= content'[b]
             /\ kept'[b].version <= content'[b] /\ buffer'[b].version <= content'[b]
  BY <1>6, <1>a DEF Put, Take, Answer, disk, rows
<1>9. ASSUME NEW q \in Requests, Drain(q)
      PROVE  /\ final'[b].version <= content'[b] /\ temp'[b].version <= content'[b]
             /\ kept'[b].version <= content'[b] /\ buffer'[b].version <= content'[b]
  <2> DEFINE row == [version |-> content[q[1]], good |-> RequestsOf(q[1]) \cap failed = {}]
  <2>1. q[1] \in Articles
    BY DEF Requests
  <2>2. row \in Row /\ row.version = content[q[1]]
    BY <2>1, AnsweredRow
  <2>3. Emit(q[1], row) \/ UNCHANGED <<temp, rows>>
    BY <1>9 DEF Drain
  <2>4. UNCHANGED <<content, final, kept>>
    BY <1>9 DEF Drain
  <2> HIDE DEF row
  <2>5. CASE Emit(q[1], row)
    BY <2>1, <2>2, <2>4, <2>5, <1>e
  <2>6. CASE UNCHANGED <<temp, rows>>
    BY <2>4, <2>6, <1>a DEF rows
  <2> QED
    BY <2>3, <2>5, <2>6
<1>10. CASE Finish
  BY <1>10, <1>a DEF Finish, disk, rows
<1>11. CASE Interrupt
  BY <1>11, <1>a DEF Interrupt, disk, rows
<1>12. CASE Dump
  BY <1>12, <1>a DEF Dump, Flushed, Over, NoRows
<1>13. CASE Promote
  BY <1>13, <1>a DEF Promote, rows, NoRows
<1>14. CASE Fail
  BY <1>14, <1>a DEF Fail, Flushed, Over, Idle, NoRows
<1>15. CASE Crash
  BY <1>15, <1>a DEF Crash, Over, Idle, NoRows
<1>16. CASE UNCHANGED vars
  BY <1>16, <1>a DEF vars, disk, rows
<1> QED
  BY <1>1, <1>2, <1>3, <1>4, <1>5, <1>6, <1>9, <1>10, <1>11, <1>12, <1>13,
     <1>14, <1>15, <1>16 DEF Next, Progress

\* What AnswersInv says of one article.
Safe(b) ==
  Answered(final, b) =>
    /\ temp[b] \in {NoRow, final[b]} /\ buffer[b] \in {NoRow, final[b]}
    /\ phase \in {"checking", "asking"} => kept[b] = final[b]
    /\ phase = "asking" => ~Asked(b) /\ (b \in due \/ Sofar[b] = final[b])
    /\ phase = "dumping" /\ whole => Sofar[b] = final[b]
    /\ phase = "promoting" /\ whole => temp[b] = final[b]

LEMMA AnswersInit == Init => AnswersInv
BY DEF Init, AnswersInv, NoRows

LEMMA AnswersStep ==
  Types /\ PoolInv /\ RowsInv /\ NoneAhead /\ AnswersInv /\ [Next]_vars => AnswersInv'
<1> SUFFICES ASSUME Types, PoolInv, RowsInv, NoneAhead, AnswersInv, [Next]_vars,
                    NEW b \in Articles
             PROVE  Safe(b)'
  BY DEF AnswersInv, Safe
<1>0. Safe(b) /\ NoRows[b] = NoRow
  BY DEF AnswersInv, Safe, NoRows
<1>a. ASSUME UNCHANGED <<content, disk, kept, rows, phase, whole, due>>,
             unsent' \cup InFlight' = unsent \cup InFlight
      PROVE  Safe(b)'
  <2>1. UNCHANGED <<content, final, temp, buffer, kept, phase, whole, due>>
    BY <1>a DEF disk, rows
  <2>2. Sofar' = Sofar /\ Asked(b)' = Asked(b)
    BY <1>a, <2>1 DEF Sofar, Over, Asked
  <2> QED
    BY <2>1, <2>2, <1>0 DEF Safe, Answered
\* Where a run ends, what was in memory is lost or has been written.
<1>b. ASSUME phase' \in {"idle", "reading"}, UNCHANGED <<content, final>>,
             temp'[b] \in {NoRow, temp[b], buffer[b]}, buffer'[b] \in {NoRow, buffer[b]}
      PROVE  Safe(b)'
  BY <1>b, <1>0 DEF Safe, Answered
<1>1. ASSUME NEW a \in Articles, Reparse(a) PROVE Safe(b)'
  <2>1. CASE a = b
    <3>1. content'[b] = content[b] + 1
      BY <1>1, <2>1 DEF Reparse, Types
    <3>2. final'[b].version <= content[b] /\ content[b] \in Nat
      BY <1>1 DEF Reparse, NoneAhead, disk, Types
    <3>3. ~Answered(final, b)'
      BY <3>1, <3>2 DEF Answered
    <3> QED
      BY <3>3 DEF Safe
  <2>2. CASE a # b
    <3>1. content'[b] = content[b]
      BY <1>1, <2>2 DEF Reparse, Types
    <3> QED
      BY <3>1, <1>1, <1>0 DEF Reparse, Safe, Answered, disk, rows
  <2> QED
    BY <2>1, <2>2
<1>2. CASE Start
  BY <1>2, <1>b DEF Start, disk
<1>3. CASE Prepare
  <2>1. Answered(final, b) => kept'[b] = final[b]
    BY <1>3, <1>0 DEF Prepare, Existing, Over, Safe
  <2>2. buffer'[b] = NoRow /\ temp'[b] = NoRow /\ UNCHANGED <<content, final>> /\ phase' = "checking"
    BY <1>3, <1>0 DEF Prepare, RowsInv, rows
  <2> QED
    BY <2>1, <2>2 DEF Safe, Answered
<1>4. CASE CheckHealth
  <2>1. UNCHANGED <<content, final, temp, buffer, kept>> /\ phase' = "asking" /\ phase = "checking"
    BY <1>4 DEF CheckHealth, disk, rows
  <2>2. Answered(final, b) => b \in due'
    BY <2>1, <1>4, <1>0 DEF CheckHealth, Safe, Answered, CacheValid
  <2>3. InFlight' = {}
    BY <1>4 DEF CheckHealth, InFlight, PoolInv
  <2>4. Answered(final, b) => ~Asked(b)'
    BY <2>2, <2>3, <1>4 DEF CheckHealth, Asked, RequestsOf
  <2> QED
    BY <2>1, <2>2, <2>4, <1>0 DEF Safe, Answered
<1>5. ASSUME NEW a \in Articles, EmitCached(a) PROVE Safe(b)'
  <2> DEFINE row == IF CacheValid(a) THEN kept[a] ELSE [version |-> content[a], good |-> TRUE]
  <2>1. row \in Row
    BY DueRow
  <2>2. Emit(a, row) /\ UNCHANGED <<content, final, kept>> /\ phase = "asking" /\ phase' = "asking"
    BY <1>5 DEF EmitCached
  <2>3. Answered(final, a) => row = final[a]
    BY <2>2 DEF AnswersInv, Answered, CacheValid
  <2>4. Asked(b)' = Asked(b) /\ due' = due \ {a}
    BY <1>5 DEF EmitCached, Asked, pool, InFlight
  <2> HIDE DEF row
  <2>5. CASE a = b
    <3>1. Sofar'[b] = row /\ temp'[b] \in {temp[b], row} /\ buffer'[b] \in {NoRow, row}
      BY <2>1, <2>2, <2>5, Emitted
    <3> QED
      BY <3>1, <2>2, <2>3, <2>4, <2>5, <1>0 DEF Safe, Answered
  <2>6. CASE a # b
    <3>1. /\ Sofar'[b] = Sofar[b] /\ temp'[b] \in {temp[b], buffer[b], NoRow}
          /\ buffer'[b] \in {buffer[b], NoRow}
      BY <2>1, <2>2, <2>6, Emitted
    <3> QED
      BY <3>1, <2>2, <2>4, <2>6, <1>0 DEF Safe, Answered
  <2> QED
    BY <2>5, <2>6
<1>6. ASSUME NEW q \in Requests, Put(q) PROVE Safe(b)'
  BY <1>6, <1>a DEF Put, InFlight
<1>7. ASSUME NEW q \in Requests, Take(q) PROVE Safe(b)'
  BY <1>7, <1>a DEF Take, InFlight
<1>8. ASSUME NEW q \in Requests, NEW good \in BOOLEAN, Answer(q, good) PROVE Safe(b)'
  BY <1>8, <1>a DEF Answer, InFlight
<1>9. ASSUME NEW q \in Requests, Drain(q) PROVE Safe(b)'
  <2> DEFINE a == q[1]
             row == [version |-> content[a], good |-> RequestsOf(a) \cap failed = {}]
  <2>1. a \in Articles /\ q \in RequestsOf(a) /\ Asked(a)
    BY <1>9 DEF Requests, RequestsOf, Drain, Asked, InFlight
  <2>2. UNCHANGED <<content, final, kept, due>> /\ phase = "asking" /\ phase' = "asking"
    BY <1>9 DEF Drain
  <2>3. ~Answered(final, a)
    BY <2>1, <2>2 DEF AnswersInv
  <2>4. CASE a = b
    BY <2>2, <2>3, <2>4 DEF Safe, Answered
  <2>5. CASE a # b
    <3>1. Asked(b)' => Asked(b)
      BY <1>9 DEF Drain, Asked, InFlight
    <3>2. row \in Row
      BY <2>1, AnsweredRow
    <3>3. Emit(a, row) \/ UNCHANGED <<temp, rows>>
      BY <1>9 DEF Drain
    <3> HIDE DEF row, a
    <3>4. CASE Emit(a, row)
      <4>1. /\ Sofar'[b] = Sofar[b] /\ temp'[b] \in {temp[b], buffer[b], NoRow}
            /\ buffer'[b] \in {buffer[b], NoRow}
        BY <2>1, <2>5, <3>2, <3>4, Emitted
      <4> QED
        BY <4>1, <3>1, <2>2, <1>0 DEF Safe, Answered
    <3>5. CASE UNCHANGED <<temp, rows>>
      <4>1. Sofar' = Sofar /\ UNCHANGED <<temp, buffer>>
        BY <3>5 DEF Sofar, Over, rows
      <4> QED
        BY <4>1, <3>1, <2>2, <1>0 DEF Safe, Answered
    <3> QED
      BY <3>3, <3>4, <3>5
  <2> QED
    BY <2>4, <2>5
<1>10. CASE Finish
  <2>1. UNCHANGED <<content, final, temp, buffer>> /\ phase = "asking" /\ phase' = "dumping" /\ b \notin due
    BY <1>10 DEF Finish, AllDrained, disk, rows
  <2>2. Sofar' = Sofar
    BY <2>1 DEF Sofar, Over
  <2> QED
    BY <2>1, <2>2, <1>0 DEF Safe, Answered
<1>11. CASE Interrupt
  <2>1. UNCHANGED <<content, final, temp, buffer>> /\ ~whole' /\ phase' = "dumping"
    BY <1>11 DEF Interrupt, RowsInv, disk, rows
  <2> QED
    BY <2>1, <1>0 DEF Safe, Answered
<1>12. CASE Dump
  <2>1. temp'[b] = Sofar[b] /\ buffer'[b] = NoRow /\ UNCHANGED <<content, final, whole>>
    BY <1>12, <1>0 DEF Dump, Flushed, Sofar
  <2>2. Sofar[b] \in {temp[b], buffer[b]} /\ phase = "dumping" /\ phase' = "promoting"
    BY <1>12 DEF Dump, Sofar, Over
  <2> QED
    BY <2>1, <2>2, <1>0 DEF Safe, Answered
<1>13. CASE Promote
  <2>1. temp'[b] = NoRow /\ buffer'[b] = NoRow /\ phase' = "idle"
    BY <1>13, <1>0 DEF Promote, RowsInv, rows
  <2> QED
    BY <2>1 DEF Safe
<1>14. CASE Fail
  <2>1. temp'[b] \in {temp[b], buffer[b]} /\ buffer'[b] = NoRow
    BY <1>14, <1>0 DEF Fail, Flushed, Over, Idle
  <2> QED
    BY <2>1, <1>14, <1>b DEF Fail
<1>15. CASE Crash
  <2>1. temp'[b] \in {NoRow, temp[b], buffer[b]} /\ buffer'[b] = NoRow
    BY <1>15, <1>0 DEF Crash, Over, Idle
  <2> QED
    BY <2>1, <1>15, <1>b DEF Crash
<1>16. CASE UNCHANGED vars
  BY <1>16, <1>a DEF vars, pool, InFlight
<1> QED
  BY <1>1, <1>2, <1>3, <1>4, <1>5, <1>6, <1>7, <1>8, <1>9, <1>10, <1>11, <1>12, <1>13,
     <1>14, <1>15, <1>16 DEF Next, Progress

(***************************************************************************)
(* Theorems.                                                                 *)
(***************************************************************************)
\* The invariant that the theorems below rest on.
THEOREM Invariance == Spec => []IInv
<1>1. Init => IInv
  <2>1. Init => NoneAhead
    BY SizesAssumption DEF Init, NoneAhead, NoRows, NoRow
  <2> QED
    BY <2>1, TypesInit, PoolInit, RowsInit, AnswersInit DEF IInv
<1>2. IInv /\ [Next]_vars => IInv'
  BY TypesStep, PoolStep, RowsStep, AheadStep, AnswersStep DEF IInv
<1> QED
  BY <1>1, <1>2, PTL DEF Spec

\* Type correctness, permits included (stores/llm.py, duckdb.py).
THEOREM Typing == Spec => []TypeOK
<1>1. IInv => TypeOK
  BY PoolFits DEF IInv, Types, TypeOK
<1> QED
  BY <1>1, Invariance, PTL

\* The coroutine that takes answers never waits to put a request (put_request).
THEOREM NeverStuck == Spec => []PutNeverWaits
<1>1. IInv => PutNeverWaits
  BY PoolFits DEF IInv
<1> QED
  BY <1>1, Invariance, PTL

\* A run that comes to its end leaves no article out of the output.
THEOREM Complete == Spec => []NothingDropped
<1>1. IInv => NothingDropped
  BY DEF IInv, RowsInv
<1> QED
  BY <1>1, Invariance, PTL

\* No step but the end of an interrupted run takes an answer from the output.
THEOREM AnswersLast == Spec => AnswersOutliveRuns
<1> DEFINE Lasts == ~(phase = "promoting" /\ ~whole) =>
         \A a \in Articles : Answered(final, a) /\ content' = content => Answered(final', a)
<1>1. IInv /\ [Next]_vars => [Lasts]_vars
  <2> SUFFICES ASSUME IInv, [Next]_vars, ~(phase = "promoting" /\ ~whole),
                      NEW a \in Articles, Answered(final, a), content' = content
               PROVE  Answered(final', a)
    OBVIOUS
  <2>1. CASE final' = final
    BY <2>1 DEF Answered
  <2>2. CASE Promote
    <3>1. whole /\ phase = "promoting"
      BY <2>2 DEF Promote
    <3>2. temp[a] = final[a]
      BY <3>1 DEF IInv, AnswersInv
    <3> QED
      BY <3>2, <2>2 DEF Promote, Answered
  <2>3. final' = final \/ Promote
    BY DEF Next, Progress, Reparse, Start, Prepare, CheckHealth, EmitCached, Put, Take, Answer,
           Drain, Finish, Interrupt, Dump, Fail, Crash, vars, disk
  <2> QED
    BY <2>1, <2>2, <2>3
<1> QED
  BY <1>1, Invariance, PTL DEF Spec, AnswersOutliveRuns

(***************************************************************************)
(* Why a run ends.  EveryRunEnds needs the fairness of Progress, which TLC   *)
(* checks on an instance.  What that fairness brings about is proved here:   *)
(* while a run is under way one of its steps can be taken, and no step, of   *)
(* any kind, takes it further from its end.                                  *)
(***************************************************************************)
\* The guards of the steps of a run, one of which holds: neither the pool nor
\* the coroutine that fills and empties it waits for the other.
SomethingGoesOn ==
  phase = "asking" /\ due = {} =>
    \/ unsent # {} /\ ~IsFull /\ permits > 0 /\ Cardinality(queued) < Capacity
    \/ queued # {} /\ Cardinality(working) < Capacity
    \/ working # {}
    \/ answered # {} /\ (IsFull \/ unsent = {})
    \/ AllDrained

PhasesLeft ==
  [reading |-> 5, checking |-> 4, asking |-> 3, dumping |-> 2, promoting |-> 1, idle |-> 0]

\* What is left to do of a phase: rows to write, and a request is put, taken,
\* answered and drained.
StepsLeft ==
  Cardinality(due) + 4 * Cardinality(unsent) + 3 * Cardinality(queued)
    + 2 * Cardinality(working) + Cardinality(answered)

ComesNearer ==
  phase # "idle" =>
    \/ PhasesLeft[phase'] < PhasesLeft[phase]
    \/ phase' = phase /\ StepsLeft \in Nat /\ StepsLeft' \in Nat /\ StepsLeft' < StepsLeft

LEMMA RequestsAreFinite ==
  ASSUME IsFiniteSet(Articles)
  PROVE  IsFiniteSet(Requests)
<1> DEFINE Asks == [a \in Articles |-> {a} \X (1..Parts[a])]
           Sets == {{a} \X (1..Parts[a]) : a \in Articles}
<1>1. Asks \in Surjection(Articles, Sets)
  BY DEF Surjection
<1>2. IsFiniteSet(Sets)
  BY <1>1, FS_Surjection DEF ExistsSurjection
<1>3. ASSUME NEW a \in Articles
      PROVE  IsFiniteSet({a} \X (1..Parts[a]))
  <2>1. Parts[a] \in Nat
    BY PartsAssumption
  <2>2. IsFiniteSet(1..Parts[a])
    BY <2>1, FS_Interval
  <2>3. IsFiniteSet({a})
    BY FS_Singleton
  <2> QED
    BY <2>2, <2>3, FS_Product
<1>4. \A T \in Sets : IsFiniteSet(T)
  BY <1>3
<1> HIDE DEF Sets
<1>5. IsFiniteSet(UNION Sets)
  BY <1>2, <1>4, FS_UNION
<1> QED
  BY <1>5 DEF Sets, Requests

LEMMA SomethingCan == Types /\ PoolInv => SomethingGoesOn
<1> SUFFICES ASSUME Types, PoolInv, phase = "asking", due = {}
             PROVE  \/ unsent # {} /\ ~IsFull /\ permits > 0 /\ Cardinality(queued) < Capacity
                    \/ queued # {} /\ Cardinality(working) < Capacity
                    \/ working # {}
                    \/ answered # {} /\ (IsFull \/ unsent = {})
                    \/ AllDrained
  BY DEF SomethingGoesOn
<1>1. Cardinality({}) = 0 /\ 0 < Capacity
  BY FS_EmptySet, SizesAssumption
<1>2. CASE working = {} /\ queued = {} /\ answered = {}
  <2>1. InFlight = {}
    BY <1>2 DEF InFlight
  <2>2. permits = Capacity
    BY <1>1, <2>1, SizesAssumption DEF PoolInv, Types
  <2> QED
    BY <1>1, <1>2, <2>1, <2>2, SizesAssumption DEF AllDrained, IsFull
<1>3. CASE working = {} /\ queued = {} /\ answered # {}
  <2>1. Cardinality(InFlight) \in Nat
    BY FS_CardinalityType DEF PoolInv
  <2>2. permits = 0 \/ permits > 0
    BY <2>1, SizesAssumption DEF PoolInv, Types
  <2> QED
    BY <1>1, <1>3, <2>2 DEF IsFull
<1> QED
  BY <1>1, <1>2, <1>3

\* The cardinalities a step changes.
LEMMA Counted ==
  ASSUME NEW S, IsFiniteSet(S), NEW x
  PROVE  /\ Cardinality(S) \in Nat
         /\ x \in S => Cardinality(S \ {x}) = Cardinality(S) - 1
         /\ x \notin S => Cardinality(S \cup {x}) = Cardinality(S) + 1
  BY FS_CardinalityType, FS_AddElement, FS_RemoveElement

Finite ==
  /\ IsFiniteSet(due) /\ IsFiniteSet(unsent) /\ IsFiniteSet(queued)
  /\ IsFiniteSet(working) /\ IsFiniteSet(answered)

LEMMA AllFinite ==
  ASSUME IsFiniteSet(Articles)
  PROVE  Types => Finite
  BY RequestsAreFinite, FS_Subset DEF Types, Finite

LEMMA ComesNearerStep ==
  Types /\ PoolInv /\ Finite /\ Finite' /\ [Next]_vars => [ComesNearer]_vars
<1> SUFFICES ASSUME Types, PoolInv, Finite, Finite', Next, phase # "idle"
             PROVE  \/ PhasesLeft[phase'] < PhasesLeft[phase]
                    \/ /\ phase' = phase /\ StepsLeft \in Nat
                       /\ StepsLeft' \in Nat /\ StepsLeft' < StepsLeft
  BY DEF ComesNearer
<1>0. /\ Cardinality(due) \in Nat /\ Cardinality(unsent) \in Nat
      /\ Cardinality(queued) \in Nat /\ Cardinality(working) \in Nat
      /\ Cardinality(answered) \in Nat
      /\ Cardinality(due') \in Nat /\ Cardinality(unsent') \in Nat
      /\ Cardinality(queued') \in Nat /\ Cardinality(working') \in Nat
      /\ Cardinality(answered') \in Nat
  BY FS_CardinalityType DEF Finite
<1>1. ASSUME phase' = phase, StepsLeft' < StepsLeft
      PROVE  /\ phase' = phase /\ StepsLeft \in Nat
             /\ StepsLeft' \in Nat /\ StepsLeft' < StepsLeft
  BY <1>0, <1>1 DEF StepsLeft
<1>2. ASSUME NEW a \in Articles, EmitCached(a)
      PROVE  phase' = phase /\ StepsLeft' < StepsLeft
  <2>1. a \in due /\ due' = due \ {a} /\ phase' = phase
        /\ UNCHANGED <<unsent, queued, working, answered>>
    BY <1>2 DEF EmitCached, pool
  <2>2. Cardinality(due') = Cardinality(due) - 1
    BY <2>1, Counted DEF Finite
  <2> QED
    BY <1>0, <2>1, <2>2 DEF StepsLeft
<1>3. ASSUME NEW q \in Requests, Put(q)
      PROVE  phase' = phase /\ StepsLeft' < StepsLeft
  <2>1. /\ q \in unsent /\ unsent' = unsent \ {q} /\ queued' = queued \cup {q}
        /\ phase' = phase /\ UNCHANGED <<due, working, answered>>
    BY <1>3 DEF Put
  <2>2. q \notin queued
    BY <2>1 DEF PoolInv, InFlight
  <2>3. /\ Cardinality(unsent') = Cardinality(unsent) - 1
        /\ Cardinality(queued') = Cardinality(queued) + 1
    BY <2>1, <2>2, Counted DEF Finite
  <2> QED
    BY <1>0, <2>1, <2>3 DEF StepsLeft
<1>4. ASSUME NEW q \in Requests, Take(q)
      PROVE  phase' = phase /\ StepsLeft' < StepsLeft
  <2>1. /\ q \in queued /\ queued' = queued \ {q} /\ working' = working \cup {q}
        /\ phase' = phase /\ UNCHANGED <<due, unsent, answered>>
    BY <1>4 DEF Take
  <2>2. q \notin working
    BY <2>1 DEF PoolInv
  <2>3. /\ Cardinality(queued') = Cardinality(queued) - 1
        /\ Cardinality(working') = Cardinality(working) + 1
    BY <2>1, <2>2, Counted DEF Finite
  <2> QED
    BY <1>0, <2>1, <2>3 DEF StepsLeft
<1>5. ASSUME NEW q \in Requests, NEW good \in BOOLEAN, Answer(q, good)
      PROVE  phase' = phase /\ StepsLeft' < StepsLeft
  <2>1. /\ q \in working /\ working' = working \ {q} /\ answered' = answered \cup {q}
        /\ phase' = phase /\ UNCHANGED <<due, unsent, queued>>
    BY <1>5 DEF Answer
  <2>2. q \notin answered
    BY <2>1 DEF PoolInv
  <2>3. /\ Cardinality(working') = Cardinality(working) - 1
        /\ Cardinality(answered') = Cardinality(answered) + 1
    BY <2>1, <2>2, Counted DEF Finite
  <2> QED
    BY <1>0, <2>1, <2>3 DEF StepsLeft
<1>6. ASSUME NEW q \in Requests, Drain(q)
      PROVE  phase' = phase /\ StepsLeft' < StepsLeft
  <2>1. /\ q \in answered /\ answered' = answered \ {q}
        /\ phase' = phase /\ UNCHANGED <<due, unsent, queued, working>>
    BY <1>6 DEF Drain
  <2>2. Cardinality(answered') = Cardinality(answered) - 1
    BY <2>1, Counted DEF Finite
  <2> QED
    BY <1>0, <2>1, <2>2 DEF StepsLeft
<1>7. CASE Prepare \/ CheckHealth \/ Finish \/ Dump \/ Promote
  BY <1>7 DEF Prepare, CheckHealth, Finish, Dump, Promote, PhasesLeft
<1>8. CASE Interrupt \/ Fail \/ Crash
  BY <1>8 DEF Interrupt, Fail, Crash, PhasesLeft, Types
<1>9. ~Start /\ \A a \in Articles : ~Reparse(a)
  BY DEF Start, Reparse
<1> QED
  BY <1>1, <1>2, <1>3, <1>4, <1>5, <1>6, <1>7, <1>8, <1>9 DEF Next, Progress

\* Whatever is put and however it is answered, a run under way is never stuck:
\* a request can be put, taken, answered or drained, or the run ends.
THEOREM RunsGoOn == Spec => []SomethingGoesOn
<1>1. IInv => SomethingGoesOn
  BY SomethingCan DEF IInv
<1> QED
  BY <1>1, Invariance, PTL

\* With finitely many articles, every step while a run is under way brings it
\* nearer its end: nothing is asked twice and no phase is gone back to.
THEOREM RunsComeNearer ==
  ASSUME IsFiniteSet(Articles)
  PROVE  Spec => [][ComesNearer]_vars
<1>1. IInv => Types /\ PoolInv /\ Finite
  BY AllFinite DEF IInv
<1>2. Types /\ PoolInv /\ Finite /\ Finite' /\ [Next]_vars => [ComesNearer]_vars
  BY ComesNearerStep
<1> QED
  BY <1>1, <1>2, Invariance, PTL DEF Spec
=============================================================================
