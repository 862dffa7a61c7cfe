---------------------------- MODULE ArchiveProofs ----------------------------
(***************************************************************************)
(* Pages that are done are kept, for any pages, hosts, threads and sizes.    *)
(* The inductive invariant says it of promised pages too, that an upload     *)
(* under a lock is of the whole batch, and that a batch begun after          *)
(* flush_all looked for batches holds no page that is done.  At the end, why *)
(* an upload is never stuck and its outcome stands.                          *)
(***************************************************************************)
EXTENDS Archive, TLAPS

Batch == [uid: Nat, pages: SUBSET Urls]
Types ==
  /\ batches \in [Keys -> Batch]
  /\ upload \in [Keys -> [by: Workers \cup {Flusher, Nobody}, batch: Batch, last: SUBSET Urls]]
  /\ nextUid \in Nat \ {0} /\ day \in 1..MaxDay
  /\ toVisit \subseteq Keys /\ leaving \subseteq Batch
  /\ promised \subseteq Urls \X Nat /\ done \subseteq Urls \X Nat

\* A lock is held by a thread that uploads what the batch holds.
UploadsWhole ==
  \A k \in Keys : Locked(k) => /\ upload[k].batch = batches[k]
                               /\ upload[k].last \subseteq batches[k].pages

Given == promised \cup done
NamesAreOld ==
  (\A p \in Given : p[2] < nextUid) /\ (\A k \in Keys : batches[k].uid < nextUid)

IsKept(p) ==
  \/ InArchive(p[1], p[2])
  \/ p[2] \in failed
  \/ (phase # "ended" /\ InMemory(p[1], p[2]))
GivenIsKept == \A p \in Given : IsKept(p)

\* flush_all leaves nothing behind that it should have taken.
NoneLeft ==
  phase \in {"collecting", "sending"} =>
    /\ phase = "sending" => toVisit = {}
    /\ \A k \in Open \ toVisit, p \in done : p[2] # batches[k].uid

IInv == Types /\ UploadsWhole /\ NamesAreOld /\ GivenIsKept /\ NoneLeft

(***************************************************************************)
(* Types.                                                                    *)
(***************************************************************************)
LEMMA EmptyMemory ==
  /\ [k \in Keys |-> NoBatch] \in [Keys -> Batch]
  /\ [k \in Keys |-> Free] \in [Keys -> [by: Workers \cup {Flusher, Nobody}, batch: Batch, last: SUBSET Urls]]
BY DEF NoBatch, Free, Batch

LEMMA TodaysKey ==
  ASSUME Types, NEW u \in Urls
  PROVE  /\ KeyOf(u) \in Keys
         /\ With(KeyOf(u), u) \in Batch
         /\ With(KeyOf(u), u).pages = batches[KeyOf(u)].pages \cup {u} \/ KeyOf(u) \notin Open
         /\ u \in With(KeyOf(u), u).pages
         /\ KeyOf(u) \in Open => With(KeyOf(u), u).uid = batches[KeyOf(u)].uid
         /\ KeyOf(u) \notin Open => With(KeyOf(u), u).uid = nextUid
<1>1. KeyOf(u) \in Keys
  BY DEF KeyOf, Keys, Types
<1>2. batches[KeyOf(u)] \in Batch
  BY <1>1 DEF Types
<1> QED
  BY <1>1, <1>2 DEF With, Batch, Types

LEMMA TypesInit == Init => Types
<1> SUFFICES ASSUME Init PROVE Types
  OBVIOUS
<1>1. 1 \in 1..MaxDay /\ 1 \in Nat \ {0}
  BY SizesAssumption
<1> QED
  BY <1>1, EmptyMemory DEF Init, Types

LEMMA TypesStep == Types /\ [Next]_vars => Types'
<1> SUFFICES ASSUME Types, [Next]_vars PROVE Types'
  OBVIOUS
<1>1. CASE Tomorrow
  BY <1>1, SizesAssumption DEF Tomorrow, memory, Types
<1>2. CASE Save
  BY <1>2 DEF Save, memory, Types
<1>3. CASE End
  BY <1>3 DEF End, Types, Open
<1>4. CASE Kill \/ Exit
  BY <1>4, EmptyMemory DEF Kill, Exit, Forgotten, Types
<1>5. CASE Restart
  BY <1>5 DEF Restart, memory, Types
<1>6. ASSUME NEW w \in Workers, NEW u \in Urls, Add(w, u) PROVE Types'
  <2> DEFINE k == KeyOf(u)
             b == With(k, u)
  <2>1. k \in Keys /\ b \in Batch
    BY TodaysKey
  <2>2. batches' = [batches EXCEPT ![k] = b] /\ nextUid' \in {nextUid, nextUid + 1}
    BY <1>6 DEF Add
  <2>3. \/ upload' = [upload EXCEPT ![k] = [by |-> w, batch |-> b, last |-> {u}]] /\ promised' = promised
        \/ upload' = upload /\ promised' = promised \cup {<<u, b.uid>>}
    BY <1>6 DEF Add
  <2>4. UNCHANGED <<day, toVisit, leaving, done>>
    BY <1>6 DEF Add
  <2>5. b.uid \in Nat
    BY <2>1 DEF Batch
  <2> HIDE DEF k, b
  <2>6. batches' \in [Keys -> Batch] /\ nextUid' \in Nat \ {0}
    BY <2>1, <2>2 DEF Types
  <2>7. upload' \in [Keys -> [by: Workers \cup {Flusher, Nobody}, batch: Batch, last: SUBSET Urls]]
    BY <2>1, <2>3 DEF Types
  <2>8. promised' \subseteq Urls \X Nat
    BY <2>3, <2>5 DEF Types
  <2> QED
    BY <2>4, <2>6, <2>7, <2>8 DEF Types
<1>7. ASSUME NEW k \in Keys, FlushIdle(k) PROVE Types'
  <2>1. upload' \in [Keys -> [by: Workers \cup {Flusher, Nobody}, batch: Batch, last: SUBSET Urls]]
    BY <1>7 DEF FlushIdle, Types
  <2> QED
    BY <2>1, <1>7 DEF FlushIdle, Types
<1>8. ASSUME NEW k \in Keys, NEW ok \in BOOLEAN, SendLocked(k, ok) PROVE Types'
  <2>1. upload' \in [Keys -> [by: Workers \cup {Flusher, Nobody}, batch: Batch, last: SUBSET Urls]]
    BY <1>8 DEF SendLocked, Released, Types, Free, NoBatch, Batch
  <2>2. batches' \in [Keys -> Batch]
    BY <1>8 DEF SendLocked, Types, NoBatch, Batch
  <2>3. upload[k].last \subseteq Urls /\ upload[k].batch.uid \in Nat
    BY DEF Types, Batch
  <2>4. promised' \subseteq Urls \X Nat
    BY <2>3, <1>8 DEF SendLocked, Types
  <2> QED
    BY <2>1, <2>2, <2>4, <1>8 DEF SendLocked, Types
<1>9. ASSUME NEW k \in Keys, Collect(k) PROVE Types'
  <2>1. batches' \in [Keys -> Batch] /\ batches[k] \in Batch
    BY <1>9 DEF Collect, Types, NoBatch, Batch
  <2>2. leaving' \subseteq Batch
    BY <2>1, <1>9 DEF Collect, Types
  <2> QED
    BY <2>1, <2>2, <1>9 DEF Collect, Types
<1>10. CASE Collected
  BY <1>10 DEF Collected, Types
<1>11. ASSUME NEW b \in leaving, NEW ok \in BOOLEAN, SendLeft(b, ok) PROVE Types'
  BY <1>11 DEF SendLeft, Types
<1>12. CASE UNCHANGED vars
  BY <1>12 DEF vars, memory, Types
<1> QED
  BY <1>1, <1>2, <1>3, <1>4, <1>5, <1>6, <1>7, <1>8, <1>9, <1>10, <1>11, <1>12 DEF Next, Uploads

(***************************************************************************)
(* What is uploaded under a lock.                                            *)
(***************************************************************************)
LEMMA WholeInit == Init => UploadsWhole
BY DEF Init, UploadsWhole, Locked, Free

LEMMA WholeStep == Types /\ UploadsWhole /\ [Next]_vars => UploadsWhole'
<1> SUFFICES ASSUME Types, UploadsWhole, [Next]_vars, NEW j \in Keys, Locked(j)'
             PROVE  upload'[j].batch = batches'[j] /\ upload'[j].last \subseteq batches'[j].pages
  BY DEF UploadsWhole
<1>a. ASSUME upload'[j] = upload[j], batches'[j] = batches[j]
      PROVE  upload'[j].batch = batches'[j] /\ upload'[j].last \subseteq batches'[j].pages
  BY <1>a DEF UploadsWhole, Locked
<1>1. CASE Tomorrow \/ Save \/ End \/ Restart \/ Collected \/ UNCHANGED vars
  BY <1>1, <1>a DEF Tomorrow, Save, End, Restart, Collected, vars, memory
<1>2. CASE Kill \/ Exit
  BY <1>2 DEF Kill, Exit, Forgotten, Locked, Free
<1>3. ASSUME NEW w \in Workers, NEW u \in Urls, Add(w, u)
      PROVE  upload'[j].batch = batches'[j] /\ upload'[j].last \subseteq batches'[j].pages
  <2> DEFINE k == KeyOf(u)
             b == With(k, u)
  <2>1. k \in Keys /\ u \in b.pages
    BY TodaysKey
  <2>2. batches' = [batches EXCEPT ![k] = b] /\ ~Locked(k)
    BY <1>3 DEF Add
  <2>3. \/ upload' = [upload EXCEPT ![k] = [by |-> w, batch |-> b, last |-> {u}]]
        \/ upload' = upload
    BY <1>3 DEF Add
  <2> HIDE DEF k, b
  <2>4. CASE j = k
    <3>1. upload' = [upload EXCEPT ![k] = [by |-> w, batch |-> b, last |-> {u}]]
      BY <2>2, <2>3, <2>4 DEF Locked
    <3> QED
      BY <2>1, <2>2, <2>4, <3>1 DEF Types
  <2>5. CASE j # k
    BY <2>2, <2>3, <2>5, <1>a DEF Types
  <2> QED
    BY <2>4, <2>5
<1>4. ASSUME NEW k \in Keys, FlushIdle(k)
      PROVE  upload'[j].batch = batches'[j] /\ upload'[j].last \subseteq batches'[j].pages
  <2>1. CASE j = k
    BY <2>1, <1>4 DEF FlushIdle, Types
  <2>2. CASE j # k
    BY <2>2, <1>4, <1>a DEF FlushIdle, Types
  <2> QED
    BY <2>1, <2>2
<1>5. ASSUME NEW k \in Keys, NEW ok \in BOOLEAN, SendLocked(k, ok)
      PROVE  upload'[j].batch = batches'[j] /\ upload'[j].last \subseteq batches'[j].pages
  <2>1. j # k
    BY <1>5 DEF SendLocked, Released, Locked, Free, Types
  <2> QED
    BY <2>1, <1>5, <1>a DEF SendLocked, Released, Types
<1>6. ASSUME NEW k \in Keys, Collect(k)
      PROVE  upload'[j].batch = batches'[j] /\ upload'[j].last \subseteq batches'[j].pages
  <2>1. j # k
    BY <1>6 DEF Collect, Locked
  <2> QED
    BY <2>1, <1>6, <1>a DEF Collect, Types
<1>7. ASSUME NEW b \in leaving, NEW ok \in BOOLEAN, SendLeft(b, ok)
      PROVE  upload'[j].batch = batches'[j] /\ upload'[j].last \subseteq batches'[j].pages
  BY <1>7, <1>a DEF SendLeft
<1> QED
  BY <1>1, <1>2, <1>3, <1>4, <1>5, <1>6, <1>7 DEF Next, Uploads

(***************************************************************************)
(* Names.                                                                    *)
(***************************************************************************)
LEMMA NamesInit == Init => NamesAreOld
BY DEF Init, NamesAreOld, Given, NoBatch

LEMMA NamesStep == Types /\ UploadsWhole /\ NamesAreOld /\ [Next]_vars => NamesAreOld'
<1> SUFFICES ASSUME Types, UploadsWhole, NamesAreOld, [Next]_vars PROVE NamesAreOld'
  OBVIOUS
<1>a. ASSUME Given' \subseteq Given, nextUid' = nextUid,
             \A k \in Keys : batches'[k] \in {batches[k], NoBatch}
      PROVE  NamesAreOld'
  BY <1>a DEF NamesAreOld, Types, NoBatch
<1>1. CASE Tomorrow \/ Save \/ End \/ Restart \/ Collected \/ UNCHANGED vars
  BY <1>1, <1>a DEF Tomorrow, Save, End, Restart, Collected, vars, memory, Given
<1>2. CASE Kill \/ Exit
  BY <1>2, <1>a DEF Kill, Exit, Forgotten, Given
<1>3. ASSUME NEW w \in Workers, NEW u \in Urls, Add(w, u) PROVE NamesAreOld'
  <2> DEFINE k == KeyOf(u)
             b == With(k, u)
  <2>1. k \in Keys /\ b \in Batch /\ b.uid < nextUid'
    <3>1. k \in Open => b.uid = batches[k].uid /\ nextUid' = nextUid
      BY <1>3, TodaysKey DEF Add
    <3>2. k \notin Open => b.uid = nextUid /\ nextUid' = nextUid + 1
      BY <1>3, TodaysKey DEF Add
    <3>3. k \in Keys /\ b \in Batch
      BY TodaysKey
    <3> QED
      BY <3>1, <3>2, <3>3 DEF NamesAreOld, Types
  <2>2. nextUid' \in {nextUid, nextUid + 1} /\ batches' = [batches EXCEPT ![k] = b]
    BY <1>3 DEF Add
  <2>3. Given' \subseteq Given \cup {<<u, b.uid>>}
    BY <1>3 DEF Add, Given
  <2> HIDE DEF k, b
  <2>4. \A j \in Keys : batches'[j].uid < nextUid'
    <3> SUFFICES ASSUME NEW j \in Keys PROVE batches'[j].uid < nextUid'
      OBVIOUS
    <3>1. CASE j = k
      BY <2>1, <2>2, <3>1 DEF Types
    <3>2. CASE j # k
      <4>1. batches'[j] = batches[j] /\ batches[j].uid \in Nat
        BY <2>2, <3>2 DEF Types, Batch
      <4> QED
        BY <4>1, <2>2 DEF NamesAreOld, Types
    <3> QED
      BY <3>1, <3>2
  <2>5. \A p \in Given' : p[2] < nextUid'
    <3> SUFFICES ASSUME NEW p \in Given' PROVE p[2] < nextUid'
      OBVIOUS
    <3>1. CASE p \in Given
      <4>1. p[2] \in Nat
        BY <3>1 DEF Given, Types
      <4> QED
        BY <4>1, <3>1, <2>2 DEF NamesAreOld, Types
    <3>2. CASE p = <<u, b.uid>>
      BY <3>2, <2>1
    <3> QED
      BY <2>3, <3>1, <3>2
  <2> QED
    BY <2>4, <2>5 DEF NamesAreOld
<1>4. ASSUME NEW k \in Keys, FlushIdle(k) PROVE NamesAreOld'
  BY <1>4, <1>a DEF FlushIdle, Given
<1>5. ASSUME NEW k \in Keys, NEW ok \in BOOLEAN, SendLocked(k, ok) PROVE NamesAreOld'
  <2>1. upload[k].batch = batches[k]
    BY <1>5 DEF SendLocked, UploadsWhole, Locked
  <2>2. Given' = Given \cup (upload[k].last \X {batches[k].uid}) /\ nextUid' = nextUid
    BY <2>1, <1>5 DEF SendLocked, Given
  <2>3. batches[k].uid < nextUid /\ \A p \in upload[k].last \X {batches[k].uid} : p[2] = batches[k].uid
    BY DEF NamesAreOld
  <2>4. \A p \in Given' : p[2] < nextUid'
    BY <2>2, <2>3 DEF NamesAreOld
  <2>5. \A j \in Keys : batches'[j].uid < nextUid'
    BY <2>2, <1>5 DEF SendLocked, NamesAreOld, Types, NoBatch
  <2> QED
    BY <2>4, <2>5 DEF NamesAreOld
<1>6. ASSUME NEW k \in Keys, Collect(k) PROVE NamesAreOld'
  BY <1>6, <1>a DEF Collect, Given, Types
<1>7. ASSUME NEW b \in leaving, NEW ok \in BOOLEAN, SendLeft(b, ok) PROVE NamesAreOld'
  BY <1>7, <1>a DEF SendLeft, Given
<1> QED
  BY <1>1, <1>2, <1>3, <1>4, <1>5, <1>6, <1>7 DEF Next, Uploads

(***************************************************************************)
(* Nothing that is done is left behind by flush_all.                         *)
(***************************************************************************)
LEMMA LeftInit == Init => NoneLeft
BY DEF Init, NoneLeft

LEMMA LeftStep == Types /\ NamesAreOld /\ NoneLeft /\ [Next]_vars => NoneLeft'
<1> SUFFICES ASSUME Types, NamesAreOld, NoneLeft, [Next]_vars PROVE NoneLeft'
  OBVIOUS
<1>a. ASSUME phase' = phase, toVisit' = toVisit, done' = done,
             \A k \in Keys : batches'[k] = NoBatch \/ batches'[k].uid = batches[k].uid,
             \A k \in Keys : batches[k] = NoBatch => batches'[k] = NoBatch
      PROVE  NoneLeft'
  BY <1>a DEF NoneLeft, Open
<1>1. CASE Tomorrow \/ UNCHANGED vars
  BY <1>1, <1>a DEF Tomorrow, vars, memory
<1>2. CASE Save \/ Restart \/ Kill \/ Exit
  BY <1>2 DEF Save, Restart, Kill, Exit, NoneLeft
<1>3. CASE End
  BY <1>3 DEF End, NoneLeft, Open
<1>4. ASSUME NEW w \in Workers, NEW u \in Urls, Add(w, u) PROVE NoneLeft'
  <2> DEFINE k == KeyOf(u)
             b == With(k, u)
  <2>1. k \in Keys /\ (k \in Open => b.uid = batches[k].uid) /\ (k \notin Open => b.uid = nextUid)
    BY TodaysKey
  <2>2. batches' = [batches EXCEPT ![k] = b] /\ UNCHANGED <<phase, toVisit, done>>
    BY <1>4 DEF Add
  <2> HIDE DEF k, b
  <2> SUFFICES ASSUME phase \in {"collecting", "sending"}
               PROVE  /\ phase = "sending" => toVisit = {}
                      /\ \A j \in Open' \ toVisit, p \in done : p[2] # batches'[j].uid
    BY <2>2 DEF NoneLeft
  <2>3. ASSUME NEW j \in Open' \ toVisit, NEW p \in done PROVE p[2] # batches'[j].uid
    <3>1. CASE j # k
      <4>1. batches'[j] = batches[j] /\ j \in Open
        BY <2>1, <2>2, <2>3, <3>1 DEF Types, Open
      <4> QED
        BY <4>1, <2>3 DEF NoneLeft
    <3>2. CASE j = k /\ k \in Open
      BY <2>1, <2>2, <2>3, <3>2 DEF NoneLeft, Types
    <3>3. CASE j = k /\ k \notin Open
      <4>1. batches'[j].uid = nextUid
        BY <2>1, <2>2, <3>3 DEF Types
      <4>2. p[2] < nextUid /\ p[2] \in Nat
        BY <2>3 DEF NamesAreOld, Given, Types
      <4> QED
        BY <4>1, <4>2 DEF Types
    <3> QED
      BY <3>1, <3>2, <3>3
  <2> QED
    BY <2>3 DEF NoneLeft
<1>5. ASSUME NEW k \in Keys, FlushIdle(k) PROVE NoneLeft'
  BY <1>5, <1>a DEF FlushIdle
<1>6. ASSUME NEW k \in Keys, NEW ok \in BOOLEAN, SendLocked(k, ok) PROVE NoneLeft'
  BY <1>6, <1>a DEF SendLocked, Types
<1>7. ASSUME NEW k \in Keys, Collect(k) PROVE NoneLeft'
  <2>1. phase' = "collecting" /\ phase = "collecting" /\ done' = done /\ toVisit' = toVisit \ {k}
    BY <1>7 DEF Collect
  <2>2. Open' \ toVisit' \subseteq Open \ toVisit /\ \A j \in Open' : batches'[j] = batches[j]
    BY <2>1, <1>7 DEF Collect, Open, Types
  <2> QED
    BY <2>1, <2>2 DEF NoneLeft
<1>8. CASE Collected
  BY <1>8 DEF Collected, AllVisited, NoneLeft, Open
<1>9. ASSUME NEW b \in leaving, NEW ok \in BOOLEAN, SendLeft(b, ok) PROVE NoneLeft'
  BY <1>9, <1>a DEF SendLeft
<1> QED
  BY <1>1, <1>2, <1>3, <1>4, <1>5, <1>6, <1>7, <1>8, <1>9 DEF Next, Uploads

(***************************************************************************)
(* Every page that was given a path is kept.                                 *)
(***************************************************************************)
LEMMA KeptInit == Init => GivenIsKept
BY DEF Init, GivenIsKept, Given

LEMMA KeptStep ==
  Types /\ UploadsWhole /\ NoneLeft /\ GivenIsKept /\ [Next]_vars => GivenIsKept'
<1> SUFFICES ASSUME Types, UploadsWhole, NoneLeft, GivenIsKept, [Next]_vars,
                    NEW p \in Given'
             PROVE  IsKept(p)'
  BY DEF GivenIsKept
<1>a. ASSUME p \in Given, bucket \subseteq bucket', failed \subseteq failed',
             phase # "ended" /\ InMemory(p[1], p[2])
               => \/ phase' # "ended" /\ InMemory(p[1], p[2])'
                  \/ InArchive(p[1], p[2])' \/ p[2] \in failed'
      PROVE  IsKept(p)'
  <2>1. IsKept(p)
    BY <1>a DEF GivenIsKept
  <2>2. InArchive(p[1], p[2]) => InArchive(p[1], p[2])'
    BY <1>a DEF InArchive
  <2>3. p[2] \in failed => p[2] \in failed'
    BY <1>a
  <2> QED
    BY <1>a, <2>1, <2>2, <2>3 DEF IsKept
<1>s. ASSUME NEW b, NEW ok, Sent(b, ok)
      PROVE  /\ bucket \subseteq bucket' /\ failed \subseteq failed'
             /\ b \in bucket' \/ b.uid \in failed'
  BY <1>s DEF Sent
<1>1. CASE Tomorrow \/ Save \/ End \/ Restart \/ Collected \/ UNCHANGED vars
  BY <1>1, <1>a DEF Tomorrow, Save, End, Restart, Collected, vars, memory, Given, InMemory
<1>2. CASE Kill
  <2>1. InMemory(p[1], p[2]) => p[2] \in failed'
    BY <1>2 DEF Kill, InMemory, Open, NoBatch
  <2> QED
    BY <2>1, <1>2, <1>a DEF Kill, Forgotten, Given
<1>3. CASE Exit
  <2>1. p \in done
    BY <1>3 DEF Exit, Forgotten, Given
  <2>2. ~InMemory(p[1], p[2])
    BY <2>1, <1>3 DEF Exit, InMemory, NoneLeft, Open, NoBatch
  <2> QED
    BY <2>1, <2>2, <1>3, <1>a DEF Exit, Given
<1>4. ASSUME NEW w \in Workers, NEW u \in Urls, Add(w, u) PROVE IsKept(p)'
  <2> DEFINE k == KeyOf(u)
             b == With(k, u)
  <2>1. k \in Keys /\ u \in b.pages
    BY TodaysKey
  <2>2. k \in Open => b.uid = batches[k].uid /\ b.pages = batches[k].pages \cup {u}
    BY TodaysKey
  <2>3. batches' = [batches EXCEPT ![k] = b] /\ UNCHANGED <<phase, leaving, bucket, failed>> /\ phase # "ended"
    BY <1>4 DEF Add
  <2>4. Given' \subseteq Given \cup {<<u, b.uid>>}
    BY <1>4 DEF Add, Given
  <2> HIDE DEF k, b
  <2>5. CASE p = <<u, b.uid>>
    <3>1. batches'[k] = b
      BY <2>1, <2>3 DEF Types
    <3> QED
      BY <2>1, <2>3, <2>5, <3>1 DEF IsKept, InMemory
  <2>6. CASE p \in Given
    <3>1. ASSUME NEW j \in Keys, batches[j].uid = p[2], p[1] \in batches[j].pages
          PROVE  batches'[j].uid = p[2] /\ p[1] \in batches'[j].pages
      <4>1. j \in Open
        BY <3>1 DEF Open, NoBatch
      <4> QED
        BY <4>1, <3>1, <2>1, <2>2, <2>3 DEF Types
    <3>2. InMemory(p[1], p[2]) => InMemory(p[1], p[2])'
      BY <3>1, <2>3 DEF InMemory
    <3> QED
      BY <3>2, <2>3, <2>6, <1>a
  <2> QED
    BY <2>4, <2>5, <2>6
<1>5. ASSUME NEW k \in Keys, FlushIdle(k) PROVE IsKept(p)'
  BY <1>5, <1>a DEF FlushIdle, Given, InMemory
<1>6. ASSUME NEW k \in Keys, NEW ok \in BOOLEAN, SendLocked(k, ok) PROVE IsKept(p)'
  <2> DEFINE b == batches[k]
  <2>1. upload[k].batch = b /\ upload[k].last \subseteq b.pages
    BY <1>6 DEF SendLocked, UploadsWhole, Locked
  <2>2. Sent(b, ok) /\ batches' = [batches EXCEPT ![k] = NoBatch] /\ UNCHANGED <<phase, leaving>>
    BY <2>1, <1>6 DEF SendLocked
  <2>3. Given' = Given \cup (upload[k].last \X {b.uid})
    BY <2>1, <1>6 DEF SendLocked, Given
  <2>4. bucket \subseteq bucket' /\ failed \subseteq failed' /\ (b \in bucket' \/ b.uid \in failed')
    BY <2>2, <1>s
  <2>5. p[1] \in b.pages /\ p[2] = b.uid => InArchive(p[1], p[2])' \/ p[2] \in failed'
    BY <2>4 DEF InArchive
  <2>6. CASE p \in upload[k].last \X {b.uid}
    <3>1. p[1] \in b.pages /\ p[2] = b.uid
      BY <2>1, <2>6
    <3> QED
      BY <2>5, <3>1 DEF IsKept
  <2>7. CASE p \in Given
    <3>1. InMemory(p[1], p[2]) => InMemory(p[1], p[2])' \/ (p[1] \in b.pages /\ p[2] = b.uid)
      BY <2>2 DEF InMemory, Types
    <3> QED
      BY <3>1, <2>2, <2>4, <2>5, <2>7, <1>a
  <2> QED
    BY <2>3, <2>6, <2>7
<1>7. ASSUME NEW k \in Keys, Collect(k) PROVE IsKept(p)'
  <2>1. InMemory(p[1], p[2]) => InMemory(p[1], p[2])'
    <3> SUFFICES ASSUME InMemory(p[1], p[2]) PROVE InMemory(p[1], p[2])'
      OBVIOUS
    <3>1. CASE \E b \in leaving : b.uid = p[2] /\ p[1] \in b.pages
      BY <3>1, <1>7 DEF Collect, InMemory
    <3>2. ASSUME NEW j \in Keys, batches[j].uid = p[2], p[1] \in batches[j].pages
          PROVE  InMemory(p[1], p[2])'
      <4>1. CASE j = k
        <5>1. k \in Open
          BY <3>2, <4>1 DEF Open, NoBatch
        <5>2. batches[k] \in leaving'
          BY <5>1, <1>7 DEF Collect
        <5> QED
          BY <5>2, <3>2, <4>1 DEF InMemory
      <4>2. CASE j # k
        <5>1. batches'[j] = batches[j]
          BY <4>2, <1>7 DEF Collect, Types
        <5> QED
          BY <5>1, <3>2 DEF InMemory
      <4> QED
        BY <4>1, <4>2
    <3> QED
      BY <3>1, <3>2 DEF InMemory
  <2> QED
    BY <2>1, <1>7, <1>a DEF Collect, Given
<1>8. ASSUME NEW b \in leaving, NEW ok \in BOOLEAN, SendLeft(b, ok) PROVE IsKept(p)'
  <2>1. bucket \subseteq bucket' /\ failed \subseteq failed' /\ (b \in bucket' \/ b.uid \in failed')
    BY <1>8, <1>s DEF SendLeft
  <2>2. InMemory(p[1], p[2]) =>
          InMemory(p[1], p[2])' \/ (b.uid = p[2] /\ p[1] \in b.pages)
    BY <1>8 DEF SendLeft, InMemory
  <2> QED
    BY <2>1, <2>2, <1>8, <1>a DEF SendLeft, Given, InArchive
<1> QED
  BY <1>1, <1>2, <1>3, <1>4, <1>5, <1>6, <1>7, <1>8 DEF Next, Uploads

(***************************************************************************)
(* Theorems.                                                                 *)
(***************************************************************************)
\* The invariant that the next theorem rests on.
THEOREM Invariance == Spec => []IInv
<1>1. Init => IInv
  BY TypesInit, WholeInit, NamesInit, KeptInit, LeftInit DEF IInv
<1>2. IInv /\ [Next]_vars => IInv'
  BY TypesStep, WholeStep, NamesStep, KeptStep, LeftStep DEF IInv
<1> QED
  BY <1>1, <1>2, PTL DEF Spec

\* Pages marked done are archived or on their way, unless an upload failed or the
\* process was killed (BatchClient).
THEOREM Archived == Spec => []DoneIsArchived
<1>1. IInv => DoneIsArchived
  BY DEF IInv, GivenIsKept, Given, IsKept, DoneIsArchived
<1> QED
  BY <1>1, Invariance, PTL

(***************************************************************************)
(* Why a page that is done gets archived.  DoneGetsArchived needs the        *)
(* fairness of Uploads, which TLC checks on an instance.  What that fairness *)
(* rests on is proved here: while such a page waits, a step of Uploads can   *)
(* be taken, and what is uploaded or lost stays so.                          *)
(***************************************************************************)
Settled(id) == id \in failed \/ \E b \in bucket : b.uid = id

\* The guards of the steps of Uploads.
CanUpload ==
  \/ \E k \in Keys : Locked(k)
  \/ \E k \in Open : ~Locked(k) /\ \A j \in Keys : upload[j].by # Flusher
  \/ phase = "collecting" /\ (AllVisited \/ \E k \in toVisit : ~Locked(k))
  \/ phase = "sending"

NoneStuck ==
  \A p \in done : Settled(p[2]) \/ (phase # "ended" /\ CanUpload)

StaysSettled == \A id \in Nat : Settled(id) => Settled(id)'

\* Batches are taken out only at the end of a process, and not remembered.
TakenAtEnd ==
  /\ phase \in {"crawling", "collecting", "sending", "ended"}
  /\ phase \in {"crawling", "ended"} => leaving = {}

LEMMA TakenStep == TakenAtEnd /\ [Next]_vars => TakenAtEnd'
<1> SUFFICES ASSUME TakenAtEnd, [Next]_vars PROVE TakenAtEnd'
  OBVIOUS
<1> USE DEF TakenAtEnd, memory
<1>1. CASE Tomorrow \/ Save \/ End \/ Kill \/ Restart
  BY <1>1 DEF Tomorrow, Save, End, Kill, Restart, Forgotten
<1>2. ASSUME NEW w \in Workers, NEW u \in Urls, Add(w, u) PROVE TakenAtEnd'
  BY <1>2 DEF Add
<1>3. ASSUME NEW k \in Keys, FlushIdle(k) \/ Collect(k) PROVE TakenAtEnd'
  BY <1>3 DEF FlushIdle, Collect
<1>4. ASSUME NEW k \in Keys, NEW ok \in BOOLEAN, SendLocked(k, ok) PROVE TakenAtEnd'
  BY <1>4 DEF SendLocked
<1>5. ASSUME NEW b \in leaving, NEW ok \in BOOLEAN, SendLeft(b, ok) PROVE TakenAtEnd'
  BY <1>5 DEF SendLeft
<1>6. CASE Collected \/ Exit \/ UNCHANGED vars
  BY <1>6 DEF Collected, Exit, Forgotten, vars
<1> QED
  BY <1>1, <1>2, <1>3, <1>4, <1>5, <1>6 DEF Next, Uploads

LEMMA WaitingCan == IInv /\ TakenAtEnd => NoneStuck
<1> SUFFICES ASSUME IInv, TakenAtEnd, NEW p \in done, ~Settled(p[2])
             PROVE  phase # "ended" /\ CanUpload
  BY DEF NoneStuck
<1>1. phase # "ended" /\ InMemory(p[1], p[2])
  BY DEF IInv, GivenIsKept, Given, IsKept, InArchive, Settled
<1>2. ASSUME NEW k \in Keys, p[1] \in batches[k].pages
      PROVE  CanUpload
  <2>1. k \in Open
    BY <1>2 DEF Open, NoBatch
  <2>2. CASE \E j \in Keys : Locked(j)
    BY <2>2 DEF CanUpload
  <2>3. CASE \A j \in Keys : ~Locked(j)
    <3>1. \A j \in Keys : upload[j].by # Flusher
      BY <2>3, ThreadsAssumption DEF Locked, Flusher, Nobody
    <3> QED
      BY <2>1, <2>3, <3>1 DEF CanUpload, Open
  <2> QED
    BY <2>2, <2>3
<1>3. CASE leaving # {}
  <2>1. phase \in {"collecting", "sending"}
    BY <1>1, <1>3 DEF TakenAtEnd
  <2>2. toVisit \subseteq Keys
    BY DEF IInv, Types
  <2> QED
    BY <2>1, <2>2 DEF CanUpload, AllVisited
<1> QED
  BY <1>1, <1>2, <1>3 DEF InMemory

\* A page that is done and not yet archived never waits for a lock nobody gives
\* back: some upload can begin, or end, or flush_all go on (BatchClient).
THEOREM UploadsNeverStuck == Spec => []NoneStuck
<1>1. Init => TakenAtEnd
  BY DEF Init, TakenAtEnd
<1>2. Spec => []TakenAtEnd
  BY <1>1, TakenStep, PTL DEF Spec
<1> QED
  BY <1>2, WaitingCan, Invariance, PTL

\* What is archived stays archived, and what was lost is not forgotten.
THEOREM SettledForGood == Spec => [][StaysSettled]_vars
<1>1. [Next]_vars => [bucket \subseteq bucket' /\ failed \subseteq failed']_vars
  BY DEF Next, Uploads, Tomorrow, Save, End, Kill, Restart, Add, FlushIdle, Collect,
         SendLocked, SendLeft, Sent, Collected, Exit, vars
<1>2. [bucket \subseteq bucket' /\ failed \subseteq failed']_vars => [StaysSettled]_vars
  BY DEF StaysSettled, Settled
<1> QED
  BY <1>1, <1>2, PTL DEF Spec
=============================================================================
