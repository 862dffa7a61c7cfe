------------------------------- MODULE Archive -------------------------------
(***************************************************************************)
(* Where a crawler keeps the pages it fetched (stores/storage.py,            *)
(* BatchClient).  A page goes into the open batch of its host and day, and   *)
(* the path it is given names an archive that is uploaded later: when the    *)
(* batch is full, when it has been idle, or when the process ends.  The      *)
(* crawler marks the page done with that path long before, and a page that   *)
(* is done is never fetched again.                                           *)
(***************************************************************************)
EXTENDS Naturals, FiniteSets

CONSTANTS
  Urls,
  Host,      \* the host of each, a function on Urls
  Workers,   \* the threads that fetch
  MaxBatch,  \* pages to a batch, for --max_batch_size
  MaxUid,    \* bound: archives begun
  MaxDay     \* bound: days

Flusher == "batch-idle-flusher"
Nobody == "nobody"

ASSUME SizesAssumption ==
  MaxBatch \in Nat \ {0} /\ MaxUid \in Nat /\ MaxDay \in Nat \ {0}
ASSUME ThreadsAssumption == Flusher \notin Workers /\ Nobody \notin Workers

VARIABLES
  day,      \* today
  batches,  \* `_batches`: the open batch of each host and day, or none
  upload,   \* who holds each of `_batch_locks`, and what it is uploading
  nextUid,  \* the name of the next archive
  phase,    \* "crawling", "collecting" and "sending" in flush_all, "ended"
  toVisit,  \* keys flush_all has still to look at
  leaving,  \* batches it has taken out
  bucket,   \* archives uploaded
  failed,   \* names of those that never will be
  promised, \* pages with the path they were given, not yet marked done
  done      \* pages marked done, with their path

memory == <<batches, upload, nextUid, toVisit, leaving>>
vars == <<day, memory, phase, bucket, failed, promised, done>>

Keys == {Host[u] : u \in Urls} \X (1..MaxDay)
NoBatch == [uid |-> 0, pages |-> {}]
Free == [by |-> Nobody, batch |-> NoBatch, last |-> {}]
KeyOf(u) == <<Host[u], day>>
Open == {k \in Keys : batches[k] # NoBatch}

Init ==
  /\ day = 1 /\ nextUid = 1 /\ phase = "crawling"
  /\ batches = [k \in Keys |-> NoBatch] /\ upload = [k \in Keys |-> Free]
  /\ toVisit = {} /\ leaving = {} /\ bucket = {} /\ failed = {}
  /\ promised = {} /\ done = {}

\* Midnight: the pages of a host go into another batch.
Tomorrow ==
  /\ day < MaxDay /\ day' = day + 1
  /\ UNCHANGED <<memory, phase, bucket, failed, promised, done>>

(***************************************************************************)
(* batch_upload.                                                             *)
(***************************************************************************)
Fetched(u) ==
  \/ \E id \in 1..MaxUid : <<u, id>> \in promised \cup done
  \/ \E k \in Keys : u \in upload[k].last

LockedByWorker(k) == upload[k].by \in Workers  \* mutant: the flusher takes no lock
Locked(k) == upload[k].by # Nobody

\* The batch as it is with one more page.
With(k, u) ==
  IF k \in Open THEN [batches[k] EXCEPT !.pages = @ \cup {u}]
  ELSE [uid |-> nextUid, pages |-> {u}]

Add(w, u) ==
  LET k == KeyOf(u)
      b == With(k, u)
  IN  /\ phase # "ended" /\ ~Fetched(u) /\ \A j \in Keys : upload[j].by # w
      /\ ~Locked(k)
      /\ k \notin Open => nextUid <= MaxUid
      /\ batches' = [batches EXCEPT ![k] = b]
      /\ nextUid' = IF k \in Open THEN nextUid ELSE nextUid + 1
      /\ IF Cardinality(b.pages) >= MaxBatch
         THEN /\ upload' = [upload EXCEPT ![k] = [by |-> w, batch |-> b, last |-> {u}]]
              /\ UNCHANGED promised
         ELSE promised' = promised \cup {<<u, b.uid>>} /\ UNCHANGED upload
      /\ UNCHANGED <<day, phase, toVisit, leaving, bucket, failed, done>>

(***************************************************************************)
(* The idle flusher looks at the keys one at a time, each under its lock.    *)
(***************************************************************************)
FlushIdle(k) ==
  /\ phase # "ended" /\ \A j \in Keys : upload[j].by # Flusher
  /\ ~Locked(k) /\ k \in Open
  /\ upload' = [upload EXCEPT ![k] = [by |-> Flusher, batch |-> batches[k], last |-> {}]]
  /\ UNCHANGED <<day, batches, nextUid, phase, toVisit, leaving, bucket, failed, promised, done>>

\* _flush_batch: a failure is printed, and the batch is dropped all the same.
Sent(b, ok) ==
  IF ok THEN bucket' = bucket \cup {b} /\ UNCHANGED failed
  ELSE failed' = failed \cup {b.uid} /\ UNCHANGED bucket

\* The end of an upload under a lock.  A worker now returns with its path.
Kept(k) == upload  \* mutant: the lock is not given back
Released(k) == [upload EXCEPT ![k] = Free]
SendLocked(k, ok) ==
  LET up == upload[k]
  IN  /\ phase # "ended" /\ up.by # Nobody
      /\ Sent(up.batch, ok)
      /\ batches' = [batches EXCEPT ![k] = NoBatch]
      /\ upload' = Released(k)
      /\ promised' = promised \cup (up.last \X {up.batch.uid})
      /\ UNCHANGED <<day, nextUid, phase, toVisit, leaving, done>>

(***************************************************************************)
(* The coordinator, and the end of the process.                              *)
(***************************************************************************)
\* mark_done_batch, of some of the results that have come in.
Save ==
  /\ phase = "crawling"
  /\ \E S \in SUBSET promised \ {{}} : done' = done \cup S /\ promised' = promised \ S
  /\ UNCHANGED <<day, memory, phase, bucket, failed>>

\* The main thread ends, in order or by an exception, and flush_all begins; the
\* other threads go on for a while.
End ==
  /\ phase = "crawling" /\ phase' = "collecting"
  /\ toVisit' = Open
  /\ UNCHANGED <<day, batches, upload, nextUid, leaving, bucket, failed, promised, done>>

Collect(k) ==
  /\ phase = "collecting" /\ k \in toVisit /\ ~Locked(k)
  /\ toVisit' = toVisit \ {k}
  /\ leaving' = IF k \in Open THEN leaving \cup {batches[k]} ELSE leaving
  /\ batches' = [batches EXCEPT ![k] = NoBatch]
  /\ UNCHANGED <<day, upload, nextUid, phase, bucket, failed, promised, done>>

AllVisited == toVisit = {}
Collected ==
  /\ phase = "collecting" /\ AllVisited
  /\ phase' = "sending" /\ toVisit' = {}
  /\ UNCHANGED <<day, batches, upload, nextUid, leaving, bucket, failed, promised, done>>

SendLeft(b, ok) ==
  /\ phase = "sending" /\ b \in leaving
  /\ Sent(b, ok) /\ leaving' = leaving \ {b}
  /\ UNCHANGED <<day, batches, upload, nextUid, phase, toVisit, promised, done>>

\* What is in memory is gone.
Forgotten ==
  /\ batches' = [k \in Keys |-> NoBatch] /\ upload' = [k \in Keys |-> Free]
  /\ toVisit' = {} /\ leaving' = {} /\ promised' = {}

Exit ==
  /\ phase = "sending" /\ leaving = {}
  /\ phase' = "ended" /\ Forgotten
  /\ UNCHANGED <<day, nextUid, bucket, failed, done>>

Kill ==
  /\ phase # "ended" /\ phase' = "ended" /\ Forgotten
  /\ failed' = failed \cup {batches[k].uid : k \in Open} \cup {b.uid : b \in leaving}
  /\ UNCHANGED <<day, nextUid, bucket, done>>

Restart ==
  /\ phase = "ended" /\ phase' = "crawling"
  /\ UNCHANGED <<day, memory, bucket, failed, promised, done>>

Uploads ==
  \/ \E k \in Keys : FlushIdle(k) \/ Collect(k) \/ \E ok \in BOOLEAN : SendLocked(k, ok)
  \/ \E b \in leaving, ok \in BOOLEAN : SendLeft(b, ok)
  \/ Collected \/ Exit

Next ==
  \/ Tomorrow \/ Save \/ End \/ Kill \/ Restart
  \/ \E w \in Workers, u \in Urls : Add(w, u)
  \/ Uploads

Spec == Init /\ [][Next]_vars

\* A batch that gets no more pages becomes idle, one that does becomes full; the
\* threads run, and an upload ends one way or the other.
FairSpec == Spec /\ WF_vars(Uploads)

(***************************************************************************)
(* Properties.                                                               *)
(***************************************************************************)
InArchive(u, id) == \E b \in bucket : b.uid = id /\ u \in b.pages
InMemory(u, id) ==
  \/ \E k \in Keys : batches[k].uid = id /\ u \in batches[k].pages
  \/ \E b \in leaving : b.uid = id /\ u \in b.pages

\* A page that is marked done is in the archive its path names, or in the batch
\* that will become it, unless that upload failed or the process was killed: no
\* page is added to a batch already being written, and none is forgotten in a
\* batch when the process ends in order.
DoneIsArchived ==
  \A p \in done :
    \/ InArchive(p[1], p[2])
    \/ p[2] \in failed
    \/ (phase # "ended" /\ InMemory(p[1], p[2]))

\* The pages that are done do not stay in memory for ever.
DoneGetsArchived ==
  \A id \in 1..MaxUid :
    (\E p \in done : p[2] = id) ~> (id \in failed \/ \E b \in bucket : b.uid = id)
=============================================================================
