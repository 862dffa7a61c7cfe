--------------------------- MODULE ArticleAnswers ---------------------------
(***************************************************************************)
(* The article pipelines that pay a language model for answers               *)
(* (scrapers/article/pipelines/facts_pipeline.py, verified_facts_pipeline.py *)
(* on incremental.py, stores/llm.py and stores/duckdb.py).  A run reads the  *)
(* answers of earlier ones, starts an empty `.tmp`, copies what is still     *)
(* valid into it, asks for the rest through a bounded pool of requests and   *)
(* puts the `.tmp` in the place of the output.  Runs are interrupted, fail   *)
(* and die at any point; what a dead one left in its `.tmp` is read by the   *)
(* next.                                                                     *)
(***************************************************************************)
EXTENDS Integers, FiniteSets

CONSTANTS
  Articles,
  Parts,        \* how many requests an article takes: one for its facts, and
                \* one for each of its facts to be verified
  Capacity,     \* ports * per_port_concurrency
  FlushEvery,   \* --dump-every
  ErrorsStand,  \* TRUE of verification: a failed answer is as good as any
  MaxVersion    \* bound: texts an article has had

ASSUME PartsAssumption == Parts \in [Articles -> Nat]
ASSUME SizesAssumption ==
  /\ Capacity \in Nat \ {0} /\ FlushEvery \in Nat \ {0} /\ MaxVersion \in Nat \ {0}
  /\ ErrorsStand \in BOOLEAN

VARIABLES
  content,   \* the version of each article's text, `article_content_hash`
  final,     \* the output: a row for each article, or none
  temp,      \* the `.tmp`
  tempThere, \* whether there is one
  kept,      \* `existing`: the rows this run has read
  buffer,    \* `inmemory`: rows not yet written
  inserted,  \* `_insert_count`
  phase,     \* how far the run is: idle, reading, checking, asking, dumping, promoting
  whole,     \* `_refreshed_execution`: process() came to its end
  due,       \* articles whose row is written without asking
  unsent,    \* requests not yet put
  queued,    \* `_request_queue`
  working,   \* requests the workers have
  answered,  \* `_response_queue`
  failed,    \* requests that came back as an exception, of articles not yet written
  permits    \* what is left of `_capacity`

disk == <<final, temp, tempThere>>
rows == <<buffer, inserted>>
pool == <<unsent, queued, working, answered, failed, permits>>
vars == <<content, disk, kept, rows, phase, whole, due, pool>>

Row == [version: 1..MaxVersion, good: BOOLEAN]
NoRow == [version |-> 0, good |-> FALSE]
NoRows == [a \in Articles |-> NoRow]
\* Later rows of an article win over earlier ones.
Over(f, g) == [a \in Articles |-> IF g[a] = NoRow THEN f[a] ELSE g[a]]

Requests == UNION {{a} \X (1..Parts[a]) : a \in Articles}
RequestsOf(a) == {q \in Requests : q[1] = a}
InFlight == queued \cup working \cup answered

Idle ==  \* nothing in memory
  /\ buffer' = NoRows /\ due' = {} /\ unsent' = {} /\ queued' = {} /\ working' = {}
  /\ answered' = {} /\ failed' = {} /\ permits' = Capacity

Init ==
  /\ content = [a \in Articles |-> 1]
  /\ final = NoRows /\ temp = NoRows /\ tempThere = FALSE
  /\ kept = NoRows /\ buffer = NoRows /\ inserted = 0
  /\ phase = "idle" /\ whole = FALSE /\ due = {}
  /\ unsent = {} /\ queued = {} /\ working = {} /\ answered = {} /\ failed = {}
  /\ permits = Capacity

(***************************************************************************)
(* A run up to its first request.                                            *)
(***************************************************************************)
\* The text of an article is parsed anew between two runs.
Reparse(a) ==
  /\ phase = "idle" /\ content[a] < MaxVersion
  /\ content' = [content EXCEPT ![a] = @ + 1]
  /\ UNCHANGED <<disk, kept, rows, phase, whole, due, pool>>

Start ==
  /\ phase = "idle"
  /\ phase' = "reading" /\ whole' = FALSE /\ kept' = NoRows /\ inserted' = 0
  /\ UNCHANGED <<content, disk, buffer, due, pool>>

\* Both files are read before the `.tmp` is emptied.
Existing == Over(final, temp)
Prepare ==
  /\ phase = "reading"
  /\ kept' = Existing
  /\ temp' = NoRows /\ tempThere' = TRUE
  /\ phase' = "checking"
  /\ UNCHANGED <<content, final, rows, whole, due, pool>>

AnyAge(a) == kept[a] # NoRow /\ (kept[a].good \/ ErrorsStand)  \* mutant: no hash
CacheValid(a) == kept[a].version = content[a] /\ (kept[a].good \/ ErrorsStand)

\* An article with nothing to ask about is written at once.
CheckHealth ==
  /\ phase = "checking"
  /\ due' = {a \in Articles : CacheValid(a) \/ Parts[a] = 0}
  /\ unsent' = {q \in Requests : q[1] \notin due'}
  /\ phase' = "asking"
  /\ UNCHANGED <<content, disk, kept, rows, whole, queued, working, answered, failed, permits>>

\* insert_into, with the flush it triggers every FlushEvery rows.
Rewritten(f) == f  \* mutant: the file is opened to write, not to append
Flushed(f) == Over(temp, f)
Emit(a, row) ==
  LET held == [buffer EXCEPT ![a] = row]
      full == inserted = FlushEvery - 1
  IN  /\ inserted' = IF full THEN 0 ELSE inserted + 1
      /\ buffer' = IF full THEN NoRows ELSE held
      /\ temp' = IF full THEN Flushed(held) ELSE temp

EmitCached(a) ==
  /\ phase = "asking" /\ a \in due
  /\ Emit(a, IF CacheValid(a) THEN kept[a] ELSE [version |-> content[a], good |-> TRUE])
  /\ due' = due \ {a}
  /\ UNCHANGED <<content, final, tempThere, kept, phase, whole, pool>>

(***************************************************************************)
(* The pool.  One coroutine both puts requests and takes answers, so it must *)
(* never wait to put.                                                        *)
(***************************************************************************)
HalfFull == Cardinality(working) = Capacity  \* mutant: only the workers count
IsFull == permits = 0

Put(q) ==
  /\ phase = "asking" /\ due = {} /\ q \in unsent
  /\ ~IsFull /\ permits > 0 /\ Cardinality(queued) < Capacity
  /\ unsent' = unsent \ {q} /\ queued' = queued \cup {q} /\ permits' = permits - 1
  /\ UNCHANGED <<content, disk, kept, rows, phase, whole, due, working, answered, failed>>

Take(q) ==
  /\ q \in queued /\ Cardinality(working) < Capacity
  /\ queued' = queued \ {q} /\ working' = working \cup {q}
  /\ UNCHANGED <<content, disk, kept, rows, phase, whole, due, unsent, answered, failed, permits>>

\* An answer, or the exception of the last of its retries.
Answer(q, good) ==
  /\ q \in working
  /\ working' = working \ {q} /\ answered' = answered \cup {q}
  /\ failed' = IF good THEN failed ELSE failed \cup {q}
  /\ UNCHANGED <<content, disk, kept, rows, phase, whole, due, unsent, queued, permits>>

\* get_response: taken when the pool is full or everything has been put.
Unreleased == permits  \* mutant: the permit is not given back
Released == permits + 1
Outstanding(q) == (unsent \cup InFlight) \ {q}
Drain(q) ==
  /\ phase = "asking" /\ due = {} /\ (IsFull \/ unsent = {}) /\ q \in answered
  /\ answered' = answered \ {q} /\ permits' = Released
  /\ IF RequestsOf(q[1]) \cap Outstanding(q) = {}
     THEN /\ Emit(q[1], [version |-> content[q[1]],
                         good |-> RequestsOf(q[1]) \cap failed = {}])
          /\ failed' = failed \ RequestsOf(q[1])
     ELSE UNCHANGED <<temp, rows, failed>>
  /\ UNCHANGED <<content, final, tempThere, kept, phase, whole, due, unsent, queued, working>>

(***************************************************************************)
(* Ends of a run.                                                            *)
(***************************************************************************)
AllPut == due = {} /\ unsent = {}  \* mutant: does not wait for the answers
AllDrained == due = {} /\ unsent = {} /\ InFlight = {}
Finish ==
  /\ phase = "asking" /\ AllDrained
  /\ phase' = "dumping" /\ whole' = TRUE
  /\ UNCHANGED <<content, disk, kept, rows, due, pool>>

\* Ctrl-C: caught, or passed on after the same `finally`.
Interrupt ==
  /\ phase \in {"reading", "checking", "asking"}
  /\ phase' = "dumping"
  /\ due' = {} /\ unsent' = {} /\ queued' = {} /\ working' = {}
  /\ answered' = {} /\ failed' = {} /\ permits' = Capacity
  /\ UNCHANGED <<content, disk, kept, rows, whole>>

Dump ==
  /\ phase = "dumping"
  /\ temp' = Flushed(buffer) /\ buffer' = NoRows
  /\ phase' = "promoting"
  /\ UNCHANGED <<content, final, tempThere, kept, inserted, whole, due, pool>>

\* finalize_temp_output: one rename.
Promote ==
  /\ phase = "promoting"
  /\ final' = IF tempThere THEN temp ELSE final
  /\ temp' = NoRows /\ tempThere' = FALSE
  /\ phase' = "idle"
  /\ UNCHANGED <<content, kept, rows, whole, due, pool>>

\* Any other exception: the servers are unhealthy, an input is missing.  The
\* `.tmp` stays; main() still writes what is in memory.
Fail ==
  /\ phase \in {"reading", "checking", "asking"}
  /\ temp' = Flushed(buffer)
  /\ phase' = "idle" /\ Idle
  /\ UNCHANGED <<content, final, tempThere, kept, inserted, whole>>

\* Killed, perhaps with some of the rows of a flush on the disk.
Crash ==
  /\ phase # "idle"
  /\ \E S \in SUBSET Articles :
       temp' = Over(temp, [a \in Articles |-> IF a \in S THEN buffer[a] ELSE NoRow])
  /\ phase' = "idle" /\ Idle
  /\ UNCHANGED <<content, final, tempThere, kept, inserted, whole>>

Progress ==
  \/ Prepare \/ CheckHealth
  \/ \E a \in Articles : EmitCached(a)
  \/ \E q \in Requests : Put(q) \/ Take(q) \/ Drain(q) \/ \E good \in BOOLEAN : Answer(q, good)
  \/ Finish \/ Dump \/ Promote

Next ==
  \/ \E a \in Articles : Reparse(a)
  \/ Start \/ Progress \/ Interrupt \/ Fail \/ Crash

Spec == Init /\ [][Next]_vars

\* The event loop runs, and a request ends: it has a timeout and few retries.
FairSpec == Spec /\ WF_vars(Progress)

(***************************************************************************)
(* Properties.                                                               *)
(***************************************************************************)
File == [Articles -> Row \cup {NoRow}]

TypeOK ==
  /\ content \in [Articles -> 1..MaxVersion]
  /\ final \in File /\ temp \in File /\ kept \in File /\ buffer \in File
  /\ tempThere \in BOOLEAN /\ whole \in BOOLEAN
  /\ inserted \in 0..(FlushEvery - 1)
  /\ phase \in {"idle", "reading", "checking", "asking", "dumping", "promoting"}
  /\ due \subseteq Articles
  /\ unsent \subseteq Requests /\ queued \subseteq Requests /\ working \subseteq Requests
  /\ answered \subseteq Requests /\ failed \subseteq Requests
  /\ permits \in 0..Capacity

\* When the pool lets a request in, its queue has room for it: the coroutine
\* that alone takes answers is never stuck putting a request, and no more
\* requests are open than the servers are meant to bear.
PutNeverWaits ==
  /\ permits > 0 => Cardinality(queued) < Capacity
  /\ Cardinality(InFlight) + permits = Capacity

\* What a run that came to its end puts in place has a row of the present text
\* of every article ("nothing dropped"), whatever the sizes of the pool and of
\* the buffer, and whatever earlier runs left behind.
NothingDropped ==
  phase = "promoting" /\ whole => \A a \in Articles : temp[a].version = content[a]

Answered(f, a) == f[a] = [version |-> content[a], good |-> TRUE]

\* An answer in the output is still there after any step but the end of an
\* interrupted run: dead and failed runs, and what they leave in the `.tmp`,
\* take no answer away.
AnswersOutliveRuns ==
  [][~(phase = "promoting" /\ ~whole) =>
       \A a \in Articles : Answered(final, a) /\ content' = content => Answered(final', a)]_vars

\* Whatever is put and however it is answered, a run ends.
EveryRunEnds == phase # "idle" ~> phase = "idle"

\* "The file is rewritten with every fact annotated (nothing dropped) ... cached
\* ..., so re-runs are cheap" (verified_facts_pipeline.py:11): answers are never
\* dropped from the output.
AnswersAreKept ==
  [][\A a \in Articles : Answered(final, a) /\ content' = content => Answered(final', a)]_vars
=============================================================================
