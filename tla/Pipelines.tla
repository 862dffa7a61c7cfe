------------------------------ MODULE Pipelines ------------------------------
(***************************************************************************)
(* The pipelines of the data processing (data/pipelines/src): each writes    *)
(* one output from the outputs of those it depends on.  A run of `koryta`    *)
(* evaluates what is stale under its first target by modification times,     *)
(* then reads, restores from the shared cache or processes each pipeline on  *)
(* the way, an instance at a time.  Runs fail, are interrupted and die.      *)
(***************************************************************************)
EXTENDS Integers, Sequences

CONSTANTS
  Names,       \* the pipelines
  Deps,        \* those each one reads, a function on Names
  Stored,      \* those with a `filename`
  Volatile,    \* `volatile`: refreshing one makes nothing else stale
  Incremental, \* IncrementalJsonlPipeline
  Shared,      \* those that take part in the shared cache
  LongRunning, \* `confirm_run`
  Selections,  \* what a run may be asked for: sequences in the order of PIPELINES
  Refreshes,   \* what may be named in --refresh
  Exclusions,  \* and excluded there
  MaxRuns      \* bound: runs of the program

ASSUME NamesAssumption ==
  /\ Deps \in [Names -> SUBSET Names]
  /\ Stored \subseteq Names /\ Volatile \subseteq Names
  /\ Incremental \subseteq Stored /\ Shared \subseteq Stored
  /\ LongRunning \subseteq Names
\* A class names those before it, so no pipeline reads itself.
ASSUME DepsAssumption ==
  \A S \in (SUBSET Names) \ {{}} : \E p \in S : Deps[p] \cap S = {}
ASSUME ArgumentsAssumption ==
  /\ Selections \subseteq Seq(Names) \ {<<>>}
  /\ Refreshes \subseteq SUBSET Names /\ Exclusions \subseteq SUBSET Names
  /\ MaxRuns \in Nat

VARIABLES
  file,      \* each pipeline's local output
  mtime,     \* when it was last written, 0 if there is none
  backup,    \* its latest copy in the shared cache
  made,      \* how often each was processed, to tell outputs apart
  clock,     \* the time of the last write
  runs,      \* how many runs there were
  phase,     \* "idle", "running" or "completed": idle after a run that ended well
  args,      \* arguments and circumstances of the run
  decision,  \* `execution_decisions`
  refreshed, \* `refreshed_pipelines`
  restored,  \* those this run restored
  declined,  \* those it asked about and was told not to run
  targets,   \* selected pipelines still to come
  stack      \* calls of read_or_process under way

disk == <<file, mtime, backup, made, clock>>
run == <<runs, phase, args, decision, refreshed, restored, declined, targets, stack>>
vars == <<disk, run>>

\* What an output holds: the how-manieth it is, the outputs it was made from,
\* how much of it is there, and whether it came from the shared cache.
Output == [nth: Nat, from: [Names -> Nat],
           holds: {"whole", "partial", "torn"}, restored: BOOLEAN]
Nowhere == [p \in Names |-> 0]
NoOutput == [nth |-> 0, from |-> Nowhere, holds |-> "whole", restored |-> FALSE]

Arguments == [first: Names, refresh: SUBSET Names, exclude: SUBSET Names,
              backups: BOOLEAN]  \* FALSE under --no-backup
Decisions == {"none", "current", "policy", "missing", "stale"}
Call == [name: Names, todo: SUBSET Names, got: [Names -> Nat]]

Init ==
  /\ file = [p \in Names |-> NoOutput] /\ backup = file
  /\ mtime = Nowhere /\ made = Nowhere /\ clock = 0
  /\ runs = 0 /\ phase = "idle"
  /\ args \in [first: Names, refresh: {{}}, exclude: {{}}, backups: {TRUE}]
  /\ decision = [p \in Names |-> "none"]
  /\ refreshed = {} /\ restored = {} /\ declined = {} /\ targets = <<>> /\ stack = <<>>

(***************************************************************************)
(* What a run decides to do: build_and_print_tree.                           *)
(***************************************************************************)
Closed(S) == \A p \in S : Deps[p] \subseteq S
Tree(root) ==
  {p \in Names : \A S \in SUBSET Names : root \in S /\ Closed(S) => p \in S}

Runs(d) == d \in {"policy", "missing", "stale"}

NewerOnly(p, dec) ==  \* mutant: only times are compared, not decisions
  \E d \in Deps[p] \ Volatile : mtime[d] = 0 \/ mtime[d] > mtime[p]
OutOfDate(p, dec) ==
  \E d \in Deps[p] \ Volatile :
    Runs(dec[d]) \/ mtime[d] = 0 \/ mtime[d] > mtime[p]

Decided(p, dec, refresh, exclude) ==
  IF p \in refresh \ exclude THEN "policy"
  ELSE IF mtime[p] = 0 THEN "missing"
  ELSE IF p \notin exclude /\ OutOfDate(p, dec) THEN "stale"
  ELSE "current"

Evaluated(root, refresh, exclude) ==
  LET dec[p \in Names] ==
        IF p \in Tree(root) THEN Decided(p, dec, refresh, exclude) ELSE "none"
  IN  dec

\* The policy decides once, for what the first target of the run depends on.
Begin ==
  /\ phase # "running" /\ runs < MaxRuns
  /\ \E selected \in Selections, refresh \in Refreshes,
        exclude \in Exclusions, backups \in BOOLEAN :
       /\ decision' = Evaluated(selected[1], refresh, exclude)
       /\ targets' = selected
       /\ args' = [first |-> selected[1], refresh |-> refresh,
                   exclude |-> exclude, backups |-> backups]
  /\ phase' = "running" /\ runs' = runs + 1
  /\ refreshed' = {} /\ restored' = {} /\ declined' = {} /\ stack' = <<>>
  /\ UNCHANGED disk

(***************************************************************************)
(* read_or_process.  A pipeline that several depend on has an instance in    *)
(* each, and is called once for each.                                        *)
(***************************************************************************)
Top == stack[Len(stack)]
Wanted(p) ==
  IF stack = <<>> THEN targets # <<>> /\ p = targets[1] ELSE p \in Top.todo

AsDecided(p) == Runs(decision[p])  \* mutant: what was refreshed is not looked at
ToRefresh(p) == Runs(decision[p]) /\ (p \in Stored => p \notin refreshed)

\* should_refresh_with_logic: one that runs long is asked about every time.
Refreshing(p) == ToRefresh(p) /\ UNCHANGED declined
NotRefreshing(p) ==
  \/ ~ToRefresh(p) /\ UNCHANGED declined
  \/ ToRefresh(p) /\ p \in LongRunning /\ declined' = declined \cup {p}

SharesCache(p) == args.backups /\ p \in Shared
HasBackup(p) == SharesCache(p) /\ backup[p].nth > 0

\* The result of p, which is its nth output, goes to what called for it.
HandOver(p, nth, calls) ==
  /\ stack' = IF calls = <<>> THEN calls
              ELSE [calls EXCEPT ![Len(calls)].todo = @ \ {p},
                                 ![Len(calls)].got[p] = nth]
  /\ targets' = IF calls = <<>> THEN Tail(targets) ELSE targets

\* An incremental pipeline returns without a look at its output.
CanRead(p) ==
  p \in Incremental \/ (p \in Stored /\ (mtime[p] > 0 \/ HasBackup(p)))
Read(p) ==
  /\ Wanted(p) /\ NotRefreshing(p) /\ CanRead(p)
  /\ LET nth == IF mtime[p] > 0 \/ p \in Incremental
                THEN file[p].nth ELSE backup[p].nth
     IN  HandOver(p, nth, stack)
  /\ UNCHANGED <<disk, runs, phase, args, decision, refreshed, restored>>

\* The copy in the shared cache becomes the local output.
Restores(p, holds) ==
  /\ Wanted(p) /\ Refreshing(p) /\ decision[p] = "missing" /\ HasBackup(p)
  /\ file' = [file EXCEPT ![p] = [backup[p] EXCEPT !.holds = holds,
                                                  !.restored = TRUE]]
  /\ clock' = clock + 1 /\ mtime' = [mtime EXCEPT ![p] = clock + 1]
  /\ UNCHANGED <<backup, made>>

Restore(p) ==
  /\ Restores(p, backup[p].holds)
  /\ restored' = restored \cup {p}
  /\ refreshed' = refreshed \cup ({p} \cap Incremental)
  /\ HandOver(p, backup[p].nth, stack)
  /\ UNCHANGED <<runs, phase, args, decision>>

\* Run it, also when there is no restoring it: what it depends on comes first.
Enter(p) ==
  /\ Wanted(p)
  /\ Refreshing(p) \/ (NotRefreshing(p) /\ ~CanRead(p))
  /\ stack' = Append(stack, [name |-> p, todo |-> Deps[p], got |-> Nowhere])
  /\ UNCHANGED <<disk, runs, phase, args, decision, refreshed, restored, targets>>

(***************************************************************************)
(* process, and what becomes of its output.                                  *)
(***************************************************************************)
\* It is p's turn to process: all it depends on has been handed over.
Turn(p) == stack # <<>> /\ Top.name = p /\ Top.todo = {}
Below == SubSeq(stack, 1, Len(stack) - 1)

\* p writes an output from what it was handed.
Writes(p, holds) ==
  /\ made' = [made EXCEPT ![p] = @ + 1]
  /\ IF p \in Stored
     THEN /\ file' = [file EXCEPT ![p] = [nth |-> made[p] + 1,
                                          from |-> Top.got, holds |-> holds,
                                          restored |-> FALSE]]
          /\ clock' = clock + 1 /\ mtime' = [mtime EXCEPT ![p] = clock + 1]
     ELSE UNCHANGED <<file, clock, mtime>>

Uploads(p) ==
  backup' = IF SharesCache(p) THEN [backup EXCEPT ![p] = file'[p]] ELSE backup

Marked(p) == refreshed' = refreshed \cup {p}

Process(p) ==
  /\ Turn(p)
  /\ Writes(p, "whole") /\ Uploads(p) /\ Marked(p)
  /\ HandOver(p, made'[p], Below)
  /\ UNCHANGED <<runs, phase, args, decision, restored, declined>>

\* Interrupted, it goes on with what it has so far.
UploadedAfterInterrupt(p) == TRUE  \* mutant: as after a whole run
UploadsPartial(p) == p \notin Incremental
Interrupted(p) ==
  /\ Turn(p) /\ p \in Stored
  /\ Writes(p, "partial") /\ Marked(p)
  /\ IF UploadsPartial(p) THEN Uploads(p) ELSE UNCHANGED backup
  /\ HandOver(p, made'[p], Below)
  /\ UNCHANGED <<runs, phase, args, decision, restored, declined>>

Stops ==
  /\ phase' = "idle" /\ targets' = <<>> /\ stack' = <<>>
  /\ UNCHANGED <<runs, args, decision, refreshed, restored, declined>>

\* The run ends in the middle of p's writing: an ordinary output is written in
\* place, an incremental one aside and renamed.
LeftBehind(p) == IF p \in Incremental THEN {"whole", "partial"} ELSE {"whole", "torn"}
Dies(p) ==
  /\ Turn(p) /\ p \in Stored
  /\ \E holds \in LeftBehind(p) : Writes(p, holds)
  /\ Stops /\ UNCHANGED backup

\* Or in the middle of restoring it, which is done in place.
DiesRestoring(p) == Restores(p, "torn") /\ Stops

\* An exception ends the run, wherever it is.
Fail == phase = "running" /\ Stops /\ UNCHANGED disk

Complete ==
  /\ phase = "running" /\ stack = <<>> /\ targets = <<>>
  /\ phase' = "completed"
  /\ UNCHANGED <<disk, runs, args, decision, refreshed, restored, declined,
                 targets, stack>>

\* Between runs somebody may delete an output.
Delete(p) ==
  /\ phase # "running" /\ mtime[p] > 0 /\ runs < MaxRuns
  /\ file' = [file EXCEPT ![p] = NoOutput] /\ mtime' = [mtime EXCEPT ![p] = 0]
  /\ phase' = "idle"
  /\ UNCHANGED <<backup, made, clock, runs, args, decision, refreshed, restored,
                 declined, targets, stack>>

Next ==
  \/ Begin \/ Fail \/ Complete
  \/ \E p \in Names :
       \/ Read(p) \/ Restore(p) \/ Enter(p)
       \/ Process(p) \/ Interrupted(p) \/ Dies(p) \/ DiesRestoring(p) \/ Delete(p)

Spec == Init /\ [][Next]_vars

-----------------------------------------------------------------------------
(***************************************************************************)
(* Every variable has its type.  Covers all actions.                         *)
(***************************************************************************)
TypeOK ==
  /\ file \in [Names -> Output] /\ backup \in [Names -> Output]
  /\ mtime \in [Names -> Nat] /\ made \in [Names -> Nat] /\ clock \in Nat
  /\ runs \in 0..MaxRuns /\ phase \in {"idle", "running", "completed"}
  /\ args \in Arguments /\ decision \in [Names -> Decisions]
  /\ refreshed \subseteq Names /\ restored \subseteq Names /\ declined \subseteq LongRunning
  /\ targets \in Seq(Names) /\ stack \in Seq(Call)

(***************************************************************************)
(* A later modification time can be believed: an output that is younger than *)
(* one it depends on was made from what is there, unless it was restored.    *)
(* The whole decision what is stale rests on this, through runs that fail,   *)
(* outputs that are torn and instances that are called again.  It takes that *)
(* a run treats all instances alike which different pipelines call: one that *)
(* is asked about each time, or restored each time, may be read by one of    *)
(* them and refreshed by the next.                                           *)
(***************************************************************************)
SoleReader(p, d) == \A q \in Names : d \in Deps[q] => q = p
Steady(p, d) ==
  d \notin LongRunning \cup (Shared \ Incremental) \/ SoleReader(p, d)

YoungerIsMadeFrom ==
  \A p \in Stored : \A d \in Deps[p] \cap Stored :
    Steady(p, d) /\ ~file[p].restored /\ mtime[p] > mtime[d] /\ mtime[d] > 0
      => file[p].from[d] = file[d].nth

(***************************************************************************)
(* After a run that ended well everything under its first target is made     *)
(* from what it depends on, unless the run was told to leave something as it *)
(* is or restored something from the cache, below which nothing is looked at.*)
(***************************************************************************)
ClosedFirmly(S) == \A p \in S : Deps[p] \ Volatile \subseteq S
Relied(root) ==
  {p \in Names : \A S \in SUBSET Names : root \in S /\ ClosedFirmly(S) => p \in S}
UpToDateAfterwards ==
  phase = "completed" /\ args.exclude \cup declined \cup restored = {} =>
    \A p \in Relied(args.first) \cap Stored :
      \A d \in (Deps[p] \cap Stored) \ Volatile :
        Steady(p, d) /\ ~file[p].restored =>
          mtime[d] > 0 /\ file[p].from[d] = file[d].nth

(***************************************************************************)
(* What others may restore of an incremental output is all of it             *)
(* ("interrupted partial output stays local").                               *)
(***************************************************************************)
SharedIsWhole == \A p \in Incremental : backup[p].holds = "whole"

(***************************************************************************)
(* No incremental output is torn: it is renamed into place when it is made,  *)
(* and restoring it "Writes to dest_path (atomically via a temp sibling)".   *)
(* It does not: the temporary file is the archive, the output is unpacked in *)
(* place, and the next run takes what a dead one left for up to date.        *)
(***************************************************************************)
IncrementalIsNeverTorn == \A p \in Incremental : file[p].holds # "torn"

(***************************************************************************)
(* What a run has refreshed it leaves alone: the other instances of the      *)
(* pipeline read it ("Bottom should be processed once").                     *)
(***************************************************************************)
RefreshedOnce ==
  [][phase = "running" /\ phase' = "running" =>
       \A p \in refreshed \cap Stored :
         made'[p] = made[p] /\ file'[p] = file[p]]_vars

(***************************************************************************)
(* A run that ended well refreshed every pipeline it was asked for by name   *)
(* and told to refresh (--refresh: "Pipeline name to refresh").              *)
(***************************************************************************)
AskedIsRefreshed ==
  [][\A p \in args.refresh \ (args.exclude \cup declined') :
       phase' = "running" /\ targets # <<>> /\ targets' = Tail(targets)
         /\ p = targets[1] => p \in refreshed']_vars
=============================================================================
