--------------------------- MODULE PipelinesProofs ---------------------------
(***************************************************************************)
(* Proofs about the pipelines: a run refreshes nothing twice, modification   *)
(* times can be believed, a run that ends well brings up to date, and what   *)
(* is shared of an incremental output is all of it.  The first two rest on   *)
(* one invariant, which says what the calls under way have been handed and   *)
(* why none of it changes before they return; the third adds to it what a    *)
(* run has settled, and that its decisions can be made in one way.           *)
(***************************************************************************)
EXTENDS Pipelines, SequenceTheorems, TLAPS

\* The types the proofs need: all but that of what was decided.
Typed ==
  /\ file \in [Names -> Output] /\ backup \in [Names -> Output]
  /\ mtime \in [Names -> Nat] /\ made \in [Names -> Nat] /\ clock \in Nat
  /\ refreshed \subseteq Names /\ stack \in Seq(Call)

InThePast == \A p \in Names : mtime[p] <= clock

\* The calls under way are a path down the tree.
Path ==
  /\ \A i \in 1..Len(stack) : stack[i].todo \subseteq Deps[stack[i].name]
  /\ \A i \in 1..Len(stack) - 1 : stack[i + 1].name \in stack[i].todo
  /\ phase # "running" => stack = <<>> /\ targets = <<>>

OnStack(p) == \E i \in 1..Len(stack) : stack[i].name = p

\* What was refreshed is there and is not being refreshed again.
Fresh ==
  phase = "running" =>
    \A p \in refreshed \cap Stored : mtime[p] > 0 /\ ~OnStack(p)

\* The i-th call has been handed d, and all instances of d are treated alike.
Handed(i, d) ==
  /\ d \in Deps[stack[i].name] \cap Stored /\ d \notin stack[i].todo
  /\ Steady(stack[i].name, d)

Plain(d) == d \notin LongRunning \cup (Shared \ Incremental)

\* What was handed over is what is there, nobody will refresh it, and nobody is.
Kept ==
  \A i \in 1..Len(stack) : \A d \in Names :
    Handed(i, d) =>
      /\ mtime[d] > 0 => stack[i].got[d] = file[d].nth
      /\ Plain(d) => ~ToRefresh(d) /\ CanRead(d)
      /\ ~OnStack(d)

IInv == Typed /\ InThePast /\ Path /\ Fresh /\ Kept /\ YoungerIsMadeFrom

-----------------------------------------------------------------------------
\* No path down the tree comes back to where it was.
LEMMA NoCycle ==
  ASSUME NEW n \in Nat, NEW f \in [1..n -> Names],
         \A k \in 1..n - 1 : f[k + 1] \in Deps[f[k]],
         NEW i \in 1..n, NEW j \in 1..n, i < j
  PROVE  f[i] # f[j]
<1> SUFFICES ASSUME f[i] = f[j] PROVE FALSE
  OBVIOUS
<1> DEFINE S == {f[k] : k \in i..j - 1}
<1>1. S \in (SUBSET Names) \ {{}}
  <2>1. f[i] \in S OBVIOUS
  <2>2. S \subseteq Names OBVIOUS
  <2> QED BY <2>1, <2>2
<1>2. PICK p \in S : Deps[p] \cap S = {}
  BY <1>1, DepsAssumption
<1>3. PICK k \in i..j - 1 : p = f[k]
  OBVIOUS
<1>4. f[k + 1] \in Deps[p]
  BY <1>3
<1>5. f[k + 1] \in S
  <2>1. CASE k + 1 \in i..j - 1 BY <2>1
  <2>2. CASE k + 1 = j
    BY <2>2
  <2> QED BY <2>1, <2>2
<1> QED BY <1>2, <1>4, <1>5

LEMMA Calls ==
  ASSUME Typed
  PROVE  /\ Len(stack) \in Nat
         /\ stack # <<>> => Len(stack) > 0 /\ Top = stack[Len(stack)]
         /\ \A i \in 1..Len(stack) :
              /\ stack[i] \in Call /\ stack[i].name \in Names
              /\ stack[i].todo \subseteq Names /\ stack[i].got \in [Names -> Nat]
<1>1. \A i \in 1..Len(stack) : stack[i] \in Call
  BY DEF Typed
<1>2. Len(stack) \in Nat /\ (stack # <<>> => Len(stack) > 0)
  BY DEF Typed
<1> QED BY <1>1, <1>2 DEF Call, Top

\* Those on the stack are all different.
LEMMA Different ==
  ASSUME Typed, Path, NEW i \in 1..Len(stack), NEW j \in 1..Len(stack),
         stack[i].name = stack[j].name
  PROVE  i = j
<1> DEFINE n == Len(stack)
           f == [k \in 1..n |-> stack[k].name]
<1>1. n \in Nat /\ f \in [1..n -> Names]
  BY Calls
<1>2. \A k \in 1..n - 1 : f[k + 1] \in Deps[f[k]]
  BY DEF Path
<1>3. i < j => f[i] # f[j]
  <2> HIDE DEF f, n
  <2> QED BY <1>1, <1>2, NoCycle DEF n
<1>4. j < i => f[j] # f[i]
  <2> HIDE DEF f, n
  <2> QED BY <1>1, <1>2, NoCycle DEF n
<1> QED BY <1>3, <1>4

\* What the topmost call reads is not on the stack.
LEMMA BelowIsNew ==
  ASSUME Typed, Path, stack # <<>>, NEW p \in Deps[Top.name]
  PROVE  ~OnStack(p)
<1> DEFINE n == Len(stack)
           m == n + 1
           f == [k \in 1..m |-> IF k = m THEN p ELSE stack[k].name]
<1>0. n \in Nat \ {0} /\ m \in Nat /\ m \in 1..m /\ m - 1 = n
  BY Calls
<1>1. f \in [1..m -> Names]
  <2>1. p \in Names
    BY <1>0, NamesAssumption, Calls
  <2>2. \A k \in 1..n : stack[k].name \in Names
    BY Calls
  <2> QED BY <1>0, <2>1, <2>2
<1>2. \A k \in 1..m - 1 : f[k + 1] \in Deps[f[k]]
  BY <1>0, Calls DEF Path
<1>3. \A i \in 1..m - 1 : f[i] # f[m]
  <2> TAKE i \in 1..m - 1
  <2>1. i \in 1..m /\ i < m
    BY <1>0
  <2> HIDE DEF f, m
  <2> QED BY <1>0, <1>1, <1>2, <2>1, NoCycle
<1>4. \A i \in 1..n : stack[i].name # p
  <2> TAKE i \in 1..n
  <2>1. i \in 1..m - 1 /\ i \in 1..m /\ i # m
    BY <1>0
  <2>2. f[i] = stack[i].name /\ f[m] = p
    BY <1>0, <2>1
  <2> HIDE DEF f, m
  <2> QED BY <2>1, <2>2, <1>3
<1> QED BY <1>4 DEF OnStack

LEMMA WantedIsNew ==
  ASSUME Typed, Path, NEW p \in Names, Wanted(p)
  PROVE  phase = "running" /\ ~OnStack(p)
<1>1. CASE stack = <<>>
  BY <1>1 DEF Wanted, Path, OnStack
<1>2. CASE stack # <<>>
  <2>1. p \in Deps[Top.name]
    BY <1>2, Calls DEF Wanted, Path
  <2> QED BY <1>2, <2>1, BelowIsNew DEF Path
<1> QED BY <1>1, <1>2

\* Nobody has been handed what is about to be refreshed.
LEMMA NotHanded ==
  ASSUME Typed, Path, Kept, NEW p \in Names, Wanted(p),
         ToRefresh(p) \/ ~CanRead(p), NEW i \in 1..Len(stack)
  PROVE  ~Handed(i, p)
<1> SUFFICES ASSUME Handed(i, p) PROVE FALSE
  OBVIOUS
<1>1. stack # <<>> /\ Len(stack) \in 1..Len(stack)
  BY Calls
<1>2. p \in Top.todo /\ p \in Deps[Top.name] /\ Top = stack[Len(stack)]
  BY <1>1, Calls DEF Wanted, Path
<1>3. ~Plain(p)
  BY DEF Kept
<1>4. SoleReader(stack[i].name, p)
  BY <1>3 DEF Handed, Steady, Plain
<1>5. Top.name = stack[i].name
  BY <1>1, <1>2, <1>4, Calls DEF SoleReader
<1>6. i = Len(stack)
  BY <1>1, <1>2, <1>5, Different
<1> QED BY <1>2, <1>6 DEF Handed

\* A result handed over, and the calls as they are then.
LEMMA Handing ==
  ASSUME NEW p \in Names, NEW nth \in Nat, NEW calls \in Seq(Call),
         HandOver(p, nth, calls)
  PROVE  /\ stack' \in Seq(Call) /\ Len(stack') = Len(calls)
         /\ \A i \in 1..Len(calls) : stack'[i].name = calls[i].name
         /\ \A i \in 1..Len(calls) - 1 : stack'[i] = calls[i]
         /\ LET n == Len(calls) IN n > 0 =>
              /\ stack'[n].todo = calls[n].todo \ {p}
              /\ stack'[n].got = [calls[n].got EXCEPT ![p] = nth]
<1>1. CASE calls = <<>>
  BY <1>1 DEF HandOver
<1>2. CASE calls # <<>>
  <2> DEFINE n == Len(calls)
             top == [calls[n] EXCEPT !.todo = @ \ {p}, !.got[p] = nth]
  <2>1. n \in Nat /\ n > 0 /\ n \in 1..n
    BY <1>2
  <2>2. \A i \in 1..n : calls[i] \in Call
    BY <2>1
  <2>3. stack' = [calls EXCEPT ![n] = top]
    BY <1>2, <2>1 DEF HandOver
  <2>4. top \in Call /\ top.name = calls[n].name
        /\ top.todo = calls[n].todo \ {p}
        /\ top.got = [calls[n].got EXCEPT ![p] = nth]
    BY <2>1, <2>2 DEF Call
  <2> HIDE DEF top
  <2>5. stack' \in Seq(Call) /\ Len(stack') = n
    BY <2>1, <2>3, <2>4
  <2>6. \A i \in 1..n : stack'[i] = IF i = n THEN top ELSE calls[i]
    BY <2>1, <2>3
  <2> QED BY <2>1, <2>4, <2>5, <2>6
<1> QED BY <1>1, <1>2

\* Calls that are a part of the stack from below, p handed over to the last.
Reaching(calls) ==
  /\ calls \in Seq(Call) /\ Len(calls) <= Len(stack)
  /\ \A i \in 1..Len(calls) : calls[i] = stack[i]

\* What changes of the outputs while p's result is handed over.
Spares(p) ==
  /\ \A q \in Names \ {p} : file'[q] = file[q] /\ mtime'[q] = mtime[q]
  /\ \A q \in Names : CanRead(q) => CanRead(q)'
  /\ refreshed \subseteq refreshed' /\ decision' = decision

LEMMA StillCalled ==
  ASSUME Typed, NEW p \in Names, NEW nth \in Nat, NEW calls, Reaching(calls),
         HandOver(p, nth, calls)
  PROVE  /\ stack' \in Seq(Call)
         /\ \A q : OnStack(q)' => /\ OnStack(q)
                                /\ \E i \in 1..Len(calls) : calls[i].name = q
<1>0. calls \in Seq(Call)
  BY DEF Reaching
<1>1. /\ stack' \in Seq(Call) /\ Len(stack') = Len(calls)
      /\ \A i \in 1..Len(calls) : stack'[i].name = calls[i].name
  BY <1>0, Handing
<1>2. \A i \in 1..Len(calls) : i \in 1..Len(stack) /\ calls[i] = stack[i]
  BY Calls DEF Reaching
<1> QED BY <1>1, <1>2 DEF OnStack

\* The calls below the topmost one.
LEMMA BelowReaches ==
  ASSUME Typed, NEW p \in Names, Turn(p)
  PROVE  Reaching(Below) /\ Len(Below) = Len(stack) - 1
<1> DEFINE n == Len(stack)
<1>0. n \in Nat /\ n > 0
  BY Calls DEF Turn
<1>1. stack \in Seq(Call) /\ 1 \in 1..Len(stack) + 1
      /\ n - 1 \in 1 - 1..Len(stack)
  BY <1>0 DEF Typed
<1>2. /\ SubSeq(stack, 1, n - 1) \in Seq(Call)
      /\ Len(SubSeq(stack, 1, n - 1)) =
           (IF 1 <= n - 1 THEN n - 1 - 1 + 1 ELSE 0)
      /\ \A i \in 1..n - 1 - 1 + 1 :
           SubSeq(stack, 1, n - 1)[i] = stack[1 + i - 1]
  BY <1>1, SubSeqProperties
<1>3. n - 1 \in Nat /\ n - 1 - 1 + 1 = n - 1
      /\ \A i \in 1..n - 1 : 1 + i - 1 = i /\ i \in 1..n
  BY <1>0
<1>4. Below \in Seq(Call) /\ Len(Below) = n - 1
      /\ \A i \in 1..n - 1 : Below[i] = stack[i]
  BY <1>2, <1>3 DEF Below
<1> QED BY <1>0, <1>4 DEF Reaching

LEMMA Returned ==
  ASSUME Typed, Path, Kept, phase = "running", phase' = phase,
         NEW p \in Names, NEW nth \in Nat, NEW calls,
         Reaching(calls), HandOver(p, nth, calls),
         calls # <<>> => p \in calls[Len(calls)].todo,
         \A i \in 1..Len(calls) : calls[i].name # p,
         Spares(p),
         \A i \in 1..Len(calls) : Handed(i, p) =>
           file'[p] = file[p] /\ mtime'[p] = mtime[p],
         p \in Stored /\ mtime'[p] > 0 => nth = file'[p].nth,
         p \in Stored /\ Plain(p) => ~ToRefresh(p)' /\ CanRead(p)'
  PROVE  Path' /\ Kept'
<1> DEFINE n == Len(calls)
<1>1. n \in Nat /\ n <= Len(stack) /\ calls \in Seq(Call)
      /\ \A i \in 1..n : calls[i] = stack[i]
  BY DEF Reaching
<1>2. /\ Len(stack') = n
      /\ \A i \in 1..n : stack'[i].name = stack[i].name
      /\ \A i \in 1..n - 1 : stack'[i] = stack[i]
      /\ n > 0 => /\ stack'[n].todo = stack[n].todo \ {p}
                  /\ stack'[n].got = [stack[n].got EXCEPT ![p] = nth]
  <2>1. /\ Len(stack') = n
        /\ \A i \in 1..n : stack'[i].name = calls[i].name
        /\ \A i \in 1..n - 1 : stack'[i] = calls[i]
        /\ n > 0 => /\ stack'[n].todo = calls[n].todo \ {p}
                    /\ stack'[n].got = [calls[n].got EXCEPT ![p] = nth]
    BY <1>1, Handing
  <2>2. (n > 0 => n \in 1..n) /\ \A i \in 1..n - 1 : i \in 1..n
    BY <1>1
  <2> HIDE DEF n
  <2> QED BY <1>1, <2>1, <2>2
<1>3. \A i \in 1..n : i \in 1..Len(stack)
  BY <1>1, Calls
<1>4. Path'
  <2>1. \A i \in 1..n : stack'[i].todo \subseteq stack[i].todo
    BY <1>1, <1>2
  <2>2. \A i \in 1..n : stack'[i].todo \subseteq Deps[stack'[i].name]
    BY <1>1, <1>2, <1>3, <2>1 DEF Path
  <2>3. \A i \in 1..n - 1 : stack'[i + 1].name \in stack'[i].todo
    BY <1>1, <1>2, <1>3, Calls DEF Path
  <2> QED BY <1>2, <2>2, <2>3 DEF Path
<1>5. \A d : OnStack(d)' => OnStack(d)
  BY <1>2, <1>3 DEF OnStack
<1>6. ~OnStack(p)'
  BY <1>1, <1>2 DEF OnStack
<1>7. \A d \in Names \cap Stored : ~ToRefresh(d) => ~ToRefresh(d)'
  BY DEF ToRefresh, Spares
<1>8. ASSUME NEW i \in 1..n, NEW d \in Names, Handed(i, d)',
             d # p \/ i # n
      PROVE  /\ mtime'[d] > 0 => stack'[i].got[d] = file'[d].nth
             /\ Plain(d) => ~ToRefresh(d)' /\ CanRead(d)'
             /\ ~OnStack(d)'
  <2>1. Handed(i, d)
    BY <1>1, <1>2, <1>8 DEF Handed
  <2>2. /\ mtime[d] > 0 => stack[i].got[d] = file[d].nth
        /\ Plain(d) => ~ToRefresh(d) /\ CanRead(d)
        /\ ~OnStack(d)
    BY <1>3, <2>1 DEF Kept
  <2>3. stack'[i].got[d] = stack[i].got[d]
    <3>1. CASE i # n
      BY <1>1, <1>2, <3>1
    <3>2. CASE i = n
      <4>1. stack[n].got \in [Names -> Nat] /\ d # p /\ n > 0
        BY <1>1, <1>3, <1>8, <3>2, Calls
      <4> QED BY <1>2, <3>2, <4>1
    <3> QED BY <3>1, <3>2
  <2>4. file'[d] = file[d] /\ mtime'[d] = mtime[d]
    BY <2>1 DEF Spares
  <2>5. d \in Stored
    BY <2>1 DEF Handed
  <2> QED BY <1>5, <1>7, <2>2, <2>3, <2>4, <2>5 DEF Spares
<1>9. ASSUME NEW i \in 1..n, i = n, Handed(i, p)'
      PROVE  /\ mtime'[p] > 0 => stack'[i].got[p] = file'[p].nth
             /\ Plain(p) => ~ToRefresh(p)' /\ CanRead(p)'
             /\ ~OnStack(p)'
  <2>1. p \in Stored
    BY <1>9 DEF Handed
  <2>2. stack'[i].got[p] = nth
    BY <1>1, <1>2, <1>3, <1>9, Calls
  <2> QED BY <1>6, <2>1, <2>2
<1>10. Kept'
  <2> SUFFICES ASSUME NEW i \in 1..n, NEW d \in Names, Handed(i, d)'
               PROVE  /\ mtime'[d] > 0 => stack'[i].got[d] = file'[d].nth
                      /\ Plain(d) => ~ToRefresh(d)' /\ CanRead(d)'
                      /\ ~OnStack(d)'
    BY <1>2 DEF Kept, Plain
  <2> QED BY <1>8, <1>9
<1> QED BY <1>4, <1>10

\* An output made from what was handed over can be believed.
LEMMA Written ==
  ASSUME IInv, NEW p \in Names, Turn(p),
         NEW holds \in {"whole", "partial", "torn"}, Writes(p, holds)
  PROVE  /\ file' \in [Names -> Output] /\ mtime' \in [Names -> Nat]
         /\ made' \in [Names -> Nat] /\ clock' \in Nat
         /\ InThePast' /\ YoungerIsMadeFrom'
         /\ \A q \in Names \ {p} : file'[q] = file[q] /\ mtime'[q] = mtime[q]
                                   /\ made'[q] = made[q]
         /\ p \in Stored => file'[p].nth = made'[p] /\ mtime'[p] > 0
         /\ made'[p] = made[p] + 1
<1> USE DEF IInv
<1>1. /\ stack # <<>> /\ Top = stack[Len(stack)]
      /\ Len(stack) \in 1..Len(stack) /\ Top.name = p /\ Top.todo = {}
      /\ Top.got \in [Names -> Nat] /\ p \in Names
  BY Calls DEF Turn
<1>2. made' \in [Names -> Nat] /\ made'[p] = made[p] + 1
      /\ \A q \in Names \ {p} : made'[q] = made[q]
  BY DEF Typed, Writes
<1>3. CASE p \notin Stored
  <2>1. UNCHANGED <<file, clock, mtime>>
    BY <1>3 DEF Writes
  <2> QED BY <1>2, <1>3, <2>1 DEF Typed, InThePast, YoungerIsMadeFrom, Steady,
                                 SoleReader
<1>4. CASE p \in Stored
  <2> DEFINE new == [nth |-> made[p] + 1, from |-> Top.got, holds |-> holds,
                     restored |-> FALSE]
  <2>1. file' = [file EXCEPT ![p] = new] /\ clock' = clock + 1
        /\ mtime' = [mtime EXCEPT ![p] = clock + 1]
    BY <1>4 DEF Writes
  <2>2. new \in Output /\ new.nth = made[p] + 1 /\ new.from = Top.got
    BY <1>1 DEF Typed, Output
  <2> HIDE DEF new
  <2>3. file' \in [Names -> Output] /\ mtime' \in [Names -> Nat] /\ clock' \in Nat
        /\ file'[p] = new /\ mtime'[p] = clock + 1
        /\ \A q \in Names \ {p} : file'[q] = file[q] /\ mtime'[q] = mtime[q]
    BY <2>1, <2>2 DEF Typed
  <2>4. InThePast'
    BY <2>1, <2>3 DEF InThePast, Typed
  <2>5. ASSUME NEW r \in Stored, NEW d \in Deps[r] \cap Stored, Steady(r, d),
               ~file'[r].restored, mtime'[r] > mtime'[d], mtime'[d] > 0
        PROVE  file'[r].from[d] = file'[d].nth
    <3>1. r \in Names /\ d \in Names
      BY NamesAssumption
    <3>2. d # p
      <4> SUFFICES ASSUME d = p PROVE FALSE
        OBVIOUS
      <4>1. mtime'[d] = clock + 1 /\ mtime'[r] <= clock + 1 /\ mtime'[r] \in Nat
        BY <2>1, <2>3, <2>4, <3>1 DEF InThePast
      <4> QED BY <2>5, <4>1 DEF Typed
    <3>3. CASE r = p
      <4>1. Handed(Len(stack), d)
        BY <1>1, <2>5, <3>3 DEF Handed
      <4>2. Top.got[d] = file[d].nth
        BY <1>1, <2>3, <2>5, <3>1, <3>2, <4>1 DEF Kept
      <4> QED BY <2>2, <2>3, <3>1, <3>2, <3>3, <4>2
    <3>4. CASE r # p
      BY <2>3, <2>5, <3>1, <3>2, <3>4 DEF YoungerIsMadeFrom
    <3> QED BY <3>3, <3>4
  <2>6. YoungerIsMadeFrom'
    BY <2>5 DEF YoungerIsMadeFrom, Steady, SoleReader
  <2>7. mtime'[p] > 0
    BY <2>3 DEF Typed
  <2> QED BY <1>2, <2>2, <2>3, <2>4, <2>6, <2>7
<1> QED BY <1>3, <1>4

\* So can one that is restored: nothing is claimed of what it was made from.
LEMMA Unpacked ==
  ASSUME IInv, NEW p \in Names, NEW holds \in {"whole", "partial", "torn"},
         Restores(p, holds)
  PROVE  /\ file' \in [Names -> Output] /\ mtime' \in [Names -> Nat]
         /\ clock' \in Nat /\ InThePast' /\ YoungerIsMadeFrom'
         /\ \A q \in Names \ {p} : file'[q] = file[q] /\ mtime'[q] = mtime[q]
         /\ file'[p].nth = backup[p].nth /\ mtime'[p] > 0
<1> USE DEF IInv
<1> DEFINE new == [backup[p] EXCEPT !.holds = holds, !.restored = TRUE]
<1>1. file' = [file EXCEPT ![p] = new] /\ clock' = clock + 1
      /\ mtime' = [mtime EXCEPT ![p] = clock + 1]
  BY DEF Restores
<1>2. new \in Output /\ new.nth = backup[p].nth /\ new.restored = TRUE
  BY DEF Typed, Output
<1> HIDE DEF new
<1>3. file' \in [Names -> Output] /\ mtime' \in [Names -> Nat] /\ clock' \in Nat
      /\ file'[p] = new /\ mtime'[p] = clock + 1 /\ mtime'[p] > 0
      /\ \A q \in Names \ {p} : file'[q] = file[q] /\ mtime'[q] = mtime[q]
  BY <1>1, <1>2 DEF Typed
<1>4. InThePast'
  BY <1>1, <1>3 DEF InThePast, Typed
<1>5. ASSUME NEW r \in Stored, NEW d \in Deps[r] \cap Stored, Steady(r, d),
             ~file'[r].restored, mtime'[r] > mtime'[d], mtime'[d] > 0
      PROVE  file'[r].from[d] = file'[d].nth
  <2>1. r \in Names /\ d \in Names
    BY NamesAssumption
  <2>2. r # p
    BY <1>2, <1>3, <1>5
  <2>3. d # p
    <3> SUFFICES ASSUME d = p PROVE FALSE
      OBVIOUS
    <3>1. mtime'[d] = clock + 1 /\ mtime'[r] <= clock + 1 /\ mtime'[r] \in Nat
      BY <1>1, <1>3, <1>4, <2>1 DEF InThePast
    <3> QED BY <1>5, <3>1 DEF Typed
  <2> QED BY <1>3, <1>5, <2>1, <2>2, <2>3 DEF YoungerIsMadeFrom
<1>6. YoungerIsMadeFrom'
  BY <1>5 DEF YoungerIsMadeFrom, Steady, SoleReader
<1> QED BY <1>2, <1>3, <1>4, <1>6

-----------------------------------------------------------------------------
\* With no call under way there is little to show.
LEMMA Unstacked ==
  ASSUME stack' = <<>>, phase' # "running" => targets' = <<>>,
         phase' = "running" => refreshed' = {}
  PROVE  Path' /\ Fresh' /\ Kept'
BY DEF Path, Fresh, Kept, OnStack

LEMMA Beginning == Init => IInv
<1> SUFFICES ASSUME Init PROVE IInv
  OBVIOUS
<1>1. NoOutput \in Output /\ Nowhere \in [Names -> Nat]
  BY DEF NoOutput, Output, Nowhere
<1>2. Typed
  BY <1>1 DEF Init, Typed
<1>3. InThePast /\ YoungerIsMadeFrom
  BY NamesAssumption DEF Init, InThePast, YoungerIsMadeFrom, Nowhere
<1>4. Path /\ Fresh /\ Kept
  BY DEF Init, Path, Fresh, Kept, OnStack
<1> QED BY <1>2, <1>3, <1>4 DEF IInv

LEMMA Elsewhere ==
  ASSUME IInv, Begin \/ Fail \/ Complete
  PROVE  IInv'
<1> USE DEF IInv
<1>1. UNCHANGED disk /\ stack' = <<>> /\ (refreshed' = refreshed \/ refreshed' = {})
      /\ (phase' # "running" => targets' = <<>>)
      /\ (phase' = "running" => refreshed' = {})
  BY DEF Begin, Fail, Stops, Complete
<1>2. Typed' /\ InThePast' /\ YoungerIsMadeFrom'
  BY <1>1 DEF Typed, InThePast, YoungerIsMadeFrom, Steady, SoleReader, disk
<1> QED BY <1>1, <1>2, Unstacked

LEMMA Deleting ==
  ASSUME IInv, NEW p \in Names, Delete(p)
  PROVE  IInv'
<1> USE DEF IInv
<1>1. phase' = "idle" /\ stack' = <<>> /\ targets' = <<>>
  BY DEF Delete, Path
<1>2. NoOutput \in Output
  BY DEF NoOutput, Output, Nowhere
<1>3. Typed'
  BY <1>1, <1>2 DEF Delete, Typed
<1>4. mtime'[p] = 0 /\ \A q \in Names \ {p} :
        file'[q] = file[q] /\ mtime'[q] = mtime[q]
  BY DEF Delete, Typed
<1>5. InThePast'
  BY <1>3, <1>4 DEF Delete, InThePast, Typed
<1>6. ASSUME NEW r \in Stored, NEW d \in Deps[r] \cap Stored, Steady(r, d),
             ~file'[r].restored, mtime'[r] > mtime'[d], mtime'[d] > 0
      PROVE  file'[r].from[d] = file'[d].nth
  <2>1. r \in Names /\ d \in Names
    BY NamesAssumption
  <2>2. r # p /\ d # p
    BY <1>3, <1>4, <1>6, <2>1 DEF Typed
  <2> QED BY <1>4, <1>6, <2>1, <2>2 DEF YoungerIsMadeFrom
<1>7. YoungerIsMadeFrom'
  BY <1>6 DEF YoungerIsMadeFrom, Steady, SoleReader
<1> QED BY <1>1, <1>3, <1>5, <1>7, Unstacked

LEMMA Reading ==
  ASSUME IInv, NEW p \in Names, Read(p)
  PROVE  IInv'
<1> USE DEF IInv
<1>1. phase = "running" /\ phase' = phase /\ ~OnStack(p)
      /\ UNCHANGED <<disk, args, decision, refreshed>>
  BY WantedIsNew DEF Read
<1> DEFINE nth == IF mtime[p] > 0 \/ p \in Incremental
                  THEN file[p].nth ELSE backup[p].nth
<1>2. nth \in Nat /\ HandOver(p, nth, stack)
  BY DEF Read, Typed, Output
<1>3. ~ToRefresh(p) \/ p \in LongRunning
  BY DEF Read, NotRefreshing
<1>4. Reaching(stack) /\ Spares(p)
  BY <1>1 DEF Reaching, Spares, Typed, disk, CanRead, HasBackup, SharesCache
<1>5. /\ stack # <<>> => p \in stack[Len(stack)].todo
      /\ \A i \in 1..Len(stack) : stack[i].name # p
  BY <1>1, Calls DEF Read, Wanted, OnStack
<1>6. /\ file'[p] = file[p] /\ mtime'[p] = mtime[p]
      /\ mtime'[p] > 0 => nth = file'[p].nth
      /\ p \in Stored /\ Plain(p) => ~ToRefresh(p)' /\ CanRead(p)'
  BY <1>1, <1>3, <1>4 DEF disk, Plain, ToRefresh, Read, Spares
<1> HIDE DEF nth
<1>7. Path' /\ Kept'
  BY <1>1, <1>2, <1>4, <1>5, <1>6, Returned
<1>8. Typed' /\ InThePast' /\ YoungerIsMadeFrom'
  <2>1. stack' \in Seq(Call)
    BY <1>2, <1>4, StillCalled
  <2> QED BY <1>1, <2>1 DEF Typed, InThePast, YoungerIsMadeFrom, Steady,
                          SoleReader, disk
<1>9. Fresh'
  <2>1. \A q : OnStack(q)' => OnStack(q)
    BY <1>2, <1>4, StillCalled
  <2> QED BY <1>1, <2>1 DEF Fresh, disk
<1> QED BY <1>7, <1>8, <1>9

LEMMA Restoring ==
  ASSUME IInv, NEW p \in Names, Restore(p)
  PROVE  IInv'
<1> USE DEF IInv
<1> DEFINE holds == backup[p].holds
           nth == backup[p].nth
<1>1. phase = "running" /\ phase' = phase /\ ~OnStack(p) /\ Wanted(p)
      /\ UNCHANGED <<backup, made, args, decision>>
      /\ refreshed' = refreshed \cup ({p} \cap Incremental)
  BY WantedIsNew DEF Restore, Restores
<1>2. nth \in Nat /\ holds \in {"whole", "partial", "torn"} /\ Restores(p, holds)
      /\ HandOver(p, nth, stack)
  BY DEF Restore, Typed, Output
<1>3. ToRefresh(p) /\ p \in Shared
  BY <1>2 DEF Restores, Refreshing, HasBackup, SharesCache
<1> HIDE DEF holds
<1>4. /\ file' \in [Names -> Output] /\ mtime' \in [Names -> Nat]
      /\ clock' \in Nat /\ InThePast' /\ YoungerIsMadeFrom'
      /\ \A q \in Names \ {p} : file'[q] = file[q] /\ mtime'[q] = mtime[q]
      /\ file'[p].nth = nth /\ mtime'[p] > 0
  BY <1>2, Unpacked
<1> HIDE DEF nth
<1>5. \A q \in Names : CanRead(q) => CanRead(q)'
  BY <1>1, <1>4 DEF CanRead, HasBackup, SharesCache
<1>6. Reaching(stack) /\ Spares(p)
  BY <1>1, <1>4, <1>5 DEF Reaching, Spares, Typed
<1>7. /\ stack # <<>> => p \in stack[Len(stack)].todo
      /\ \A i \in 1..Len(stack) : stack[i].name # p
  BY <1>1, Calls DEF Wanted, OnStack
<1>8. \A i \in 1..Len(stack) : ~Handed(i, p)
  BY <1>1, <1>3, NotHanded
<1>9. p \in Stored /\ Plain(p) => ~ToRefresh(p)' /\ CanRead(p)'
  BY <1>1, <1>3, <1>4 DEF Plain, ToRefresh, CanRead
<1>10. Path' /\ Kept'
  BY <1>1, <1>2, <1>4, <1>6, <1>7, <1>8, <1>9, Returned
<1>11. stack' \in Seq(Call) /\ \A q : OnStack(q)' => OnStack(q)
  BY <1>2, <1>6, StillCalled
<1>12. Typed'
  BY <1>1, <1>4, <1>11 DEF Typed
<1>13. Fresh'
  BY <1>1, <1>4, <1>11, NamesAssumption DEF Fresh
<1> QED BY <1>4, <1>10, <1>12, <1>13

LEMMA Entering ==
  ASSUME IInv, NEW p \in Names, Enter(p)
  PROVE  IInv'
<1> USE DEF IInv
<1> DEFINE n == Len(stack)
           call == [name |-> p, todo |-> Deps[p], got |-> Nowhere]
<1>1. phase = "running" /\ phase' = phase /\ ~OnStack(p) /\ Wanted(p)
      /\ UNCHANGED <<disk, args, decision, refreshed>>
      /\ stack' = Append(stack, call)
  BY WantedIsNew DEF Enter
<1>2. ToRefresh(p) \/ ~CanRead(p)
  BY DEF Enter, Refreshing
<1>3. call \in Call /\ call.name = p /\ call.todo = Deps[p]
  BY NamesAssumption DEF Call, Nowhere
<1> HIDE DEF call
<1>4. /\ n \in Nat /\ stack' \in Seq(Call) /\ Len(stack') = n + 1
      /\ stack'[n + 1] = call /\ \A i \in 1..n : stack'[i] = stack[i]
  BY <1>1, <1>3, Calls DEF Typed
<1>5. Typed' /\ InThePast' /\ YoungerIsMadeFrom'
  BY <1>1, <1>4 DEF Typed, InThePast, YoungerIsMadeFrom, Steady, SoleReader, disk
<1>6. Path'
  <2>1. \A i \in 1..n + 1 : stack'[i].todo \subseteq Deps[stack'[i].name]
    BY <1>3, <1>4 DEF Path
  <2>2. \A i \in 1..n : stack'[i + 1].name \in stack'[i].todo
    <3> TAKE i \in 1..n
    <3>1. CASE i = n
      BY <1>1, <1>3, <1>4, <3>1, Calls DEF Wanted
    <3>2. CASE i # n
      <4>1. i \in 1..n - 1 /\ i + 1 \in 1..n
        BY <1>4, <3>2
      <4> QED BY <1>4, <4>1 DEF Path
    <3> QED BY <3>1, <3>2
  <2> QED BY <1>1, <1>4, <2>1, <2>2 DEF Path
<1>7. \A q : OnStack(q)' => OnStack(q) \/ q = p
  BY <1>3, <1>4 DEF OnStack
<1>8. Fresh'
  <2>1. ~(p \in refreshed \cap Stored)
    BY <1>1, <1>2 DEF Fresh, ToRefresh, CanRead
  <2> QED BY <1>1, <1>7, <2>1 DEF Fresh, disk
<1>9. Kept'
  <2> SUFFICES ASSUME NEW i \in 1..n + 1, NEW d \in Names, Handed(i, d)'
               PROVE  /\ mtime'[d] > 0 => stack'[i].got[d] = file'[d].nth
                      /\ Plain(d) => ~ToRefresh(d)' /\ CanRead(d)'
                      /\ ~OnStack(d)'
    BY <1>4 DEF Kept, Plain
  <2>1. i \in 1..n
    BY <1>3, <1>4 DEF Handed
  <2>2. Handed(i, d)
    BY <1>4, <2>1 DEF Handed
  <2>3. d # p
    BY <1>1, <1>2, <2>1, <2>2, NotHanded
  <2>4. /\ mtime[d] > 0 => stack[i].got[d] = file[d].nth
        /\ Plain(d) => ~ToRefresh(d) /\ CanRead(d)
        /\ ~OnStack(d)
    BY <2>1, <2>2 DEF Kept
  <2> QED BY <1>1, <1>4, <1>7, <2>1, <2>3, <2>4
       DEF disk, ToRefresh, CanRead, HasBackup, SharesCache
<1> QED BY <1>5, <1>6, <1>8, <1>9

\* p's turn is over, with an output however much of it there is.
LEMMA Processing ==
  ASSUME IInv, NEW p \in Names, Process(p) \/ Interrupted(p)
  PROVE  IInv' /\ ~(p \in refreshed \cap Stored)
<1> USE DEF IInv
<1>1. PICK holds \in {"whole", "partial", "torn"} : Writes(p, holds)
  BY DEF Process, Interrupted
<1>2. /\ Turn(p) /\ Marked(p) /\ HandOver(p, made'[p], Below)
      /\ UNCHANGED <<phase, args, decision>>
      /\ Uploads(p) \/ UNCHANGED backup
  BY DEF Process, Interrupted
<1>3. /\ file' \in [Names -> Output] /\ mtime' \in [Names -> Nat]
      /\ made' \in [Names -> Nat] /\ clock' \in Nat
      /\ InThePast' /\ YoungerIsMadeFrom'
      /\ \A q \in Names \ {p} : file'[q] = file[q] /\ mtime'[q] = mtime[q]
      /\ p \in Stored => file'[p].nth = made'[p] /\ mtime'[p] > 0
      /\ made'[p] = made[p] + 1 /\ made'[p] \in Nat /\ made[p] \in Nat
  BY <1>1, <1>2, Written DEF Typed
<1> DEFINE n == Len(stack)
<1>4. /\ n \in 1..n /\ n \in Nat /\ stack[n].name = p /\ stack # <<>>
      /\ phase = "running"
  BY <1>2, Calls DEF Turn, Path
<1>5. /\ Below \in Seq(Call) /\ Len(Below) = n - 1
      /\ \A i \in 1..n - 1 : Below[i] = stack[i] /\ i \in 1..n
  <2>1. Reaching(Below) /\ Len(Below) = n - 1
    BY <1>2, BelowReaches
  <2> QED BY <1>4, <2>1 DEF Reaching
<1>6. /\ Below # <<>> => p \in Below[Len(Below)].todo
      /\ \A i \in 1..Len(Below) : Below[i].name # p
  <2>1. \A i \in 1..n - 1 : stack[i].name # p
    BY <1>4, <1>5, Different
  <2>2. n - 1 > 0 => p \in stack[n - 1].todo
    BY <1>4 DEF Path
  <2>3. Below # <<>> => n - 1 > 0 /\ n - 1 \in 1..n - 1
    BY <1>4, <1>5
  <2> QED BY <1>4, <1>5, <2>1, <2>2, <2>3
<1>7. backup' \in [Names -> Output] /\ \A q \in Names :
        backup[q].nth > 0 => backup'[q].nth > 0
  <2>1. CASE UNCHANGED backup
    BY <2>1 DEF Typed
  <2>2. CASE Uploads(p)
    <3>1. SharesCache(p) => p \in Stored
      BY NamesAssumption DEF SharesCache
    <3>2. SharesCache(p) => file'[p].nth > 0
      BY <1>3, <3>1
    <3>3. file'[p] \in Output
      BY <1>3
    <3> QED BY <2>2, <3>2, <3>3 DEF Uploads, Typed
  <2> QED BY <1>2, <2>1, <2>2
<1>8. \A q \in Names : CanRead(q) => CanRead(q)'
  <2> SUFFICES ASSUME NEW q \in Names, CanRead(q) PROVE CanRead(q)'
    OBVIOUS
  <2>1. q \in Stored /\ mtime[q] > 0 => mtime'[q] > 0
    BY <1>3
  <2> QED BY <1>2, <1>7, <2>1 DEF CanRead, HasBackup, SharesCache
<1>9. Reaching(Below) /\ Spares(p)
  BY <1>2, <1>3, <1>4, <1>5, <1>8 DEF Reaching, Spares, Marked
<1>10. OnStack(p) /\ \A i \in 1..n : ~Handed(i, p)
  BY <1>4 DEF OnStack, Kept
<1>11. /\ \A i \in 1..Len(Below) : ~Handed(i, p)
       /\ p \in Stored => ~ToRefresh(p)' /\ CanRead(p)'
  BY <1>2, <1>3, <1>5, <1>10 DEF ToRefresh, CanRead, Marked
<1>12. phase = "running" /\ phase' = phase /\ HandOver(p, made'[p], Below)
       /\ (p \in Stored => made'[p] = file'[p].nth)
  BY <1>2, <1>3, <1>4
<1>13. Path' /\ Kept'
  BY <1>3, <1>6, <1>9, <1>11, <1>12, Returned
<1>14. /\ stack' \in Seq(Call)
       /\ \A q : OnStack(q)' => OnStack(q) /\ q # p
  <2>1. /\ stack' \in Seq(Call)
        /\ \A q : OnStack(q)' => /\ OnStack(q)
                               /\ \E i \in 1..Len(Below) : Below[i].name = q
    BY <1>3, <1>9, <1>12, StillCalled
  <2> QED BY <1>6, <2>1
<1>15. Typed'
  BY <1>2, <1>3, <1>7, <1>14 DEF Typed, Marked
<1>16. Fresh'
  <2> SUFFICES ASSUME NEW q \in refreshed' \cap Stored
               PROVE  mtime'[q] > 0 /\ ~OnStack(q)'
    BY DEF Fresh
  <2>1. CASE q = p
    BY <1>3, <1>14, <2>1
  <2>2. CASE q # p
    <3>1. q \in refreshed \cap Stored /\ q \in Names
      BY <1>2, <2>2, NamesAssumption DEF Marked
    <3> QED BY <1>3, <1>4, <1>14, <2>2, <3>1 DEF Fresh
  <2> QED BY <2>1, <2>2
<1>17. ~(p \in refreshed \cap Stored)
  BY <1>4, <1>10 DEF Fresh
<1> QED BY <1>3, <1>13, <1>15, <1>16, <1>17

LEMMA Dying ==
  ASSUME IInv, NEW p \in Names, Dies(p) \/ DiesRestoring(p)
  PROVE  IInv'
<1> USE DEF IInv
<1>1. phase' = "idle" /\ targets' = <<>> /\ stack' = <<>>
      /\ UNCHANGED <<backup, refreshed>>
  BY DEF Dies, DiesRestoring, Restores, Stops
<1>2. Path' /\ Fresh' /\ Kept'
  BY <1>1, Unstacked
<1>3. CASE Dies(p)
  <2>1. PICK holds \in {"whole", "partial", "torn"} : Writes(p, holds)
    BY <1>3 DEF Dies, LeftBehind
  <2>2. Turn(p)
    BY <1>3 DEF Dies
  <2> QED BY <1>1, <1>2, <2>1, <2>2, Written DEF Typed
<1>4. CASE DiesRestoring(p)
  <2>1. Restores(p, "torn") /\ made' = made
    BY <1>4 DEF DiesRestoring, Restores
  <2> QED BY <1>1, <1>2, <2>1, Unpacked DEF Typed
<1> QED BY <1>3, <1>4

LEMMA Stepping == IInv /\ [Next]_vars => IInv'
<1> SUFFICES ASSUME IInv, [Next]_vars PROVE IInv'
  OBVIOUS
<1>1. CASE UNCHANGED vars
  <2>1. UNCHANGED <<file, mtime, backup, made, clock, phase, args, decision,
                    refreshed, targets, stack>>
    BY <1>1 DEF vars, disk, run
  <2>2. Typed' /\ InThePast' /\ Path'
    BY <2>1 DEF IInv, Typed, InThePast, Path
  <2>3. Fresh'
    BY <2>1 DEF IInv, Fresh, OnStack
  <2>4. YoungerIsMadeFrom'
    BY <2>1 DEF IInv, YoungerIsMadeFrom, Steady, SoleReader
  <2>5. \A d : (ToRefresh(d)' <=> ToRefresh(d)) /\ (CanRead(d)' <=> CanRead(d))
               /\ (OnStack(d)' <=> OnStack(d))
               /\ \A i : Handed(i, d)' <=> Handed(i, d)
    BY <2>1 DEF ToRefresh, CanRead, HasBackup, SharesCache, OnStack, Handed,
       Steady, SoleReader
  <2>6. Kept'
    BY <2>1, <2>5 DEF IInv, Kept, Plain
  <2> QED BY <2>2, <2>3, <2>4, <2>6 DEF IInv
<1>2. CASE Begin \/ Fail \/ Complete
  BY <1>2, Elsewhere
<1>3. ASSUME NEW p \in Names,
             \/ Read(p) \/ Restore(p) \/ Enter(p) \/ Process(p)
             \/ Interrupted(p) \/ Dies(p) \/ DiesRestoring(p) \/ Delete(p)
      PROVE  IInv'
  BY <1>3, Reading, Restoring, Entering, Processing, Dying, Deleting
<1> QED BY <1>1, <1>2, <1>3 DEF Next

-----------------------------------------------------------------------------
(***************************************************************************)
(* Whatever the pipelines, runs and their failures, an output younger than   *)
(* one it depends on was made from it (ProcessPolicy.build_and_print_tree    *)
(* decides by nothing else).                                                 *)
(***************************************************************************)
THEOREM TimesCanBeBelieved == Spec => []YoungerIsMadeFrom
<1>1. IInv => YoungerIsMadeFrom
  BY DEF IInv
<1> QED BY Beginning, Stepping, <1>1, PTL DEF Spec

(***************************************************************************)
(* No run refreshes a stored output twice (Pipeline.read_or_process).        *)
(***************************************************************************)
THEOREM NothingTwice == Spec => RefreshedOnce
<1>1. IInv /\ [Next]_vars =>
        [phase = "running" /\ phase' = "running" =>
           \A p \in refreshed \cap Stored :
             made'[p] = made[p] /\ file'[p] = file[p]]_vars
  <2> SUFFICES ASSUME IInv, Next, phase = "running", phase' = "running",
                      NEW p \in refreshed \cap Stored
               PROVE  made'[p] = made[p] /\ file'[p] = file[p]
    OBVIOUS
  <2> USE DEF IInv
  <2>0. p \in Names
    BY NamesAssumption
  <2>1. CASE UNCHANGED <<file, made>>
    BY <2>1
  <2>2. ASSUME NEW q \in Names, Restore(q)
        PROVE  made'[p] = made[p] /\ file'[p] = file[p]
    <3>1. q # p
      BY <2>2 DEF Restore, Restores, Refreshing, ToRefresh
    <3> QED BY <2>0, <2>2, <3>1 DEF Restore, Restores, Typed
  <2>3. ASSUME NEW q \in Names, Process(q) \/ Interrupted(q)
        PROVE  made'[p] = made[p] /\ file'[p] = file[p]
    <3>1. q # p
      BY <2>3, Processing
    <3> QED BY <2>0, <2>3, <3>1 DEF Process, Interrupted, Writes, Typed
  <2>4. CASE Begin \/ Fail \/ Complete
    BY <2>4, <2>1 DEF Begin, Fail, Complete, disk
  <2>5. ASSUME NEW q \in Names, Read(q) \/ Enter(q)
        PROVE  made'[p] = made[p] /\ file'[p] = file[p]
    BY <2>5 DEF Read, Enter, disk
  <2>6. ASSUME NEW q \in Names, Dies(q) \/ DiesRestoring(q) \/ Delete(q)
        PROVE  FALSE
    BY <2>6 DEF Dies, DiesRestoring, Delete, Stops
  <2> QED BY <2>2, <2>3, <2>4, <2>5, <2>6 DEF Next
<1> QED BY Beginning, Stepping, <1>1, PTL DEF Spec, RefreshedOnce

(***************************************************************************)
(* The shared cache holds incremental outputs only as a whole run left them  *)
(* (IncrementalJsonlPipeline.read_or_process: "interrupted partial output    *)
(* stays local").                                                            *)
(***************************************************************************)
THEOREM WholeIsShared == Spec => []SharedIsWhole
<1>1. Init => SharedIsWhole
  <2> SUFFICES ASSUME Init, NEW p \in Incremental PROVE backup[p].holds = "whole"
    BY DEF SharedIsWhole
  <2>1. p \in Names
    BY NamesAssumption
  <2>2. backup[p] = NoOutput
    BY <2>1 DEF Init
  <2> QED BY <2>2 DEF NoOutput
<1>2. IInv /\ SharedIsWhole /\ [Next]_vars => SharedIsWhole'
  <2> SUFFICES ASSUME IInv, SharedIsWhole, [Next]_vars,
                      NEW p \in Incremental
               PROVE  backup'[p].holds = "whole"
    BY DEF SharedIsWhole
  <2>0. p \in Names /\ p \in Stored /\ backup[p].holds = "whole"
    BY NamesAssumption DEF SharedIsWhole
  <2>1. CASE UNCHANGED backup
    BY <2>0, <2>1
  <2>2. ASSUME NEW q \in Names, Process(q)
        PROVE  backup'[p].holds = "whole"
    <3>1. q \in Stored => file'[q].holds = "whole"
      BY <2>2 DEF Process, Writes, IInv, Typed
    <3> QED BY <2>0, <2>2, <3>1, NamesAssumption
         DEF Process, Uploads, SharesCache, IInv, Typed
  <2>3. ASSUME NEW q \in Names, Interrupted(q)
        PROVE  backup'[p].holds = "whole"
    BY <2>0, <2>3 DEF Interrupted, UploadsPartial, Uploads, IInv, Typed
  <2>4. CASE UNCHANGED vars
    BY <2>1, <2>4 DEF vars, disk
  <2>5. CASE Begin \/ Fail \/ Complete
    BY <2>1, <2>5 DEF Begin, Fail, Complete, disk
  <2>6. ASSUME NEW q \in Names,
               Read(q) \/ Restore(q) \/ Enter(q) \/ Dies(q) \/ DiesRestoring(q)
                 \/ Delete(q)
        PROVE  backup'[p].holds = "whole"
    BY <2>1, <2>6 DEF Read, Restore, Restores, Enter, Dies, DiesRestoring, Delete, disk
  <2> QED BY <2>2, <2>3, <2>4, <2>5, <2>6 DEF Next
<1> QED BY Beginning, Stepping, <1>1, <1>2, PTL DEF Spec

-----------------------------------------------------------------------------
(***************************************************************************)
(* What a run decides: every pipeline's decision follows from those of what  *)
(* it reads, so there is one way to decide, and Evaluated is it.             *)
(***************************************************************************)
Verdict(root, refresh, exclude, p, dec) ==
  IF p \in Tree(root) THEN Decided(p, dec, refresh, exclude) ELSE "none"

\* Decided for all of a set that contains what its members read.
DecidedFor(root, refresh, exclude, S, dec) ==
  /\ Closed(S) /\ dec \in [Names -> Decisions]
  /\ \A p \in S : dec[p] = Verdict(root, refresh, exclude, p, dec)

LEMMA VerdictIsLocal ==
  ASSUME NEW root, NEW refresh, NEW exclude, NEW p, NEW f, NEW g,
         \A d \in Deps[p] : f[d] = g[d]
  PROVE  /\ Verdict(root, refresh, exclude, p, f) = Verdict(root, refresh, exclude, p, g)
         /\ Verdict(root, refresh, exclude, p, f) \in Decisions
<1>1. OutOfDate(p, f) <=> OutOfDate(p, g)
  BY DEF OutOfDate
<1> QED BY <1>1 DEF Verdict, Decided, Decisions

LEMMA OneWayToDecide ==
  ASSUME NEW root, NEW refresh, NEW exclude,
         NEW S \in SUBSET Names, NEW T \in SUBSET Names, NEW f, NEW g,
         DecidedFor(root, refresh, exclude, S, f),
         DecidedFor(root, refresh, exclude, T, g), NEW p \in S \cap T
  PROVE  f[p] = g[p]
<1> DEFINE differ == {q \in S \cap T : f[q] # g[q]}
<1> SUFFICES ASSUME differ # {} PROVE FALSE
  OBVIOUS
<1>1. PICK q \in differ : Deps[q] \cap differ = {}
  BY DepsAssumption
<1>2. \A d \in Deps[q] : f[d] = g[d]
  BY <1>1 DEF DecidedFor, Closed
<1> QED BY <1>2, VerdictIsLocal DEF DecidedFor

LEMMA ThereIsAWay ==
  ASSUME NEW root, NEW refresh, NEW exclude
  PROVE  \E dec : DecidedFor(root, refresh, exclude, Names, dec)
<1> DEFINE For(S, f) == DecidedFor(root, refresh, exclude, S, f)
           of(p, f) == Verdict(root, refresh, exclude, p, f)
           sets == {S \in SUBSET Names : \E f : For(S, f)}
           way(S) == CHOOSE f : For(S, f)
           set(p) == CHOOSE S \in sets : p \in S
           U == UNION sets
           dec == [p \in Names |-> IF p \in U THEN way(set(p))[p] ELSE "none"]
<1>1. \A S \in sets : For(S, way(S))
  OBVIOUS
<1>2. \A p \in U : set(p) \in sets /\ p \in set(p)
  OBVIOUS
<1>3. \A S \in sets : \A p \in S : p \in Names /\ dec[p] = way(S)[p]
  <2> TAKE S \in sets
  <2> TAKE p \in S
  <2>1. p \in U /\ p \in Names
    OBVIOUS
  <2>2. set(p) \in sets /\ p \in set(p)
    BY <1>2, <2>1
  <2>3. For(S, way(S)) /\ For(set(p), way(set(p)))
    BY <1>1, <2>2
  <2>4. S \in SUBSET Names /\ set(p) \in SUBSET Names
    BY <2>2
  <2>5. dec[p] = way(set(p))[p]
    BY <2>1
  <2> HIDE DEF sets, way, set, U, dec
  <2>6. way(S)[p] = way(set(p))[p]
    BY <2>2, <2>3, <2>4, OneWayToDecide
  <2> QED BY <2>1, <2>5, <2>6
<1>4. For(U, dec)
  <2>1. \A p \in U : Deps[p] \subseteq U /\ dec[p] = of(p, dec)
    <3> TAKE p \in U
    <3> DEFINE S == set(p)
    <3>1. S \in sets /\ p \in S /\ For(S, way(S))
      BY <1>1, <1>2
    <3>2. Deps[p] \subseteq S /\ way(S)[p] = of(p, way(S))
      BY <3>1 DEF DecidedFor, Closed
    <3>3. S \subseteq U
      BY <3>1
    <3> HIDE DEF S, sets, way, U, dec, For
    <3>4. \A d \in Deps[p] : dec[d] = way(S)[d]
      BY <1>3, <3>1, <3>2
    <3>5. of(p, dec) = of(p, way(S))
      BY <3>4, VerdictIsLocal
    <3> QED BY <1>3, <3>1, <3>2, <3>3, <3>5
  <2>2. dec \in [Names -> Decisions]
    <3>1. \A p \in U : dec[p] \in Decisions
      <4> HIDE DEF U, dec
      <4> QED BY <2>1, VerdictIsLocal
    <3> QED BY <3>1 DEF Decisions
  <2> HIDE DEF U, dec
  <2> QED BY <2>1, <2>2 DEF DecidedFor, Closed
<1>5. U = Names
  <2> SUFFICES ASSUME Names \ U # {} PROVE FALSE
    OBVIOUS
  <2>1. PICK p \in Names \ U : Deps[p] \cap (Names \ U) = {}
    BY DepsAssumption
  <2> DEFINE more == [dec EXCEPT ![p] = of(p, dec)]
  <2>2. Deps[p] \subseteq U
    BY <2>1, NamesAssumption
  <2>3. Closed(U \cup {p}) /\ dec \in [Names -> Decisions]
    BY <1>4, <2>2 DEF DecidedFor, Closed
  <2>4. of(p, dec) \in Decisions
    BY VerdictIsLocal
  <2>5. more \in [Names -> Decisions] /\ more[p] = of(p, dec)
        /\ \A q \in Names \ {p} : more[q] = dec[q]
    <3> HIDE DEF dec, U
    <3> QED BY <2>3, <2>4
  <2>6. U \subseteq Names
    OBVIOUS
  <2>7. \A q \in U \cup {p} : more[q] = of(q, more)
    <3> TAKE q \in U \cup {p}
    <3> HIDE DEF dec, U, more
    <3>1. Deps[q] \subseteq U
      BY <1>4, <2>2 DEF DecidedFor, Closed
    <3>2. \A d \in Deps[q] : more[d] = dec[d]
      BY <2>1, <2>5, <2>6, <3>1
    <3>3. of(q, more) = of(q, dec)
      BY <3>2, VerdictIsLocal
    <3> QED BY <1>4, <2>1, <2>5, <2>6, <3>3 DEF DecidedFor
  <2>8. For(U \cup {p}, more)
    <3> HIDE DEF more, U
    <3> QED BY <2>3, <2>5, <2>7 DEF DecidedFor
  <2>9. U \cup {p} \in sets
    <3> HIDE DEF U, For, more
    <3> QED BY <2>6, <2>8, <2>1
  <2> QED BY <2>1, <2>9
<1> HIDE DEF U, dec
<1> QED BY <1>4, <1>5

LEMMA EvaluatedIs ==
  ASSUME NEW root, NEW refresh, NEW exclude
  PROVE  LET dec == Evaluated(root, refresh, exclude)
         IN  /\ dec \in [Names -> Decisions]
             /\ \A p \in Tree(root) : dec[p] = Decided(p, dec, refresh, exclude)
<1> DEFINE eqn(dec) == dec = [p \in Names |-> Verdict(root, refresh, exclude, p, dec)]
           dec == Evaluated(root, refresh, exclude)
<1>1. dec = CHOOSE f : eqn(f)
  BY DEF Evaluated, Verdict
<1>2. \E f : eqn(f)
  <2>1. PICK f : DecidedFor(root, refresh, exclude, Names, f)
    BY ThereIsAWay
  <2> QED BY <2>1 DEF DecidedFor
<1>3. eqn(dec)
  BY <1>1, <1>2
<1>4. \A p \in Names : Verdict(root, refresh, exclude, p, dec) \in Decisions
  BY VerdictIsLocal
<1> HIDE DEF dec
<1>5. dec \in [Names -> Decisions]
  BY <1>3, <1>4
<1>6. Tree(root) \subseteq Names
  BY DEF Tree
<1> QED BY <1>3, <1>5, <1>6 DEF Verdict, dec

-----------------------------------------------------------------------------
(***************************************************************************)
(* A run that ends well: what it found current, refreshed or read is settled *)
(* with all below it, and the first target is settled before it ends.        *)
(***************************************************************************)
Quiet == args.exclude \cup declined \cup restored = {}

\* p and what it relies on will not be refreshed any more in this run.
Settled(p) == \A q \in Relied(p) \cap Stored : ~ToRefresh(q)

\* An output that stays as it is is there, younger than what it relies on.
Standing(p) ==
  p \in Stored /\ ~ToRefresh(p) =>
    /\ mtime[p] > 0 /\ Settled(p)
    /\ \A d \in (Deps[p] \cap Stored) \ Volatile : mtime[d] <= mtime[p]

\* No two outputs are of one age; the first call is for the next target.
Ages ==
  /\ \A p \in Names : mtime[p] > 0 => p \in Stored
  /\ \A p, q \in Names : mtime[p] = mtime[q] /\ mtime[p] > 0 => p = q
Called ==
  /\ phase \in {"idle", "running", "completed"}
  /\ phase # "idle" => args.first \in Names
  /\ phase = "running" =>
       /\ targets \in Seq(Names)
       /\ stack # <<>> => targets # <<>> /\ stack[1].name = targets[1]

Built ==
  phase # "idle" /\ Quiet =>
    /\ \A p \in Tree(args.first) : Standing(p)
    /\ \A i \in 1..Len(stack) :
         \A d \in (Deps[stack[i].name] \ stack[i].todo) \cap Tree(args.first) :
           Settled(d)
    /\ \A p \in Tree(args.first) \cap Stored : OnStack(p) => Runs(decision[p])
    /\ \/ Settled(args.first)
       \/ phase = "running" /\ targets # <<>> /\ targets[1] = args.first

BuildInv == IInv /\ Ages /\ Called /\ Built

LEMMA TreeIsClosed ==
  ASSUME NEW root \in Names
  PROVE  root \in Tree(root) /\ Tree(root) \subseteq Names /\ Closed(Tree(root))
<1>1. \A p \in Tree(root) : p \in Names /\ \A d \in Deps[p] : d \in Tree(root)
  <2> TAKE p \in Tree(root)
  <2>1. p \in Names
    BY DEF Tree
  <2> SUFFICES ASSUME NEW d \in Deps[p] PROVE d \in Tree(root)
    BY <2>1
  <2>2. d \in Names
    BY <2>1, NamesAssumption
  <2> SUFFICES ASSUME NEW S \in SUBSET Names, root \in S, Closed(S) PROVE d \in S
    BY <2>2 DEF Tree
  <2>3. p \in S
    BY DEF Tree
  <2> QED BY <2>3 DEF Closed
<1> QED BY <1>1 DEF Tree, Closed

LEMMA ReliedIsInside ==
  ASSUME NEW p \in Names, NEW S \in SUBSET Names, p \in S, ClosedFirmly(S)
  PROVE  Relied(p) \subseteq S
  BY DEF Relied

LEMMA ReliedIsClosed ==
  ASSUME NEW root \in Names
  PROVE  root \in Relied(root) /\ Relied(root) \subseteq Names
         /\ ClosedFirmly(Relied(root))
<1>1. \A p \in Relied(root) :
        p \in Names /\ \A d \in Deps[p] \ Volatile : d \in Relied(root)
  <2> TAKE p \in Relied(root)
  <2>1. p \in Names
    BY DEF Relied
  <2> SUFFICES ASSUME NEW d \in Deps[p] \ Volatile PROVE d \in Relied(root)
    BY <2>1
  <2>2. d \in Names
    BY <2>1, NamesAssumption
  <2> SUFFICES ASSUME NEW S \in SUBSET Names, root \in S, ClosedFirmly(S)
               PROVE  d \in S
    BY <2>2 DEF Relied
  <2>3. p \in S
    BY DEF Relied
  <2> QED BY <2>3 DEF ClosedFirmly
<1> QED BY <1>1 DEF Relied, ClosedFirmly

\* What p relies on, but for itself, is what those it reads rely on.
LEMMA ReliedBelow ==
  ASSUME NEW p \in Names, NEW q \in Relied(p), q # p
  PROVE  \E d \in Deps[p] \ Volatile : q \in Relied(d)
<1> DEFINE S == {p} \cup UNION {Relied(d) : d \in Deps[p] \ Volatile}
<1>1. Deps[p] \subseteq Names
  BY NamesAssumption
<1>2. \A d \in Deps[p] \ Volatile :
        d \in Relied(d) /\ Relied(d) \subseteq Names /\ ClosedFirmly(Relied(d))
  BY <1>1, ReliedIsClosed
<1>3. S \in SUBSET Names
  BY <1>2
<1>4. ClosedFirmly(S)
  <2> SUFFICES ASSUME NEW r \in S, NEW e \in Deps[r] \ Volatile PROVE e \in S
    BY DEF ClosedFirmly
  <2>1. CASE r = p
    BY <1>2, <2>1
  <2>2. CASE r # p
    <3>1. PICK d \in Deps[p] \ Volatile : r \in Relied(d)
      BY <2>2
    <3>2. e \in Relied(d)
      BY <1>2, <3>1 DEF ClosedFirmly
    <3> QED BY <3>1, <3>2
  <2> QED BY <2>1, <2>2
<1>5. p \in S
  OBVIOUS
<1>6. Relied(p) \subseteq S
  <2> HIDE DEF S
  <2> QED BY <1>3, <1>4, <1>5, ReliedIsInside
<1> QED BY <1>6

LEMMA ReliedInTree ==
  ASSUME NEW root \in Names
  PROVE  /\ Relied(root) \subseteq Tree(root)
         /\ \A p \in Tree(root) : Relied(p) \subseteq Tree(root)
<1>1. \A p \in Tree(root) : p \in Names
  BY DEF Tree
<1>2. ClosedFirmly(Tree(root)) /\ Tree(root) \in SUBSET Names /\ root \in Tree(root)
  BY TreeIsClosed DEF Closed, ClosedFirmly
<1> QED BY <1>1, <1>2, ReliedIsInside

LEMMA StaySettled ==
  ASSUME decision' = decision, refreshed \subseteq refreshed', NEW p, Settled(p)
  PROVE  Settled(p)'
  BY DEF Settled, ToRefresh

\* A settled result is handed over.
LEMMA Passing ==
  ASSUME BuildInv, Quiet, phase = "running", phase' = phase,
         UNCHANGED <<args, decision>>, refreshed \subseteq refreshed',
         NEW p \in Names, NEW nth \in Nat, NEW calls,
         Reaching(calls), HandOver(p, nth, calls),
         calls = <<>> => targets # <<>> /\ p = targets[1],
         p \in Tree(args.first) => Settled(p)',
         \A q \in Tree(args.first) : Standing(q)'
  PROVE  Built'
<1> USE DEF BuildInv, IInv
<1> DEFINE n == Len(calls)
           tree == Tree(args.first)
<1>1. /\ stack' \in Seq(Call) /\ \A q : OnStack(q)' => OnStack(q)
  BY StillCalled
<1>2. n \in Nat /\ n <= Len(stack) /\ calls \in Seq(Call)
      /\ \A i \in 1..n : calls[i] = stack[i] /\ i \in 1..Len(stack)
  BY Calls DEF Reaching
<1>3. /\ Len(stack') = n
      /\ \A i \in 1..n : stack'[i].name = calls[i].name
      /\ \A i \in 1..n - 1 : stack'[i] = calls[i]
      /\ n > 0 => stack'[n].todo = calls[n].todo \ {p}
  <2>1. calls \in Seq(Call)
    BY DEF Reaching
  <2> HIDE DEF BuildInv, IInv
  <2>2. Len(stack') = n
    BY <2>1, Handing
  <2>3. \A i \in 1..n : stack'[i].name = calls[i].name
    BY <2>1, Handing
  <2>4. \A i \in 1..n - 1 : stack'[i] = calls[i]
    BY <2>1, Handing
  <2>5. n > 0 => stack'[n].todo = calls[n].todo \ {p}
    BY <2>1, Handing
  <2> QED BY <2>2, <2>3, <2>4, <2>5
<1>4. /\ \A i \in 1..Len(stack) :
           \A d \in (Deps[stack[i].name] \ stack[i].todo) \cap tree : Settled(d)
      /\ \A q \in tree \cap Stored : OnStack(q) => Runs(decision[q])
      /\ Settled(args.first) \/ (targets # <<>> /\ targets[1] = args.first)
  BY DEF Built
<1>5. ASSUME NEW i \in 1..n,
             NEW d \in (Deps[stack'[i].name] \ stack'[i].todo) \cap tree
      PROVE  Settled(d)'
  <2>1. CASE d = p
    BY <1>5, <2>1
  <2>2. CASE d # p
    <3>1. stack'[i].name = stack[i].name /\ i \in 1..Len(stack)
      BY <1>2, <1>3
    <3>2. d \notin stack[i].todo
      <4>1. CASE i = n
        BY <1>2, <1>3, <2>2, <4>1
      <4>2. CASE i # n
        BY <1>2, <1>3, <4>2
      <4> QED BY <4>1, <4>2
    <3>3. Settled(d)
      BY <1>4, <3>1, <3>2
    <3> QED BY <3>3, StaySettled
  <2> QED BY <2>1, <2>2
<1>6. \/ Settled(args.first)'
      \/ targets' # <<>> /\ targets'[1] = args.first
  <2>1. CASE Settled(args.first)
    <3>1. Settled(args.first)' <=> \A q \in Relied(args.first) \cap Stored : ~ToRefresh(q)'
      BY DEF Settled, Relied
    <3> QED BY <2>1, <3>1 DEF Settled, ToRefresh
  <2>2. CASE targets # <<>> /\ targets[1] = args.first /\ calls = <<>>
    <3>1. p = args.first /\ p \in tree
      BY <2>2, TreeIsClosed
    <3>2. Settled(p)'
      BY <3>1
    <3> QED BY <3>1, <3>2 DEF Settled, Relied
  <2>3. CASE targets # <<>> /\ targets[1] = args.first /\ calls # <<>>
    BY <2>3 DEF HandOver
  <2> QED BY <1>4, <2>1, <2>2, <2>3
<1> QED BY <1>1, <1>3, <1>4, <1>5, <1>6 DEF Built, Tree

LEMMA BuiltReading ==
  ASSUME BuildInv, NEW p \in Names, Read(p), Quiet'
  PROVE  Built'
<1> USE DEF BuildInv, IInv
<1>1. /\ phase = "running" /\ phase' = phase /\ Wanted(p) /\ CanRead(p)
      /\ UNCHANGED <<disk, args, decision, refreshed, restored>>
  BY WantedIsNew DEF Read
<1>2. Quiet /\ ~ToRefresh(p) /\ p \in Stored /\ p \in Names
  BY <1>1, NamesAssumption DEF Quiet, Read, NotRefreshing, CanRead
<1>3. PICK nth \in Nat : HandOver(p, nth, stack)
  <2>1. file[p].nth \in Nat /\ backup[p].nth \in Nat
    BY DEF Typed, Output
  <2> QED BY <2>1 DEF Read
<1>4. Reaching(stack)
  BY <1>1 DEF Reaching, Typed
<1>5. \A q \in Tree(args.first) : Standing(q)
  BY <1>1, <1>2 DEF Built
<1>6. ASSUME NEW q \in Tree(args.first) PROVE Standing(q)'
  <2>1. Standing(q)
    BY <1>5
  <2> QED BY <1>1, <2>1, StaySettled DEF Standing, ToRefresh, disk
<1>7. p \in Tree(args.first) => Settled(p)'
  BY <1>1, <1>2, <1>5, StaySettled DEF Standing
<1>8. stack = <<>> => targets # <<>> /\ p = targets[1]
  BY <1>1 DEF Wanted
<1> QED BY <1>1, <1>2, <1>3, <1>4, <1>6, <1>7, <1>8, Passing

LEMMA BuiltEntering ==
  ASSUME BuildInv, NEW p \in Names, Enter(p), Quiet'
  PROVE  Built'
<1> USE DEF BuildInv, IInv
<1> DEFINE n == Len(stack)
           call == [name |-> p, todo |-> Deps[p], got |-> Nowhere]
           tree == Tree(args.first)
<1>1. phase = "running" /\ phase' = phase
      /\ UNCHANGED <<disk, args, decision, refreshed, restored, targets>>
      /\ stack' = Append(stack, call)
  BY WantedIsNew DEF Enter
<1>2. Quiet
  BY <1>1 DEF Quiet, Enter, Refreshing, NotRefreshing
<1>3. call.name = p /\ call.todo = Deps[p]
  OBVIOUS
<1> HIDE DEF call
<1>4. /\ n \in Nat /\ Len(stack') = n + 1
      /\ stack'[n + 1] = call /\ \A i \in 1..n : stack'[i] = stack[i]
  BY <1>1, Calls DEF Typed
<1>5. /\ \A q \in tree : Standing(q)
      /\ \A i \in 1..n :
           \A d \in (Deps[stack[i].name] \ stack[i].todo) \cap tree : Settled(d)
      /\ \A q \in tree \cap Stored : OnStack(q) => Runs(decision[q])
      /\ Settled(args.first) \/ (targets # <<>> /\ targets[1] = args.first)
  BY <1>1, <1>2 DEF Built
<1>6. p \in tree \cap Stored => Runs(decision[p])
  <2>1. ~ToRefresh(p) => ~CanRead(p)
    BY DEF Enter, Refreshing
  <2>2. p \in tree \cap Stored /\ ~ToRefresh(p) => CanRead(p)
    BY <1>5 DEF Standing, CanRead
  <2> QED BY <2>1, <2>2 DEF ToRefresh
<1>7. \A q : Settled(q) => Settled(q)'
  BY <1>1, StaySettled
<1>8. ASSUME NEW q \in tree PROVE Standing(q)'
  <2>1. Standing(q)
    BY <1>5
  <2> QED BY <1>1, <1>7, <2>1 DEF Standing, ToRefresh, disk
<1>9. ASSUME NEW i \in 1..n + 1,
             NEW d \in (Deps[stack'[i].name] \ stack'[i].todo) \cap tree
      PROVE  Settled(d)'
  <2>1. i # n + 1
    BY <1>3, <1>4
  <2>2. i \in 1..n
    BY <1>4, <2>1
  <2> QED BY <1>4, <1>5, <1>7, <2>2
<1>10. \A q \in tree \cap Stored : OnStack(q)' => Runs(decision[q])
  BY <1>3, <1>4, <1>5, <1>6 DEF OnStack
<1>11. Settled(args.first)' \/ (targets' # <<>> /\ targets'[1] = args.first)
  BY <1>1, <1>5, <1>7 DEF Settled, ToRefresh, Relied
<1> QED BY <1>1, <1>4, <1>8, <1>9, <1>10, <1>11 DEF Built, Tree

LEMMA BuiltProcessing ==
  ASSUME BuildInv, NEW p \in Names, Process(p) \/ Interrupted(p), Quiet'
  PROVE  Built'
<1> USE DEF BuildInv, IInv
<1> DEFINE n == Len(stack)
           tree == Tree(args.first)
<1>1. PICK holds \in {"whole", "partial", "torn"} : Writes(p, holds)
  BY DEF Process, Interrupted
<1>2. /\ Turn(p) /\ Marked(p) /\ HandOver(p, made'[p], Below)
      /\ UNCHANGED <<phase, args, decision, restored, declined>>
  BY DEF Process, Interrupted
<1>3. /\ \A q \in Names \ {p} : mtime'[q] = mtime[q]
      /\ mtime' \in [Names -> Nat] /\ made'[p] \in Nat /\ InThePast'
      /\ p \in Stored => mtime'[p] > 0
      /\ p \in Stored => mtime'[p] = clock + 1
  BY <1>1, <1>2, Written DEF Typed, Writes
<1>4. /\ n \in 1..n /\ n \in Nat /\ stack[n].name = p /\ stack[n].todo = {}
      /\ stack # <<>> /\ phase = "running" /\ OnStack(p)
  BY <1>2, Calls DEF Turn, Path, OnStack
<1>5. Quiet
  BY <1>2 DEF Quiet
<1>6. /\ \A q \in tree : Standing(q)
      /\ \A i \in 1..n :
           \A d \in (Deps[stack[i].name] \ stack[i].todo) \cap tree : Settled(d)
      /\ \A q \in tree \cap Stored : OnStack(q) => Runs(decision[q])
  BY <1>4, <1>5 DEF Built
<1>7. refreshed' = refreshed \cup {p} /\ decision' = decision
  BY <1>2 DEF Marked
<1>8. \A q : Settled(q) => Settled(q)'
  BY <1>7, StaySettled
<1>9. tree \subseteq Names /\ Closed(tree)
      /\ \A q \in tree : Relied(q) \subseteq tree
  BY <1>4, TreeIsClosed, ReliedInTree DEF Called
<1>10. p \in tree => \A d \in Deps[p] : d \in tree /\ Settled(d)
  BY <1>4, <1>6, <1>9 DEF Closed
\* What is written was to be refreshed.
<1>11. p \in tree \cap Stored => ToRefresh(p)
  BY <1>4, <1>6 DEF ToRefresh, Fresh
<1>12. p \in Stored => ~ToRefresh(p)'
  BY <1>7 DEF ToRefresh
<1>13. ASSUME p \in tree PROVE Settled(p)'
  <2> SUFFICES ASSUME NEW q \in Relied(p) \cap Stored PROVE ~ToRefresh(q)'
    BY DEF Settled, Relied
  <2>1. CASE q = p
    BY <1>12, <2>1
  <2>2. CASE q # p
    <3>1. PICK d \in Deps[p] \ Volatile : q \in Relied(d)
      BY <2>2, ReliedBelow
    <3>2. Settled(d)
      BY <1>10, <1>13
    <3>3. ~ToRefresh(q)
      BY <3>1, <3>2 DEF Settled
    <3> QED BY <1>7, <3>3 DEF ToRefresh
  <2> QED BY <2>1, <2>2
<1>14. ASSUME NEW q \in tree, q \in Stored, ~ToRefresh(q)'
       PROVE  /\ mtime'[q] > 0 /\ Settled(q)'
              /\ \A d \in (Deps[q] \cap Stored) \ Volatile : mtime'[d] <= mtime'[q]
  <2>1. CASE q = p
    <3>1. \A d \in Names : mtime'[d] <= clock + 1
      BY <1>1, <1>2, <1>3, <2>1, <1>14 DEF InThePast, Writes
    <3> QED BY <1>3, <1>9, <1>10, <1>13, <1>14, <2>1, <3>1
  <2>2. CASE q # p
    <3>1. q \in Names /\ ~ToRefresh(q)
      BY <1>7, <1>9, <1>14, <2>2 DEF ToRefresh
    <3>2. /\ mtime[q] > 0 /\ Settled(q)
          /\ \A d \in (Deps[q] \cap Stored) \ Volatile : mtime[d] <= mtime[q]
      BY <1>6, <1>14, <3>1 DEF Standing
    <3>3. \A d \in (Deps[q] \cap Stored) \ Volatile :
            d \in Names /\ d # p
      <4> TAKE d \in (Deps[q] \cap Stored) \ Volatile
      <4>1. d \in Names /\ d \in tree
        BY <1>9 DEF Closed
      <4>2. d \in Relied(q)
        BY <3>1, ReliedIsClosed DEF ClosedFirmly
      <4>3. ~ToRefresh(d)
        BY <3>2, <4>2 DEF Settled
      <4> QED BY <1>11, <4>1, <4>3
    <3> QED BY <1>3, <1>8, <2>2, <3>1, <3>2, <3>3
  <2> QED BY <2>1, <2>2
<1>15. \A q \in tree : Standing(q)'
  BY <1>14 DEF Standing
<1>16. Reaching(Below) /\ (Below = <<>> => targets # <<>> /\ p = targets[1])
  <2>1. Reaching(Below) /\ Len(Below) = n - 1
    BY <1>2, BelowReaches
  <2>2. Below = <<>> => n = 1
    BY <1>4, <2>1
  <2> QED BY <1>4, <2>1, <2>2 DEF Called
<1> HIDE DEF BuildInv, IInv
<1> QED BY <1>2, <1>3, <1>4, <1>5, <1>7, <1>13, <1>15, <1>16, Passing

LEMMA BuiltBegin ==
  ASSUME BuildInv, Begin, Quiet'
  PROVE  Built'
<1> USE DEF BuildInv, IInv
<1>1. PICK selected \in Selections, refresh \in Refreshes, exclude \in Exclusions,
           backups \in BOOLEAN :
        /\ decision' = Evaluated(selected[1], refresh, exclude)
        /\ targets' = selected
        /\ args' = [first |-> selected[1], refresh |-> refresh,
                    exclude |-> exclude, backups |-> backups]
  BY DEF Begin
<1>2. /\ selected \in Seq(Names) /\ selected # <<>> /\ selected[1] \in Names
      /\ args'.first = selected[1] /\ exclude = {}
  BY <1>1, ArgumentsAssumption DEF Quiet
<1> DEFINE first == selected[1]
           dec == Evaluated(first, refresh, exclude)
           tree == Tree(first)
<1>3. /\ phase' = "running" /\ refreshed' = {} /\ stack' = <<>> /\ mtime' = mtime
      /\ decision' = dec
  BY <1>1 DEF Begin, disk
<1>4. /\ dec \in [Names -> Decisions]
      /\ \A p \in tree : dec[p] = Decided(p, dec, refresh, exclude)
  BY EvaluatedIs
<1> HIDE DEF dec
<1>5. tree \subseteq Names /\ Closed(tree) /\ first \in tree
  BY <1>2, TreeIsClosed
<1>6. ASSUME NEW p \in tree, ~Runs(dec[p])
      PROVE  /\ mtime[p] > 0
             /\ \A d \in Deps[p] \ Volatile :
                  d \in tree /\ ~Runs(dec[d]) /\ mtime[d] <= mtime[p]
  <2>1. p \in Names /\ mtime[p] # 0 /\ ~OutOfDate(p, dec)
    BY <1>2, <1>4, <1>5, <1>6 DEF Decided, Runs
  <2>2. \A d \in Deps[p] : d \in tree /\ d \in Names
    BY <1>5 DEF Closed
  <2> QED BY <2>1, <2>2 DEF OutOfDate, Typed
<1>7. ASSUME NEW p \in tree, ~Runs(dec[p]), NEW q \in Relied(p)
      PROVE  ~Runs(dec[q])
  <2> DEFINE S == {r \in tree : ~Runs(dec[r])}
  <2>1. ClosedFirmly(S) /\ S \in SUBSET Names /\ p \in S /\ p \in Names
    BY <1>5, <1>6, <1>7 DEF ClosedFirmly
  <2>2. Relied(p) \subseteq S
    <3> HIDE DEF S
    <3> QED BY <2>1, ReliedIsInside
  <2> QED BY <2>2
<1>8. \A p : ToRefresh(p)' <=> Runs(dec[p])
  BY <1>3 DEF ToRefresh
<1>9. ASSUME NEW p \in tree PROVE Standing(p)'
  BY <1>3, <1>6, <1>7, <1>8, <1>9 DEF Standing, Settled, Relied
<1> QED BY <1>1, <1>2, <1>3, <1>9 DEF Built, OnStack, Tree

LEMMA AgesNext == BuildInv /\ [Next]_vars => Ages'
<1> SUFFICES ASSUME BuildInv, [Next]_vars PROVE Ages'
  OBVIOUS
<1> USE DEF BuildInv, IInv
<1>1. CASE UNCHANGED mtime
  BY <1>1 DEF Ages
\* One is written: it is younger than all the others.
<1>2. ASSUME NEW p \in Stored, mtime' = [mtime EXCEPT ![p] = clock + 1]
      PROVE  Ages'
  BY <1>2, NamesAssumption DEF Ages, InThePast, Typed
<1>3. ASSUME NEW p \in Names,
             Process(p) \/ Interrupted(p) \/ Dies(p)
      PROVE  Ages'
  <2>1. p \in Stored => mtime' = [mtime EXCEPT ![p] = clock + 1]
    BY <1>3 DEF Process, Interrupted, Dies, Writes
  <2>2. p \notin Stored => UNCHANGED mtime
    BY <1>3 DEF Process, Interrupted, Dies, Writes
  <2> QED BY <1>1, <1>2, <2>1, <2>2
<1>4. ASSUME NEW p \in Names, Restore(p) \/ DiesRestoring(p)
      PROVE  Ages'
  <2>1. p \in Stored /\ mtime' = [mtime EXCEPT ![p] = clock + 1]
    BY <1>4, NamesAssumption
       DEF Restore, DiesRestoring, Restores, HasBackup, SharesCache
  <2> QED BY <1>2, <2>1
<1>5. ASSUME NEW p \in Names, Delete(p)
      PROVE  Ages'
  BY <1>5 DEF Delete, Ages, Typed
<1>6. CASE Begin \/ Fail \/ Complete \/ UNCHANGED vars
           \/ \E p \in Names : Read(p) \/ Enter(p)
  BY <1>1, <1>6 DEF Begin, Fail, Complete, Read, Enter, vars, disk
<1> QED BY <1>3, <1>4, <1>5, <1>6 DEF Next

\* Handing a result over leaves the first call, or goes on to the next target.
LEMMA CalledStill ==
  ASSUME Typed, Called, phase = "running", phase' = phase, args' = args,
         NEW p \in Names, NEW nth \in Nat, NEW calls, Reaching(calls),
         HandOver(p, nth, calls), calls = <<>> => targets # <<>>
  PROVE  Called'
<1>0. calls \in Seq(Call)
  BY DEF Reaching
<1>1. Len(calls) \in Nat
      /\ \A i \in 1..Len(calls) : calls[i] = stack[i] /\ i \in 1..Len(stack)
  BY <1>0, Calls DEF Reaching
<1>2. \A i \in 1..Len(calls) : stack'[i].name = calls[i].name
  BY <1>0, Handing
<1>4. CASE calls = <<>>
  <2>1. targets' = Tail(targets) /\ targets \in Seq(Names) /\ stack' = <<>>
    BY <1>4 DEF HandOver, Called
  <2>2. targets' \in Seq(Names)
    BY <1>4, <2>1
  <2> QED BY <2>1, <2>2 DEF Called
<1>5. CASE calls # <<>>
  <2>1. targets' = targets /\ 1 \in 1..Len(calls) /\ stack # <<>>
    BY <1>1, <1>5 DEF HandOver
  <2>2. stack'[1].name = stack[1].name
    BY <1>1, <1>2, <2>1
  <2> QED BY <2>1, <2>2 DEF Called
<1> QED BY <1>4, <1>5

LEMMA CalledNext == BuildInv /\ [Next]_vars => Called'
<1> SUFFICES ASSUME BuildInv, [Next]_vars PROVE Called'
  OBVIOUS
<1> USE DEF BuildInv, IInv
<1>1. ASSUME NEW p \in Names, Read(p) \/ Restore(p)
      PROVE  Called'
  <2>1. phase = "running" /\ phase' = phase /\ args' = args /\ Wanted(p)
    BY <1>1, WantedIsNew DEF Read, Restore, Restores
  <2>2. PICK nth \in Nat : HandOver(p, nth, stack)
    <3>1. file[p].nth \in Nat /\ backup[p].nth \in Nat
      BY DEF Typed, Output
    <3> QED BY <1>1, <3>1 DEF Read, Restore
  <2>3. Reaching(stack) /\ (stack = <<>> => targets # <<>>)
    BY <2>1 DEF Reaching, Typed, Wanted
  <2> HIDE DEF BuildInv, IInv
  <2> QED BY <2>1, <2>2, <2>3, CalledStill DEF BuildInv, IInv
<1>2. ASSUME NEW p \in Names, Enter(p)
      PROVE  Called'
  <2> DEFINE call == [name |-> p, todo |-> Deps[p], got |-> Nowhere]
  <2>1. phase = "running" /\ Wanted(p) /\ stack' = Append(stack, call)
        /\ UNCHANGED <<phase, args, targets>>
    BY <1>2, WantedIsNew DEF Enter
  <2>2. CASE stack = <<>>
    <3>1. stack' = <<call>> /\ call.name = p
      BY <2>1, <2>2
    <3> HIDE DEF call
    <3> QED BY <2>1, <2>2, <3>1 DEF Called, Wanted
  <2>3. CASE stack # <<>>
    <3> HIDE DEF call
    <3>1. stack'[1] = stack[1]
      BY <2>1, <2>3, Calls DEF Typed
    <3> QED BY <2>1, <2>3, <3>1 DEF Called
  <2> QED BY <2>2, <2>3
<1>3. ASSUME NEW p \in Names, Process(p) \/ Interrupted(p)
      PROVE  Called'
  <2> DEFINE n == Len(stack)
  <2>1. PICK holds \in {"whole", "partial", "torn"} : Writes(p, holds)
    BY <1>3 DEF Process, Interrupted
  <2>2. /\ Turn(p) /\ HandOver(p, made'[p], Below) /\ UNCHANGED <<phase, args>>
    BY <1>3 DEF Process, Interrupted
  <2>3. made'[p] \in Nat
    BY <2>1, <2>2, Written
  <2>4. stack # <<>> /\ n \in Nat /\ n > 0 /\ phase = "running"
    BY <2>2, Calls DEF Turn, Path
  <2>5. Reaching(Below)
    BY <2>2, BelowReaches
  <2>6. targets # <<>>
    BY <2>4 DEF Called
  <2> HIDE DEF BuildInv, IInv
  <2> QED BY <2>2, <2>3, <2>4, <2>5, <2>6, CalledStill DEF BuildInv, IInv
<1>4. CASE Begin
  BY <1>4, ArgumentsAssumption DEF Begin, Called
<1>5. CASE Fail \/ Complete
           \/ \E p \in Names : Dies(p) \/ DiesRestoring(p) \/ Delete(p)
  BY <1>5 DEF Fail, Complete, Dies, DiesRestoring, Delete, Stops, Called
<1>6. CASE UNCHANGED vars
  BY <1>6 DEF vars, run, Called
<1> QED BY <1>1, <1>2, <1>3, <1>4, <1>5, <1>6 DEF Next

LEMMA BuiltNext == BuildInv /\ [Next]_vars => Built'
<1> SUFFICES ASSUME BuildInv, [Next]_vars, phase' # "idle", Quiet'
             PROVE  Built'
  BY DEF Built
<1>1. CASE Begin
  BY <1>1, BuiltBegin
<1>2. ASSUME NEW p \in Names, Read(p) \/ Enter(p)
      PROVE  Built'
  BY <1>2, BuiltReading, BuiltEntering
<1>3. ASSUME NEW p \in Names, Process(p) \/ Interrupted(p)
      PROVE  Built'
  BY <1>3, BuiltProcessing
<1>4. ASSUME NEW p \in Names, Restore(p)
      PROVE  FALSE
  BY <1>4 DEF Restore, Quiet
<1>5. CASE Complete
  <2>1. /\ phase = "running" /\ stack = <<>> /\ targets = <<>>
        /\ UNCHANGED <<mtime, args, decision, refreshed, restored, declined, stack>>
    BY <1>5 DEF Complete, disk
  <2>2. Quiet
    BY <2>1 DEF Quiet
  <2>3. Settled(args.first) /\ \A p \in Tree(args.first) : Standing(p)
    BY <2>1, <2>2 DEF BuildInv, Built
  <2>4. \A p : (Settled(p) => Settled(p)') /\ (Standing(p) => Standing(p)')
    BY <2>1 DEF Settled, Standing, ToRefresh, Relied
  <2> QED BY <2>1, <2>3, <2>4 DEF Built, Tree, OnStack, Settled, Relied, ToRefresh
<1>6. CASE Fail \/ \E p \in Names : Dies(p) \/ DiesRestoring(p) \/ Delete(p)
  BY <1>6 DEF Fail, Dies, DiesRestoring, Delete, Stops
<1>7. CASE UNCHANGED vars
  <2>1. /\ UNCHANGED <<mtime, phase, args, decision, refreshed, restored, declined,
                       targets, stack>>
    BY <1>7 DEF vars, disk, run
  <2>2. Built
    BY DEF BuildInv
  <2>3. \A p : /\ Settled(p)' <=> Settled(p)
               /\ Standing(p)' <=> Standing(p)
               /\ OnStack(p)' <=> OnStack(p)
    BY <2>1 DEF Settled, Standing, ToRefresh, OnStack, Relied
  <2>4. Settled(args.first)' <=> Settled(args.first)
    BY <2>1 DEF Settled, ToRefresh, Relied
  <2> QED BY <2>1, <2>2, <2>3, <2>4 DEF Built, Quiet, Tree
<1> QED BY <1>1, <1>2, <1>3, <1>4, <1>5, <1>6, <1>7 DEF Next

LEMMA BuildBegins == Init => BuildInv
<1> SUFFICES ASSUME Init PROVE BuildInv
  OBVIOUS
<1>1. Ages /\ Called /\ phase = "idle"
  BY DEF Init, Ages, Called, Nowhere
<1> QED BY <1>1, Beginning DEF BuildInv, Built

(***************************************************************************)
(* After a run that ended well everything under its first target is made     *)
(* from what it depends on (ProcessPolicy.build_and_print_tree decides once, *)
(* Pipeline.read_or_process follows the decisions), whatever the pipelines,  *)
(* what earlier runs left and what was asked for, unless something was       *)
(* excluded, declined or restored.                                           *)
(***************************************************************************)
THEOREM RunsBringUpToDate == Spec => []UpToDateAfterwards
<1>1. BuildInv => UpToDateAfterwards
  <2> SUFFICES ASSUME BuildInv, phase = "completed", Quiet,
                      NEW p \in Relied(args.first) \cap Stored,
                      NEW d \in (Deps[p] \cap Stored) \ Volatile,
                      Steady(p, d), ~file[p].restored
               PROVE  mtime[d] > 0 /\ file[p].from[d] = file[d].nth
    BY DEF UpToDateAfterwards, Quiet
  <2> USE DEF BuildInv, IInv
  <2>0. args.first \in Names
    BY DEF Called
  <2>1. /\ Settled(args.first)
        /\ \A q \in Tree(args.first) : Standing(q)
    BY DEF Built
  <2>2. p \in Names /\ d \in Names /\ d \in Relied(args.first)
        /\ p \in Tree(args.first) /\ d \in Tree(args.first)
    BY <2>0, ReliedIsClosed, ReliedInTree, NamesAssumption DEF ClosedFirmly
  <2>3. ~ToRefresh(p) /\ ~ToRefresh(d)
    BY <2>1, <2>2 DEF Settled
  <2>4. mtime[d] > 0 /\ mtime[d] <= mtime[p]
    BY <2>1, <2>2, <2>3 DEF Standing
  <2>5. p # d
    <3>1. \E q \in {p} : Deps[q] \cap {p} = {}
      BY <2>2, DepsAssumption
    <3> QED BY <3>1
  <2>6. mtime[p] > mtime[d]
    BY <2>2, <2>4, <2>5 DEF Ages, Typed
  <2> QED BY <2>4, <2>6 DEF YoungerIsMadeFrom
<1>2. BuildInv /\ [Next]_vars => BuildInv'
  BY Stepping, AgesNext, CalledNext, BuiltNext DEF BuildInv
<1> QED BY BuildBegins, <1>1, <1>2, PTL DEF Spec
=============================================================================
