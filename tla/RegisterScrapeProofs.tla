------------------------ MODULE RegisterScrapeProofs ------------------------
(***************************************************************************)
(* Theorems about RegisterScrape, for any company, days, bulletins, delays    *)
(* and failures: what is bought again has evidence, retries back off, a wrong *)
(* answer is noticed and a change is read.                                    *)
(***************************************************************************)
EXTENDS RegisterScrape, FiniteSetTheorems, WellFoundedInduction, TLAPS

-----------------------------------------------------------------------------
(***************************************************************************)
(* Days, the first and the last of some, and delays.                         *)
(***************************************************************************)
LEMMA LeastNatural ==
  ASSUME NEW T, T \subseteq Nat, T # {}
  PROVE  \E x \in T : \A y \in T : x <= y
<1> DEFINE Less == OpToRel(<, Nat)
<1>1. \A x, y \in Nat : x < y => <<x, y>> \in Less
  BY DEF OpToRel
<1>2. IsWellFoundedOn(Less, Nat)
  BY NatLessThanWellFounded
<1> HIDE DEF Less
<1>3. PICK x \in T : \A y \in T : <<y, x>> \notin Less
  BY <1>2, WFMin
<1>4. \A y \in T : ~(y < x)
  BY <1>1, <1>3
<1>5. \A y \in T : x \in Nat /\ y \in Nat
  BY <1>3
<1> QED BY <1>3, <1>4, <1>5

LEMMA MinIs ==
  ASSUME NEW T, T \subseteq Nat, T # {}
  PROVE  Min(T) \in T /\ \A x \in T : Min(T) <= x
<1>1. \E x \in T : \A y \in T : x <= y
  BY LeastNatural
<1> QED BY <1>1 DEF Min

LEMMA MaxIs ==
  ASSUME NEW T, T \subseteq Days, T # {}
  PROVE  Max(T) \in T /\ \A x \in T : x <= Max(T)
<1> DEFINE left == {LastDay - x : x \in T}
<1>0. \A x \in T : x \in Nat /\ x <= LastDay /\ LastDay - x \in Nat
  BY BoundsAssumption DEF Days
<1>1. left \subseteq Nat /\ left # {}
  BY <1>0
<1>2. PICK m \in left : \A y \in left : m <= y
  <2> HIDE DEF left
  <2> QED BY <1>1, LeastNatural
<1>3. PICK x \in T : m = LastDay - x
  BY <1>2
<1>4. \A y \in T : x >= y
  <2> TAKE y \in T
  <2>1. m <= LastDay - y
    BY <1>2
  <2>2. x \in Nat /\ y \in Nat /\ LastDay \in Nat
    BY <1>0, BoundsAssumption
  <2> QED BY <1>3, <2>1, <2>2
<1>5. \E z \in T : \A y \in T : z >= y
  BY <1>4
<1> DEFINE z == Max(T)
<1>6. z \in T /\ \A y \in T : z >= y
  BY <1>5 DEF Max
<1> HIDE DEF z
<1> QED BY <1>0, <1>6 DEF z

LEMMA LastIs ==
  ASSUME NEW T, T \subseteq Days
  PROVE  /\ LastOf(T) \in Nat /\ (LastOf(T) > 0 <=> T # {})
         /\ T # {} => LastOf(T) \in T
         /\ \A x \in T : x <= LastOf(T)
<1>1. CASE T = {}
  BY <1>1 DEF LastOf
<1>2. CASE T # {}
  <2>1. Max(T) \in T /\ \A x \in T : x <= Max(T)
    BY <1>2, MaxIs
  <2>2. \A x \in T : x \in Nat /\ x > 0
    BY DEF Days
  <2> QED BY <1>2, <2>1, <2>2 DEF LastOf
<1> QED BY <1>1, <1>2

LEMMA DaysAreFinite ==
  ASSUME NEW T, T \subseteq Days
  PROVE  IsFiniteSet(T) /\ Cardinality(T) \in Nat
<1>1. IsFiniteSet(Days)
  BY FS_Interval, BoundsAssumption DEF Days
<1> QED BY <1>1, FS_Subset, FS_CardinalityType

\* The more answers in a row fall short, the longer the wait.
LEMMA DelayGrows ==
  ASSUME NEW m \in Nat \ {0}, NEW n \in Nat, m <= n
  PROVE  /\ Delay(m) \in Nat \ {0} /\ Delay(n) \in Nat \ {0}
         /\ Backoff[1] <= Delay(m) /\ Delay(m) <= Delay(n)
<1> DEFINE len == Len(Backoff)
<1>1. len \in Nat \ {0} /\ \A i \in 1..len : Backoff[i] \in Nat \ {0}
  BY BoundsAssumption
<1>2. ASSUME NEW k \in Nat \ {0}
      PROVE  Min({k, len}) = IF k <= len THEN k ELSE len
  <2> HIDE DEF len
  <2>1. {k, len} \subseteq Nat /\ {k, len} # {}
    BY <1>1
  <2>2. Min({k, len}) \in {k, len} /\ \A x \in {k, len} : Min({k, len}) <= x
    BY <2>1, MinIs
  <2> QED BY <1>1, <2>2
<1>3. /\ Min({m, len}) \in 1..len /\ Min({n, len}) \in 1..len /\ 1 \in 1..len
      /\ Min({m, len}) <= Min({n, len}) /\ 1 <= Min({m, len})
  BY <1>1, <1>2
<1>4. \A i, j \in 1..len : i <= j => Backoff[i] <= Backoff[j]
  BY BoundsAssumption
<1> HIDE DEF len
<1> QED BY <1>1, <1>3, <1>4 DEF Delay, len

-----------------------------------------------------------------------------
(***************************************************************************)
(* Of the variables: no answer is of a day to come, the free ones tell the   *)
(* board only in the company's own register.                                 *)
(***************************************************************************)
Shape ==
  /\ today \in Days /\ board \in Boards /\ mirror \in Boards
  /\ written \subseteq 1..today /\ bulletin \subseteq Past
  /\ asking \subseteq Queries /\ answers \in [Queries -> [Days -> Answers]]
  /\ \A q \in Queries, d \in Days : answers[q][d] # "none" => d <= today
  /\ \A d \in Days :
       /\ answers["A"][d] \in Boards \cup {"none"}
       /\ answers[Home][d] \in Boards \cup {"none", "empty"}
       /\ \A q \in Free \ {Home} : answers[q][d] \notin Boards

LEMMA Queried ==
  /\ "A" \in Queries /\ Home \in Queries /\ "A" \notin Free /\ Home \in Free
  /\ Home # "A" /\ Free \subseteq Queries /\ Paid \cap Free = {}
  BY RegisterAssumption DEF Queries, Free

LEMMA Read ==
  ASSUME Shape
  PROVE  /\ Snapshots = {d \in Days : answers[Home][d] \in Boards}
         /\ Snapshots = Answered(Home)
         /\ \A d \in Snapshots :
              d \in Days /\ d <= today /\ BoardOn(d) = answers[Home][d]
                /\ BoardOn(d) \in Boards
<1>1. \A d \in Days, q \in Free : answers[q][d] \in Boards => q = Home
  BY DEF Shape
<1>2. Snapshots = {d \in Days : answers[Home][d] \in Boards}
  BY <1>1, Queried DEF Snapshots
<1>3. \A d \in Days : answers[Home][d] \in Boards =>
        BoardOn(d) = answers[Home][d] /\ answers[Home][d] # "none"
  BY <1>1, Queried, RegisterAssumption DEF BoardOn
<1>4. Snapshots = Answered(Home)
  BY <1>2, RegisterAssumption DEF Answered, Shape
<1> QED BY <1>2, <1>3, <1>4, Queried DEF Shape

LEMMA Bought ==
  ASSUME Shape
  PROVE  /\ Answered("A") = {d \in Days : answers["A"][d] # "none"}
         /\ \A d \in Answered("A") : d \in Days /\ d <= today
                                     /\ answers["A"][d] \in Boards
<1>1. \A d \in Days : answers["A"][d] # "empty"
  BY RegisterAssumption DEF Shape
<1> QED BY <1>1, Queried, RegisterAssumption DEF Answered, Shape

LEMMA LatestIs ==
  ASSUME NEW q \in Queries
  PROVE  /\ Latest(q) \in Nat /\ (Latest(q) > 0 <=> Answered(q) # {})
         /\ Answered(q) # {} => Latest(q) \in Answered(q)
         /\ \A d \in Answered(q) : d <= Latest(q)
<1>1. Answered(q) \subseteq Days
  BY DEF Answered
<1> QED BY <1>1, LastIs DEF Latest

-----------------------------------------------------------------------------
(***************************************************************************)
(* The snapshot nearest to an answer.                                        *)
(***************************************************************************)
LEMMA NearestIs ==
  ASSUME NEW r \in Days, Snapshots # {}
  PROVE  Nearest(r) \in Snapshots
<1>1. Snapshots \subseteq Days
  BY DEF Snapshots
<1>2. \A d \in Snapshots : d \in Nat /\ r \in Nat /\ Distance(d, r) \in Nat
  BY <1>1 DEF Days, Distance
<1> DEFINE far == {Distance(d, r) : d \in Snapshots}
<1>3. PICK m \in far : \A y \in far : m <= y
  <2>1. far \subseteq Nat /\ far # {}
    BY <1>2
  <2> HIDE DEF far
  <2> QED BY <2>1, LeastNatural
<1> DEFINE near == {d \in Snapshots : Distance(d, r) = m}
<1>4. PICK d \in near : \A e \in near : d <= e
  <2>1. near \subseteq Nat /\ near # {}
    BY <1>2, <1>3
  <2> HIDE DEF near
  <2> QED BY <2>1, LeastNatural
<1>5. \A e \in Snapshots : \/ Distance(d, r) < Distance(e, r)
                           \/ Distance(d, r) = Distance(e, r) /\ d <= e
  <2> TAKE e \in Snapshots
  <2>1. Distance(d, r) = m /\ m <= Distance(e, r) /\ Distance(e, r) \in Nat
    BY <1>2, <1>3, <1>4
  <2>2. Distance(e, r) = m => d <= e
    BY <1>4
  <2>3. m \in Nat
    BY <1>2, <1>3
  <2> QED BY <2>1, <2>2, <2>3
<1>6. \E x \in Snapshots : \A e \in Snapshots :
        \/ Distance(x, r) < Distance(e, r)
        \/ Distance(x, r) = Distance(e, r) /\ x <= e
  BY <1>4, <1>5
<1> QED BY <1>6 DEF Nearest

\* One that all others are farther than.
LEMMA NearestIsOnly ==
  ASSUME NEW r \in Days, NEW d \in Snapshots,
         \A e \in Snapshots \ {d} : Distance(d, r) < Distance(e, r)
  PROVE  Nearest(r) = d
<1>1. Snapshots \subseteq Days
  BY DEF Snapshots
<1>2. \A x \in Snapshots : x \in Nat /\ Distance(x, r) \in Nat
  BY <1>1 DEF Days, Distance
<1> DEFINE Best(x) == \A e \in Snapshots :
                        \/ Distance(x, r) < Distance(e, r)
                        \/ Distance(x, r) = Distance(e, r) /\ x <= e
<1>3. Best(d)
  BY <1>2
<1>4. \A x \in Snapshots : Best(x) => x = d
  <2> SUFFICES ASSUME NEW x \in Snapshots, Best(x), x # d PROVE FALSE
    OBVIOUS
  <2>1. Distance(x, r) < Distance(d, r) \/ Distance(x, r) = Distance(d, r)
    OBVIOUS
  <2>2. Distance(d, r) < Distance(x, r)
    OBVIOUS
  <2> QED BY <1>2, <2>1, <2>2
<1> QED BY <1>3, <1>4 DEF Nearest
-----------------------------------------------------------------------------
(***************************************************************************)
(* The answers that fall short.                                              *)
(***************************************************************************)
Judged(published) == {r \in Compared : Conclusive(r, published)}
Fine(published) == {r \in Judged(published) : ~Disagrees(r)}
Short(published) == {r \in Judged(published) : r > LastOf(Fine(published))}

LEMMA MissesAre ==
  ASSUME NEW published
  PROVE  Misses(published) =
           IF Short(published) = {} THEN {}
           ELSE {r \in Compared : r >= Min(Short(published))}
  BY DEF Misses, Short, Fine, Judged

\* One that falls short was compared, disagrees, and all since are misses.
LEMMA ShortIs ==
  ASSUME NEW published
  PROVE  /\ \A r \in Short(published) : r \in Compared /\ r \in Days /\ Disagrees(r)
         /\ Short(published) # {} =>
              /\ Min(Short(published)) \in Short(published)
              /\ \A r \in Short(published) : Min(Short(published)) <= r
         /\ Misses(published) \subseteq Compared
         /\ Misses(published) # {} <=> Short(published) # {}
<1> DEFINE J == Judged(published)
           F == Fine(published)
           S == Short(published)
<1>1. Compared \subseteq Days
  BY DEF Compared, Answered
<1>2. J \subseteq Compared /\ F \subseteq J /\ S \subseteq J
  BY DEF Judged, Fine, Short
<1>3. LastOf(F) \in Nat /\ \A x \in F : x <= LastOf(F)
  BY <1>1, <1>2, LastIs
<1>4. \A r \in S : r \in Nat /\ r > LastOf(F) /\ r \in Days
  <2> TAKE r \in S
  <2>1. r \in Days
    BY <1>1, <1>2
  <2>2. r > LastOf(F)
    BY DEF Short
  <2> QED BY <2>1, <2>2 DEF Days
<1>5. \A r \in S : Disagrees(r)
  <2> TAKE r \in S
  <2>1. r \notin F
    BY <1>3, <1>4
  <2> QED BY <1>2, <2>1 DEF Fine
<1>6. S # {} => Min(S) \in S /\ \A r \in S : Min(S) <= r
  <2>1. S \subseteq Nat
    BY <1>4
  <2> HIDE DEF S
  <2> QED BY <2>1, MinIs
<1>7. Misses(published) = IF S = {} THEN {} ELSE {r \in Compared : r >= Min(S)}
  BY MissesAre
<1>8. S # {} => Min(S) \in Misses(published)
  <2> HIDE DEF S
  <2> QED BY <1>2, <1>4, <1>6, <1>7
<1> HIDE DEF S
<1> QED BY <1>2, <1>4, <1>5, <1>6, <1>7, <1>8 DEF S

\* When one falls short, the last of the misses is the latest answer.
LEMMA LastMiss ==
  ASSUME Shape, NEW published, Misses(published) # {}
  PROVE  /\ Latest("A") \in Misses(published)
         /\ Max(Misses(published)) = Latest("A")
         /\ Cardinality(Misses(published)) \in Nat \ {0}
<1> DEFINE M == Misses(published)
           S == Short(published)
           s == Latest("A")
<1>1. /\ S # {} /\ M \subseteq Compared
      /\ Min(S) \in S /\ Min(S) \in Compared
  BY ShortIs
<1>2. Compared \subseteq Answered("A") /\ Answered("A") \subseteq Days
  BY DEF Compared, Answered
<1>3. s \in Answered("A") /\ s \in Nat /\ \A d \in Answered("A") : d <= s
  BY <1>1, <1>2, LatestIs, Queried
<1>4. s \in Compared
  BY <1>1, <1>3 DEF Compared
<1>5. s \in M
  <2>1. Min(S) <= s /\ Min(S) \in Nat
    BY <1>1, <1>2, <1>3 DEF Days
  <2> HIDE DEF s
  <2> QED BY <1>1, <1>3, <1>4, <2>1, MissesAre
<1>6. Max(M) \in M /\ \A x \in M : x <= Max(M)
  <2>1. M \subseteq Days
    BY <1>1, <1>2
  <2> HIDE DEF M
  <2> QED BY <2>1, <1>5, MaxIs
<1>7. Max(M) = s
  <2>1. Max(M) <= s /\ s <= Max(M) /\ Max(M) \in Nat
    BY <1>1, <1>2, <1>3, <1>5, <1>6 DEF Days
  <2> HIDE DEF M, s
  <2> QED BY <1>3, <2>1
<1>8. IsFiniteSet(M) /\ Cardinality(M) \in Nat
  <2>1. M \subseteq Days
    BY <1>1, <1>2
  <2> HIDE DEF M
  <2> QED BY <2>1, DaysAreFinite
<1>9. Cardinality(M) # 0
  <2> HIDE DEF M
  <2> QED BY <1>5, <1>8, FS_EmptySet
<1> QED BY <1>5, <1>7, <1>8, <1>9

\* The miss before the latest counts as well.
LEMMA TwoMisses ==
  ASSUME NEW M, M \subseteq Days, NEW r \in M, NEW s \in M, r # s
  PROVE  Cardinality(M) >= 2
<1>1. IsFiniteSet(M) /\ Cardinality(M) \in Nat
  BY DaysAreFinite
<1>2. Cardinality({r}) = 1 /\ IsFiniteSet({r})
  BY FS_Singleton
<1>3. Cardinality({r} \cup {s}) = 1 + 1
  BY <1>2, FS_AddElement
<1>4. Cardinality({r} \cup {s}) <= Cardinality(M)
  BY <1>1, FS_Subset
<1> QED BY <1>1, <1>3, <1>4

-----------------------------------------------------------------------------
(***************************************************************************)
(* The invariant: what the register and rejestr.io have told.                *)
(***************************************************************************)
\* A snapshot tells the board, unless the register was written to since.
BoardIsRead ==
  \A d \in Snapshots : BoardOn(d) = board \/ \E w \in written : w >= d

\* The register is read again only when it was written to since it was read.
ReadWithCause ==
  /\ \A d, e \in Snapshots : d < e => \E w \in written : d < w /\ w < e
  /\ Home \in asking => \A d \in Snapshots : \E w \in written : d < w /\ w < today

\* Once rejestr.io has caught up it is right until the register is written to.
Follows ==
  \A r \in Answered("A") : answers["A"][r] = board /\ written \cap r..today = {} =>
    /\ mirror = board
    /\ \A s \in Answered("A") : r <= s => answers["A"][s] = board

\* What speaks for buying again on a day what was bought on day r.
Evidence(r, day) ==
  \/ /\ \E d \in Snapshots : r < d /\ d <= day
     /\ \E w \in written : r < w /\ w < day
  \/ /\ \E q \in Answered("A"), d \in Snapshots :
          q <= r /\ d <= day /\ BoardOn(d) # answers["A"][q]
     /\ day - r >= Backoff[1]

\* Read by the day r, and left alone until the day.
LeftAlone(r, day) == \E d \in Snapshots : d <= r /\ written \cap d..day = {}

BuysWithCause ==
  "A" \in asking /\ Latest("A") > 0 =>
    /\ Latest("A") < today /\ Evidence(Latest("A"), today)
    /\ \A r \in Answered("A") :
         Consecutive(Answered("A"), r, Latest("A")) /\ LeftAlone(r, today)
           => today - Latest("A") >= Delay(2)

ScrapeInv ==
  /\ Shape /\ BoardIsRead /\ ReadWithCause /\ Follows /\ BuysWithCause
  /\ RepurchaseHasEvidence /\ PurchasesBackOff

\* Left alone since it was read, it was not read again.
LEMMA LastSnapshot ==
  ASSUME Shape, ReadWithCause, NEW d \in Snapshots, written \cap d..today = {}
  PROVE  \A e \in Snapshots : e <= d
<1> SUFFICES ASSUME NEW e \in Snapshots, ~(e <= d) PROVE FALSE
  OBVIOUS
<1>1. d \in Nat /\ e \in Nat /\ e <= today /\ today \in Nat
  BY Read DEF Days, Shape
<1>2. PICK w \in written : d < w /\ w < e
  BY <1>1 DEF ReadWithCause
<1>3. w \in 1..today
  BY DEF Shape
<1>4. w \in d..today
  BY <1>1, <1>2, <1>3
<1> QED BY <1>4

\* Left alone since it was read, one that agrees is followed by none that does not.
LEMMA NoneAfterFine ==
  ASSUME Shape, BoardIsRead, Follows, NEW d \in Snapshots,
         NEW r \in Answered("A"), NEW s \in Answered("A"), d <= r, r <= s,
         written \cap d..today = {}, answers["A"][r] = BoardOn(d)
  PROVE  answers["A"][s] = BoardOn(d)
<1>1. d \in Nat /\ r \in Nat /\ today \in Nat /\ written \subseteq 1..today
  BY Read, Bought DEF Days, Shape
<1>2. ~\E w \in written : w >= d
  BY <1>1
<1>3. BoardOn(d) = board
  BY <1>2 DEF BoardIsRead
<1>4. written \cap r..today = {}
  BY <1>1
<1> QED BY <1>3, <1>4 DEF Follows

-----------------------------------------------------------------------------
(***************************************************************************)
(* What a run asks, and why.                                                 *)
(***************************************************************************)
LEMMA WrittenIs ==
  ASSUME Shape, NEW published, published \subseteq Past,
         NEW q \in Queries, WrittenSince(q, published)
  PROVE  /\ Update(published) \in written
         /\ Latest(q) < Update(published) /\ Update(published) < today
<1> DEFINE W == written \cap published
<1>1. /\ W \subseteq Days /\ today \in Nat
      /\ \A w \in W : w \in Nat /\ w < today
  BY BoundsAssumption DEF Shape, Past, Days
<1>2. Update(published) > Latest(q) /\ Latest(q) \in Nat
  BY LatestIs DEF WrittenSince
<1>3. Update(published) = LastOf(W)
  BY DEF Update
<1>4. LastOf(W) \in Nat /\ (LastOf(W) > 0 => LastOf(W) \in W)
  <2> HIDE DEF W
  <2> QED BY <1>1, LastIs
<1>5. LastOf(W) \in W
  <2> HIDE DEF W
  <2> QED BY <1>2, <1>3, <1>4
<1> QED BY <1>1, <1>2, <1>3, <1>5

\* The register is asked for what was written since it was read.
LEMMA HomeIsAsked ==
  ASSUME Shape, NEW published, published \subseteq Past, Home \in ToAsk(published)
  PROVE  \A d \in Snapshots : \E w \in written : d < w /\ w < today
<1> SUFFICES ASSUME NEW d \in Snapshots
             PROVE  \E w \in written : d < w /\ w < today
  OBVIOUS
<1>1. Latest(Home) > 0 /\ d <= Latest(Home) /\ Latest(Home) \in Nat /\ d \in Nat
  BY Read, LatestIs, Queried DEF Days
<1>2. ~Lacking
  BY <1>1, Queried DEF Lacking
<1>3. Home \in NeedsRefresh(published)
  BY <1>1, <1>2 DEF ToAsk
<1>4. WrittenSince(Home, published)
  BY <1>3, Queried DEF NeedsRefresh
<1> DEFINE w == Update(published)
<1>5. w \in written /\ Latest(Home) < w /\ w < today
  BY <1>4, WrittenIs, Queried
<1>6. w \in 1..today
  BY <1>5 DEF Shape
<1>7. d < w
  BY <1>1, <1>5, <1>6
<1> QED BY <1>5, <1>7

LEMMA WhyAgain ==
  ASSUME NEW published, "A" \in ToAsk(published), Latest("A") > 0
  PROVE  \/ WrittenSince("A", published) /\ PeopleChangedSince("A")
         \/ Overdue(published)
<1>1. "A" \in NeedsRefresh(published)
  BY Queried DEF ToAsk
<1> QED BY <1>1, Queried DEF NeedsRefresh

LEMMA ChangeIsRead ==
  ASSUME ChangedOn # 0
  PROVE  ChangedOn \in Snapshots
<1>1. Snapshots \subseteq Days
  BY DEF Snapshots
<1>2. CASE Cardinality(Snapshots) = 1
  <2>1. Snapshots # {}
    BY <1>2, FS_EmptySet
  <2> QED BY <1>1, <1>2, <2>1, MaxIs DEF ChangedOn
<1>3. CASE Cardinality(Snapshots) # 1
  <2> DEFINE C == {d \in Snapshots :
                     LET before == {e \in Snapshots : e < d}
                     IN  before # {} /\ BoardOn(Max(before)) # BoardOn(d)}
  <2>1. ChangedOn = LastOf(C) /\ C \subseteq Days /\ C \subseteq Snapshots
    BY <1>1, <1>3 DEF ChangedOn
  <2> HIDE DEF C
  <2> QED BY <2>1, LastIs
<1> QED BY <1>2, <1>3

\* An answer that is overdue falls short, and so does one before it.
LEMMA OverdueIs ==
  ASSUME Shape, NEW published, Overdue(published)
  PROVE  /\ Latest("A") + Delay(Cardinality(Misses(published))) <= today
         /\ Cardinality(Misses(published)) \in Nat \ {0}
         /\ \E q \in Answered("A"), d \in Snapshots :
              q <= Latest("A") /\ BoardOn(d) # answers["A"][q]
<1>1. Misses(published) # {}
  BY DEF Overdue
<1>2. PICK q \in Short(published) : TRUE
  BY <1>1, ShortIs
<1>3. q \in Compared /\ q \in Days /\ Disagrees(q)
  BY ShortIs
<1>4. q \in Answered("A") /\ Snapshots # {}
  BY <1>3 DEF Compared
<1>5. Nearest(q) \in Snapshots /\ q <= Latest("A")
  BY <1>3, <1>4, NearestIs, LatestIs, Queried
<1>6. BoardOn(Nearest(q)) # answers["A"][q]
  BY <1>3 DEF Disagrees
<1> QED BY <1>1, <1>4, <1>5, <1>6, LastMiss DEF Overdue

\* While the register leaves it alone, the answer before the latest is a miss.
LEMMA BothAreMisses ==
  ASSUME Shape, BoardIsRead, ReadWithCause, Follows, NEW published,
         Overdue(published), NEW r \in Answered("A"),
         Consecutive(Answered("A"), r, Latest("A")), LeftAlone(r, today)
  PROVE  r \in Misses(published)
<1> DEFINE s == Latest("A")
           S == Short(published)
           F == Fine(published)
<1>1. PICK d \in Snapshots : d <= r /\ written \cap d..today = {}
  BY DEF LeftAlone
<1>2. /\ s \in Answered("A") /\ s \in Days /\ r \in Days /\ d \in Days
      /\ r < s /\ s <= today /\ today \in Nat
      /\ \A x \in Answered("A") : x <= r \/ s <= x
  <2>1. s \in Answered("A")
    BY LatestIs, Queried
  <2>2. \A x \in Answered("A") : x \in Nat
    BY Bought DEF Days
  <2> HIDE DEF s
  <2> QED BY <2>1, <2>2, Bought, Read DEF Consecutive, s, Shape, Days
<1>3. Misses(published) # {} /\ S # {}
  BY ShortIs DEF Overdue
<1>4. Min(S) \in S /\ (\A x \in S : Min(S) <= x /\ x \in Answered("A") /\ Disagrees(x))
      /\ Snapshots # {}
  <2>1. \A x \in S : x \in Compared /\ Disagrees(x)
    BY ShortIs
  <2> QED BY <1>3, <2>1, ShortIs DEF Compared
<1>5. r \in Compared
  BY <1>4 DEF Compared
<1>6. SUFFICES ASSUME ~(Min(S) <= r) PROVE FALSE
  <2>1. Min(S) \in Nat /\ r \in Nat
    BY <1>2, <1>4, Bought DEF Days
  <2>2. r >= Min(S) => r \in Misses(published)
    <3> HIDE DEF S
    <3> QED BY <1>3, <1>5, MissesAre DEF S
  <2> HIDE DEF S
  <2> QED BY <2>1, <2>2
\* Then the latest alone falls short.
<1>7. s \in S
  <2>1. Min(S) \in Answered("A") /\ Min(S) <= s /\ Min(S) \in Nat /\ s \in Nat
    BY <1>2, <1>4, LatestIs, Queried, Bought DEF Days
  <2>2. s <= Min(S)
    BY <1>2, <1>6, <2>1
  <2> HIDE DEF s, S
  <2> QED BY <1>4, <2>1, <2>2
<1>8. \A e \in Snapshots : e \in Nat /\ e <= d
  BY <1>1, LastSnapshot, Read DEF Days
<1>9. \A x \in {r, s} : \A e \in Snapshots \ {d} : Distance(d, x) < Distance(e, x)
  <2> TAKE x \in {r, s}
  <2> TAKE e \in Snapshots \ {d}
  <2>1. e < d /\ d <= x /\ x \in Nat /\ d \in Nat /\ e \in Nat
    <3> HIDE DEF s
    <3> QED BY <1>1, <1>2, <1>8 DEF Days
  <2> HIDE DEF s
  <2> QED BY <2>1 DEF Distance
<1>10. Nearest(r) = d /\ Nearest(s) = d
  <2> HIDE DEF s
  <2> QED BY <1>2, <1>9, NearestIsOnly
<1>11. Conclusive(s, published)
  BY <1>7 DEF Short, Judged
<1>12. Conclusive(r, published)
  <2> DEFINE span(x) == {y \in Days : (Nearest(x) < y /\ y <= x) \/ (x < y /\ y <= Nearest(x))}
  <2>1. span(r) \subseteq span(s)
    <3> HIDE DEF s
    <3>1. \A y \in Days : y \in Nat /\ r \in Nat /\ s \in Nat /\ d \in Nat
      BY <1>2 DEF Days
    <3> QED BY <1>1, <1>2, <1>10, <3>1
  <2>2. span(s) \subseteq published /\ span(s) \cap written = {}
    BY <1>11 DEF Conclusive
  <2>3. span(r) \subseteq published /\ span(r) \cap written = {}
    <3> HIDE DEF span, s
    <3> QED BY <2>1, <2>2
  <2> HIDE DEF s
  <2> QED BY <2>3 DEF Conclusive
<1>13. r \in Judged(published)
  BY <1>5, <1>12 DEF Judged
<1>14. r \notin F
  <2> SUFFICES ASSUME ~Disagrees(r) PROVE FALSE
    BY DEF Fine
  <2>1. answers["A"][r] = BoardOn(d)
    BY <1>10 DEF Disagrees
  <2>2. answers["A"][s] = BoardOn(d)
    <3>1. d <= r /\ r <= s
      BY <1>1, <1>2 DEF Days
    <3> HIDE DEF s
    <3> QED BY <1>1, <1>2, <2>1, <3>1, NoneAfterFine
  <2> HIDE DEF s
  <2> QED BY <1>4, <1>7, <1>10, <2>2 DEF Disagrees
<1>15. r > LastOf(F)
  <2>1. F \subseteq Answered("A") /\ F \subseteq Days
    BY DEF Fine, Judged, Compared, Answered
  <2>2. LastOf(F) \in Nat /\ (LastOf(F) > 0 => LastOf(F) \in F)
    <3> HIDE DEF F
    <3> QED BY <2>1, LastIs
  <2>3. s > LastOf(F)
    BY <1>7 DEF Short
  <2>4. CASE LastOf(F) = 0
    BY <1>2, <2>4 DEF Days
  <2>5. CASE LastOf(F) > 0
    <3>1. LastOf(F) \in Answered("A") /\ LastOf(F) # r
      <4> HIDE DEF F
      <4> QED BY <1>14, <2>1, <2>2, <2>5
    <3>2. r \in Nat /\ s \in Nat
      BY <1>2 DEF Days
    <3> HIDE DEF F, s
    <3> QED BY <1>2, <2>2, <2>3, <3>1, <3>2
  <2> HIDE DEF F
  <2> QED BY <2>2, <2>4, <2>5
<1>16. r \in S
  BY <1>13, <1>15 DEF Short
<1> HIDE DEF S
<1> QED BY <1>4, <1>6, <1>16

\* Bought again, for the reasons given.
LEMMA CauseOfBuying ==
  ASSUME Shape, BoardIsRead, ReadWithCause, Follows,
         NEW published, published \subseteq Past,
         "A" \in ToAsk(published), Latest("A") > 0
  PROVE  /\ Latest("A") < today /\ Evidence(Latest("A"), today)
         /\ \A r \in Answered("A") :
              Consecutive(Answered("A"), r, Latest("A")) /\ LeftAlone(r, today)
                => today - Latest("A") >= Delay(2)
<1> DEFINE s == Latest("A")
<1>1. s \in Answered("A") /\ s \in Nat /\ today \in Nat
  BY LatestIs, Queried DEF Shape, Days
<1>2. CASE WrittenSince("A", published) /\ PeopleChangedSince("A")
  <2> DEFINE w == Update(published)
  <2>1. w \in written /\ s < w /\ w < today
    BY <1>2, WrittenIs, Queried
  <2>2. w \in Nat
    <3> HIDE DEF w
    <3> QED BY <2>1 DEF Shape
  <2>3. ChangedOn > s
    BY <1>2 DEF PeopleChangedSince
  <2>4. ChangedOn \in Snapshots
    <3>1. ChangedOn # 0
      <4> HIDE DEF s
      <4> QED BY <1>1, <2>3
    <3> QED BY <3>1, ChangeIsRead
  <2>5. s < today
    BY <1>1, <2>1, <2>2
  <2>6. Evidence(s, today)
    <3>1. s < ChangedOn /\ ChangedOn <= today
      BY <1>1, <2>3, <2>4, Read DEF Days
    <3> HIDE DEF s
    <3> QED BY <2>1, <2>4, <3>1 DEF Evidence
  <2>7. \A r \in Answered("A") :
          Consecutive(Answered("A"), r, s) => ~LeftAlone(r, today)
    <3> SUFFICES ASSUME NEW r \in Answered("A"), Consecutive(Answered("A"), r, s),
                        NEW d \in Snapshots, d <= r, written \cap d..today = {}
                 PROVE  FALSE
      BY DEF LeftAlone
    <3>1. r < s /\ r \in Nat /\ d \in Nat
      BY Bought, Read DEF Consecutive, Days
    <3>2. w \in d..today
      BY <1>1, <2>1, <2>2, <3>1
    <3> QED BY <2>1, <3>2
  <2> QED BY <2>5, <2>6, <2>7
<1>3. CASE Overdue(published)
  <2> DEFINE n == Cardinality(Misses(published))
  <2>1. s + Delay(n) <= today /\ n \in Nat \ {0}
    BY <1>3, OverdueIs
  <2>2. PICK q \in Answered("A"), d \in Snapshots :
          q <= s /\ BoardOn(d) # answers["A"][q]
    BY <1>3, OverdueIs
  <2>3. Delay(n) \in Nat \ {0} /\ Backoff[1] <= Delay(n) /\ Backoff[1] \in Nat
    <3>1. Backoff[1] \in Nat
      BY BoundsAssumption
    <3> HIDE DEF n
    <3> QED BY <2>1, <3>1, DelayGrows
  <2>4. s < today /\ today - s >= Backoff[1]
    <3> HIDE DEF s, n
    <3> QED BY <1>1, <2>1, <2>3
  <2>5. d <= today
    BY Read
  <2>6. Evidence(s, today)
    <3> HIDE DEF s
    <3> QED BY <2>2, <2>4, <2>5 DEF Evidence
  <2>7. ASSUME NEW r \in Answered("A"), Consecutive(Answered("A"), r, s),
               LeftAlone(r, today)
        PROVE  today - s >= Delay(2)
    <3>1. r \in Misses(published) /\ s \in Misses(published) /\ r # s
      <4>1. r < s /\ r \in Nat
        BY <2>7, Bought DEF Consecutive, Days
      <4>2. Misses(published) # {}
        BY <1>3 DEF Overdue
      <4> QED BY <1>1, <1>3, <2>7, <4>1, <4>2, BothAreMisses, LastMiss
    <3>2. Misses(published) \subseteq Days
      BY ShortIs DEF Compared, Answered
    <3>3. n >= 2
      <4> HIDE DEF s
      <4> QED BY <3>1, <3>2, TwoMisses
    <3>4. Delay(2) <= Delay(n) /\ Delay(2) \in Nat
      <4> HIDE DEF n
      <4> QED BY <2>1, <3>3, DelayGrows
    <3> HIDE DEF s, n
    <3> QED BY <1>1, <2>1, <2>3, <3>4
  <2> QED BY <2>4, <2>6, <2>7
<1> QED BY <1>2, <1>3, WhyAgain

-----------------------------------------------------------------------------
(***************************************************************************)
(* The steps.                                                                *)
(***************************************************************************)
\* What a step of the program or of the world does to what is stored.
LEMMA OnlyToday ==
  ASSUME Shape, [Next]_vars
  PROVE  /\ answers' \in [Queries -> [Days -> Answers]]
         /\ today' \in Days /\ today <= today' /\ written \subseteq written'
         /\ \A q \in Queries, d \in Days : answers'[q][d] # answers[q][d] =>
              /\ d = today /\ q \in asking /\ answers[q][d] = "none"
              /\ today' = today
              /\ \/ Ask(q) /\ answers'[q][d] = Answer(q)
                 \/ q \in Free /\ answers'[q][d] = "empty"
<1>0. today \in Days /\ today \in Nat /\ LastDay \in Nat
  BY BoundsAssumption DEF Shape, Days
<1>1. ASSUME UNCHANGED answers
      PROVE  answers' \in [Queries -> [Days -> Answers]] /\ answers' = answers
  BY <1>1 DEF Shape
<1>2. ASSUME NEW q \in Queries, NEW answer \in Answers, Stores(q, answer)
      PROVE  /\ answers' \in [Queries -> [Days -> Answers]]
             /\ \A p \in Queries, d \in Days : answers'[p][d] # answers[p][d] =>
                  /\ p = q /\ d = today /\ answers[p][d] = "none"
                  /\ answers'[p][d] = answer
  BY <1>0, <1>2 DEF Stores, Shape
<1>3. ASSUME NEW q \in Queries, Ask(q)
      PROVE  /\ Answer(q) \in Answers /\ Stores(q, Answer(q)) /\ q \in asking
             /\ UNCHANGED <<today, written>>
  BY <1>3 DEF Ask, IsNext, Answer, Answers, Shape, world
<1>4. ASSUME NEW q \in Queries, Miss(q)
      PROVE  /\ q \in asking /\ UNCHANGED <<today, written>>
             /\ UNCHANGED answers \/ (q \in Free /\ Stores(q, "empty"))
  BY <1>4 DEF Miss, IsNext, world
<1>5. CASE UNCHANGED vars \/ StartFree \/ StartPaid \/ Stop \/ Write \/ CatchUp
           \/ Tomorrow
  <2>1. UNCHANGED answers /\ today' \in Days /\ today <= today'
        /\ written \subseteq written'
    BY <1>0, <1>5 DEF vars, world, scraper, StartFree, StartPaid, Stop, Write,
                      CatchUp, Tomorrow, Days
  <2> QED BY <1>1, <2>1
<1>6. ASSUME NEW q \in Queries, Ask(q)
      PROVE  /\ answers' \in [Queries -> [Days -> Answers]]
             /\ UNCHANGED <<today, written>>
             /\ \A p \in Queries, d \in Days : answers'[p][d] # answers[p][d] =>
                  /\ d = today /\ p \in asking /\ answers[p][d] = "none"
                  /\ Ask(p) /\ answers'[p][d] = Answer(p)
  BY <1>2, <1>3, <1>6
<1>7. ASSUME NEW q \in Queries, Miss(q)
      PROVE  /\ answers' \in [Queries -> [Days -> Answers]]
             /\ UNCHANGED <<today, written>>
             /\ \A p \in Queries, d \in Days : answers'[p][d] # answers[p][d] =>
                  /\ d = today /\ p \in asking /\ answers[p][d] = "none"
                  /\ p \in Free /\ answers'[p][d] = "empty"
  <2>1. "empty" \in Answers
    BY DEF Answers
  <2> QED BY <1>1, <1>2, <1>4, <1>7, <2>1
<1>8. CASE \E q \in Queries : Ask(q) \/ Miss(q)
  <2>1. PICK q \in Queries : Ask(q) \/ Miss(q)
    BY <1>8
  <2>2. CASE Ask(q)
    BY <1>0, <1>6, <2>2
  <2>3. CASE Miss(q)
    <3>1. answers' \in [Queries -> [Days -> Answers]] /\ today' = today
          /\ written' = written
      BY <1>7, <2>3
    <3>2. ASSUME NEW p \in Queries, NEW d \in Days, answers'[p][d] # answers[p][d]
          PROVE  /\ d = today /\ p \in asking /\ answers[p][d] = "none"
                 /\ p \in Free /\ answers'[p][d] = "empty"
      BY <1>7, <2>3, <3>2
    <3>3. /\ today' \in Days /\ today <= today' /\ written \subseteq written'
          /\ answers' \in [Queries -> [Days -> Answers]]
      BY <1>0, <3>1
    <3>4. \A p \in Queries, d \in Days : answers'[p][d] # answers[p][d] =>
            /\ d = today /\ p \in asking /\ answers[p][d] = "none"
            /\ p \in Free /\ answers'[p][d] = "empty" /\ today' = today
      BY <3>1, <3>2
    <3> QED BY <3>3, <3>4
  <2> QED BY <2>1, <2>2, <2>3
<1> QED BY <1>5, <1>8 DEF Next

LEMMA ShapeNext == Shape /\ [Next]_vars => Shape'
<1> SUFFICES ASSUME Shape, [Next]_vars PROVE Shape'
  OBVIOUS
<1>0. today \in Days /\ today \in Nat
  BY DEF Shape, Days
<1>1. board' \in Boards /\ mirror' \in Boards
  <2>1. CASE Write \/ CatchUp
    BY <2>1 DEF Write, CatchUp, Shape
  <2>2. CASE UNCHANGED world \/ Tomorrow
    BY <2>2 DEF world, Tomorrow, Shape
  <2> QED BY <2>1, <2>2 DEF Next, StartFree, StartPaid, Stop, Ask, Miss, vars
<1>2. written' \subseteq 1..today' /\ bulletin' \subseteq 1..today' - 1
  <2>1. CASE Write
    <3>1. written' = written \cup {today} /\ today' = today /\ bulletin' = bulletin
      BY <2>1 DEF Write, scraper
    <3> QED BY <1>0, <3>1 DEF Shape, Past, Days
  <2>4. CASE CatchUp
    <3>1. written' = written /\ today' = today /\ bulletin' = bulletin
      BY <2>4 DEF CatchUp, scraper
    <3> QED BY <1>0, <3>1 DEF Shape, Past
  <2>5. CASE Tomorrow
    <3>1. written' = written /\ today' = today + 1 /\ bulletin' = bulletin
      BY <2>5 DEF Tomorrow, scraper
    <3>2. 1..today \subseteq 1..today + 1 /\ 1..today - 1 \subseteq 1..(today + 1) - 1
      BY <1>0
    <3> QED BY <3>1, <3>2 DEF Shape, Past
  <2>2. CASE StartFree
    <3>1. bulletin' \subseteq Past /\ today' = today /\ written' = written
      BY <2>2 DEF StartFree, Shape, world
    <3> QED BY <3>1 DEF Shape, Past
  <2>3. CASE UNCHANGED <<world, bulletin>>
    BY <2>3 DEF world, Shape, Past
  <2> QED BY <2>1, <2>2, <2>3, <2>4, <2>5 DEF Next, StartPaid, Stop, Ask, Miss, vars
<1>3. asking' \subseteq Queries
  <2>1. CASE StartFree \/ StartPaid
    BY <2>1, Queried DEF StartFree, StartPaid, Queries
  <2>2. CASE Stop \/ UNCHANGED asking \/ \E q \in Queries : Ask(q) \/ Miss(q)
    BY <2>2 DEF Stop, Ask, Miss, Shape
  <2> QED BY <2>1, <2>2 DEF Next, Write, CatchUp, Tomorrow, scraper, vars
<1>4. \A q \in Queries, d \in Days : answers'[q][d] # "none" => d <= today'
  <2> SUFFICES ASSUME NEW q \in Queries, NEW d \in Days, answers'[q][d] # "none"
               PROVE  d <= today'
    OBVIOUS
  <2>1. CASE answers'[q][d] = answers[q][d]
    <3>1. d <= today /\ today <= today' /\ today' \in Days
      BY <2>1, OnlyToday DEF Shape
    <3> QED BY <1>0, <3>1 DEF Days
  <2>2. CASE answers'[q][d] # answers[q][d]
    BY <1>0, <2>2, OnlyToday
  <2> QED BY <2>1, <2>2
<1>5. ASSUME NEW d \in Days
      PROVE  /\ answers'["A"][d] \in Boards \cup {"none"}
             /\ answers'[Home][d] \in Boards \cup {"none", "empty"}
             /\ \A q \in Free \ {Home} : answers'[q][d] \notin Boards
  <2>1. Answer("A") = mirror /\ Answer(Home) = board
        /\ \A q \in Free \ {Home} : Answer(q) = "absent"
    BY RegisterAssumption DEF Answer, Free
  <2>2. ASSUME NEW q \in Queries, answers'[q][d] # answers[q][d]
        PROVE  \/ answers'[q][d] = Answer(q)
               \/ q \in Free /\ answers'[q][d] = "empty"
    BY <2>2, OnlyToday
  <2>3. answers'["A"][d] \in Boards \cup {"none"}
    BY <2>1, <2>2, Queried DEF Shape
  <2>4. answers'[Home][d] \in Boards \cup {"none", "empty"}
    BY <2>1, <2>2, Queried DEF Shape
  <2>5. ASSUME NEW q \in Free \ {Home} PROVE answers'[q][d] \notin Boards
    <3>1. q \in Queries
      BY Queried
    <3> QED BY <2>1, <2>2, <3>1, RegisterAssumption DEF Shape
  <2> QED BY <2>3, <2>4, <2>5
<1> QED BY <1>1, <1>2, <1>3, <1>4, <1>5, OnlyToday DEF Shape, Past

ReadFacts ==
  /\ Snapshots = {d \in Days : answers[Home][d] \in Boards}
  /\ \A d \in Snapshots : BoardOn(d) = answers[Home][d]
BoughtFacts == Answered("A") = {d \in Days : answers["A"][d] # "none"}

LEMMA FactsNext == Shape' => ReadFacts' /\ BoughtFacts'
<1>1. Shape => ReadFacts /\ BoughtFacts
  BY Read, Bought DEF ReadFacts, BoughtFacts
<1> QED BY <1>1, PTL

LEMMA SnapshotsGrow ==
  ASSUME Shape, [Next]_vars
  PROVE  /\ \A d \in Snapshots : d \in Snapshots' /\ BoardOn(d)' = BoardOn(d)
         /\ \A d \in Snapshots' : d \notin Snapshots =>
              /\ d = today /\ today' = today /\ Ask(Home)
              /\ BoardOn(d)' = board
<1>1. Snapshots' = {d \in Days : answers'[Home][d] \in Boards}
  BY ShapeNext, FactsNext DEF ReadFacts, Days
<1>2. \A d \in Snapshots' : BoardOn(d)' = answers'[Home][d]
  BY ShapeNext, FactsNext DEF ReadFacts
<1>3. ASSUME NEW d \in Snapshots
      PROVE  d \in Snapshots' /\ BoardOn(d)' = BoardOn(d)
  <2>1. answers'[Home][d] = answers[Home][d] /\ d \in Days
        /\ answers[Home][d] \in Boards /\ BoardOn(d) = answers[Home][d]
    BY Read, OnlyToday, Queried, RegisterAssumption
  <2> QED BY <1>1, <1>2, <2>1
<1>4. ASSUME NEW d \in Snapshots', d \notin Snapshots
      PROVE  /\ d = today /\ today' = today /\ Ask(Home)
             /\ BoardOn(d)' = board
  <2>1. d \in Days /\ answers'[Home][d] \in Boards /\ answers[Home][d] \notin Boards
    BY <1>1, <1>4, Read
  <2>2. answers'[Home][d] # answers[Home][d] /\ answers'[Home][d] # "empty"
    BY <2>1, RegisterAssumption
  <2>3. Ask(Home) /\ answers'[Home][d] = Answer(Home) /\ d = today /\ today' = today
    BY <2>1, <2>2, OnlyToday, Queried
  <2>4. Answer(Home) = board
    BY RegisterAssumption DEF Answer
  <2> QED BY <1>2, <2>3, <2>4
<1> QED BY <1>3, <1>4

LEMMA AnswersGrow ==
  ASSUME Shape, [Next]_vars
  PROVE  /\ \A d \in Answered("A") :
              d \in Answered("A")' /\ answers'["A"][d] = answers["A"][d]
         /\ \A d \in Answered("A")' : d \notin Answered("A") =>
              /\ d = today /\ today' = today /\ Ask("A")
              /\ answers'["A"][d] = mirror
<1>1. Answered("A")' = {d \in Days : answers'["A"][d] # "none"}
  BY ShapeNext, FactsNext DEF BoughtFacts, Days
<1>2. ASSUME NEW d \in Answered("A")
      PROVE  d \in Answered("A")' /\ answers'["A"][d] = answers["A"][d]
  <2>1. d \in Days /\ answers["A"][d] # "none"
    BY Bought
  <2>2. answers'["A"][d] = answers["A"][d]
    BY <2>1, OnlyToday, Queried
  <2> QED BY <1>1, <2>1, <2>2
<1>3. ASSUME NEW d \in Answered("A")', d \notin Answered("A")
      PROVE  /\ d = today /\ today' = today /\ Ask("A")
             /\ answers'["A"][d] = mirror
  <2>1. d \in Days /\ answers'["A"][d] # answers["A"][d]
    BY <1>1, <1>3, Bought
  <2>2. "A" \in Queries /\ "A" \notin Free
    BY Queried
  <2>3. d = today /\ today' = today /\ Ask("A") /\ answers'["A"][d] = Answer("A")
    BY <2>1, <2>2, OnlyToday
  <2>4. Answer("A") = mirror
    BY RegisterAssumption DEF Answer
  <2> QED BY <2>3, <2>4
<1> QED BY <1>2, <1>3

\* Nothing that speaks for a purchase is taken back.
LEMMA EvidenceStays ==
  ASSUME Shape, [Next]_vars, NEW r \in Nat, NEW day \in Nat, NEW later \in Nat,
         day <= later, Evidence(r, day)
  PROVE  Evidence(r, later)'
<1>1. ASSUME NEW d \in Snapshots, d <= day
      PROVE  d \in Snapshots' /\ BoardOn(d)' = BoardOn(d) /\ d <= later
  <2>1. d \in Nat
    BY Read DEF Days
  <2> QED BY <1>1, <2>1, SnapshotsGrow
<1>2. \A w \in written : w \in written' /\ w \in Nat
  BY OnlyToday DEF Shape
<1>3. CASE /\ \E d \in Snapshots : r < d /\ d <= day
           /\ \E w \in written : r < w /\ w < day
  BY <1>1, <1>2, <1>3 DEF Evidence
<1>4. CASE /\ \E q \in Answered("A"), d \in Snapshots :
                q <= r /\ d <= day /\ BoardOn(d) # answers["A"][q]
           /\ day - r >= Backoff[1]
  <2>1. PICK q \in Answered("A"), d \in Snapshots :
          q <= r /\ d <= day /\ BoardOn(d) # answers["A"][q]
    BY <1>4
  <2>2. q \in Answered("A")' /\ answers'["A"][q] = answers["A"][q]
    BY AnswersGrow
  <2>3. d \in Snapshots' /\ d <= later /\ BoardOn(d)' # answers'["A"][q]
    BY <1>1, <2>1, <2>2
  <2>4. Backoff[1] \in Nat
    BY BoundsAssumption
  <2>5. later - r >= Backoff[1]
    BY <1>4, <2>4
  <2> QED BY <2>1, <2>2, <2>3, <2>5 DEF Evidence
<1> QED BY <1>3, <1>4 DEF Evidence

\* And none that a day was left alone since it was read.
LEMMA LeftAloneBefore ==
  ASSUME Shape, [Next]_vars, NEW r \in Nat, r < today, NEW day \in Nat,
         NEW later \in Nat, day <= later, LeftAlone(r, later)'
  PROVE  LeftAlone(r, day)
<1>1. PICK d \in Snapshots' : d <= r /\ written' \cap d..later = {}
  BY DEF LeftAlone
<1>2. d \in Snapshots
  <2>1. d # today
    BY <1>1 DEF Shape, Days
  <2> QED BY <2>1, SnapshotsGrow
<1>3. d \in Nat /\ written \subseteq written'
  BY <1>2, Read, OnlyToday DEF Days
<1>4. written \cap d..day = {}
  BY <1>1, <1>3
<1> QED BY <1>1, <1>2, <1>4 DEF LeftAlone

LEMMA BoardIsReadNext ==
  ASSUME Shape, BoardIsRead, [Next]_vars
  PROVE  BoardIsRead'
<1> SUFFICES ASSUME NEW d \in Snapshots'
             PROVE  BoardOn(d)' = board' \/ \E w \in written' : w >= d
  BY DEF BoardIsRead
<1>1. CASE d \notin Snapshots
  <2>1. BoardOn(d)' = board /\ Ask(Home)
    BY <1>1, SnapshotsGrow
  <2> QED BY <2>1 DEF Ask, world
<1>2. CASE d \in Snapshots
  <2>1. BoardOn(d)' = BoardOn(d) /\ d <= today /\ d \in Nat
    BY <1>2, SnapshotsGrow, Read DEF Days
  <2>2. CASE Write
    BY <2>1, <2>2 DEF Write, Shape, Days
  <2>3. CASE board' = board
    <3>1. written \subseteq written'
      BY OnlyToday
    <3> QED BY <1>2, <2>1, <2>3, <3>1 DEF BoardIsRead
  <2> QED BY <2>2, <2>3 DEF Next, StartFree, StartPaid, Stop, Ask, Miss, CatchUp,
                            Tomorrow, vars, world
<1> QED BY <1>1, <1>2

LEMMA ReadWithCauseNext ==
  ASSUME Shape, ReadWithCause, [Next]_vars
  PROVE  ReadWithCause'
<1>0. written \subseteq written' /\ today <= today' /\ today \in Nat /\ today' \in Nat
  BY OnlyToday DEF Shape, Days
<1>1. ASSUME NEW d \in Snapshots', NEW e \in Snapshots', d < e
      PROVE  \E w \in written' : d < w /\ w < e
  <2>1. d \in Snapshots
    <3> SUFFICES ASSUME d \notin Snapshots PROVE FALSE
      OBVIOUS
    <3>1. d = today
      BY SnapshotsGrow
    <3>2. e \in Nat /\ e <= today
      <4>1. CASE e \in Snapshots
        BY <4>1, Read DEF Days
      <4>2. CASE e \notin Snapshots
        BY <1>0, <4>2, SnapshotsGrow
      <4> QED BY <4>1, <4>2
    <3> QED BY <1>0, <1>1, <3>1, <3>2
  <2>2. CASE e \in Snapshots
    BY <1>0, <1>1, <2>1, <2>2 DEF ReadWithCause
  <2>3. CASE e \notin Snapshots
    <3>1. e = today /\ Ask(Home)
      BY <2>3, SnapshotsGrow
    <3>2. Home \in asking
      BY <3>1 DEF Ask, IsNext
    <3> QED BY <1>0, <2>1, <3>1, <3>2 DEF ReadWithCause
  <2> QED BY <2>2, <2>3
<1>2. ASSUME Home \in asking', NEW d \in Snapshots'
      PROVE  \E w \in written' : d < w /\ w < today'
  <2>1. d \in Snapshots
    <3> SUFFICES ASSUME d \notin Snapshots PROVE FALSE
      OBVIOUS
    <3>1. Ask(Home)
      BY SnapshotsGrow
    <3> QED BY <1>2, <3>1 DEF Ask
  <2>2. \E w \in written : d < w /\ w < today
    <3>1. CASE Home \in asking
      BY <2>1, <3>1 DEF ReadWithCause
    <3>2. CASE StartFree
      <4>1. Home \in ToAsk(bulletin') /\ bulletin' \subseteq Past
        BY <1>2, <3>2 DEF StartFree, Shape
      <4> QED BY <2>1, <4>1, HomeIsAsked
    <3>3. CASE StartPaid
      BY <1>2, <3>3, Queried DEF StartPaid
    <3>4. CASE Home \notin asking /\ ~StartFree /\ ~StartPaid
      BY <1>2, <3>4 DEF Next, Stop, Ask, Miss, Write, CatchUp, Tomorrow, scraper, vars
    <3> QED BY <3>1, <3>2, <3>3, <3>4
  <2>3. \A w \in written : w \in Nat
    BY DEF Shape
  <2> QED BY <1>0, <2>2, <2>3
<1> QED BY <1>1, <1>2 DEF ReadWithCause

LEMMA FollowsNext ==
  ASSUME Shape, Follows, [Next]_vars
  PROVE  Follows'
<1> SUFFICES ASSUME NEW r \in Answered("A")', answers'["A"][r] = board',
                    written' \cap r..today' = {}
             PROVE  /\ mirror' = board'
                    /\ \A s \in Answered("A")' : r <= s => answers'["A"][s] = board'
  BY DEF Follows
<1>0. /\ today \in Nat /\ today' \in Nat /\ today <= today' /\ written \subseteq written'
  BY OnlyToday DEF Shape, Days
<1>1. \A s \in Answered("A")' : s \in Nat /\ s <= today
  <2> SUFFICES ASSUME NEW s \in Answered("A")' PROVE s \in Nat /\ s <= today
    OBVIOUS
  <2>1. CASE s \in Answered("A")
    BY <2>1, Bought DEF Days
  <2>2. CASE s \notin Answered("A")
    BY <1>0, <2>2, AnswersGrow
  <2> QED BY <2>1, <2>2
<1>2. ~Write
  <2> SUFFICES ASSUME Write PROVE FALSE
    OBVIOUS
  <2>1. today \in written' /\ today' = today
    BY DEF Write
  <2>2. today \in r..today'
    BY <1>0, <1>1, <2>1
  <2> QED BY <2>1, <2>2
<1>3. board' = board
  BY <1>2 DEF Next, StartFree, StartPaid, Stop, Ask, Miss, CatchUp, Tomorrow, vars, world
<1>4. mirror' = mirror \/ mirror' = board
  BY <1>2 DEF Next, StartFree, StartPaid, Stop, Ask, Miss, CatchUp, Tomorrow, vars, world
<1>5. mirror = board
  <2>1. CASE r \in Answered("A")
    <3>1. answers["A"][r] = board
      BY <1>3, <2>1, AnswersGrow
    <3>2. written \cap r..today = {}
      BY <1>0, <1>1
    <3> QED BY <2>1, <3>1, <3>2 DEF Follows
  <2>2. CASE r \notin Answered("A")
    BY <1>3, <2>2, AnswersGrow
  <2> QED BY <2>1, <2>2
<1>6. ASSUME NEW s \in Answered("A")', r <= s
      PROVE  answers'["A"][s] = board
  <2>1. CASE s \notin Answered("A")
    BY <1>5, <2>1, AnswersGrow
  <2>2. CASE s \in Answered("A") /\ r \in Answered("A")
    <3>1. answers["A"][r] = board /\ answers'["A"][s] = answers["A"][s]
      BY <1>3, <2>2, AnswersGrow
    <3>2. written \cap r..today = {}
      BY <1>0, <1>1
    <3> QED BY <1>6, <2>2, <3>1, <3>2 DEF Follows
  <2>3. CASE s \in Answered("A") /\ r \notin Answered("A")
    <3>1. r = today /\ s <= today
      BY <1>1, <2>3, AnswersGrow
    <3>2. s = r
      BY <1>0, <1>1, <1>6, <3>1
    <3> QED BY <2>3, <3>2
  <2> QED BY <2>1, <2>2, <2>3
<1> QED BY <1>3, <1>4, <1>5, <1>6

\* Why rejestr.io is asked today, when the latest answer is of day s.
Cause(s) ==
  /\ s < today /\ Evidence(s, today)
  /\ \A r \in Answered("A") :
       Consecutive(Answered("A"), r, s) /\ LeftAlone(r, today) => today - s >= Delay(2)

LEMMA CauseStays ==
  ASSUME Shape, [Next]_vars, NEW s \in Nat, Cause(s), Answered("A")' = Answered("A")
  PROVE  Cause(s)'
<1>0. today \in Nat /\ today' \in Nat /\ today <= today'
  BY OnlyToday DEF Shape, Days
<1>1. s < today' /\ s < today
  BY <1>0 DEF Cause
<1>2. PICK day \in Nat, later \in Nat : day = today /\ later = today'
  BY <1>0
<1>4. Evidence(s, later)'
  <2>1. Evidence(s, day)
    BY <1>2 DEF Cause, Evidence
  <2> QED BY <1>0, <1>2, <2>1, EvidenceStays
<1>5. Evidence(s, today)'
  BY <1>2, <1>4 DEF Evidence
<1>3. ASSUME NEW r \in Answered("A"), Consecutive(Answered("A"), r, s),
             LeftAlone(r, today)'
      PROVE  today' - s >= Delay(2)
  <2>1. r \in Nat /\ r < s /\ r < today
    BY <1>0, <1>1, <1>3, Bought DEF Consecutive, Days
  <2>2. LeftAlone(r, today)
    BY <1>0, <1>3, <2>1, LeftAloneBefore DEF LeftAlone
  <2>3. today - s >= Delay(2)
    BY <1>3, <2>2 DEF Cause
  <2>4. Delay(2) \in Nat
    BY DelayGrows
  <2> QED BY <1>0, <2>3, <2>4
<1> QED BY <1>1, <1>3, <1>5 DEF Cause

LEMMA BuysWithCauseNext ==
  ASSUME Shape, BoardIsRead, ReadWithCause, Follows, BuysWithCause, [Next]_vars
  PROVE  BuysWithCause'
<1> SUFFICES ASSUME "A" \in asking', Latest("A")' > 0
             PROVE  Cause(Latest("A"))'
  BY DEF BuysWithCause, Cause
<1>1. Answered("A")' = Answered("A")
  <2>1. ~Ask("A")
    BY DEF Ask
  <2>2. \A d \in Answered("A")' : d \in Answered("A")
    BY <2>1, AnswersGrow
  <2> QED BY <2>2, AnswersGrow
<1>2. Latest("A")' = Latest("A") /\ Latest("A") \in Nat
  BY <1>1, LatestIs, Queried DEF Latest
<1>3. Cause(Latest("A"))
  <2>1. CASE "A" \in asking
    BY <1>2, <2>1 DEF BuysWithCause, Cause
  <2>2. CASE StartPaid
    <3>1. "A" \in ToAsk(bulletin) /\ bulletin \subseteq Past
      BY <2>2 DEF StartPaid, Shape
    <3> QED BY <1>2, <3>1, CauseOfBuying DEF Cause
  <2>3. CASE StartFree
    BY <2>3, Queried DEF StartFree
  <2>4. CASE "A" \notin asking /\ ~StartFree /\ ~StartPaid
    BY <2>4 DEF Next, Stop, Ask, Miss, Write, CatchUp, Tomorrow, scraper, vars
  <2> QED BY <2>1, <2>2, <2>3, <2>4
<1>4. PICK s \in Nat : s = Latest("A")
  BY <1>2
<1>5. Cause(s)'
  BY <1>1, <1>3, <1>4, CauseStays
<1>6. Latest("A")' = s
  BY <1>2, <1>4
<1> QED BY <1>5, <1>6 DEF Cause, Evidence

\* An answer is added after the latest.
LEMMA AddedLast ==
  ASSUME Shape, [Next]_vars, NEW r \in Answered("A")', NEW s \in Answered("A")',
         s \notin Answered("A"), Consecutive(Answered("A")', r, s)
  PROVE  /\ r \in Answered("A") /\ r = Latest("A") /\ r > 0 /\ s = today
         /\ "A" \in asking
<1>1. s = today /\ Ask("A")
  BY AnswersGrow
<1>2. today \in Nat /\ r < today
  BY <1>1 DEF Shape, Days, Consecutive
<1>3. r \in Answered("A") /\ r \in Days
  <2>1. r \in Answered("A")
    BY <1>2, AnswersGrow
  <2> QED BY <2>1, Bought
<1> DEFINE l == Latest("A")
<1>4. l \in Answered("A") /\ r <= l /\ l \in Nat /\ l <= today /\ r \in Nat
  BY <1>3, LatestIs, Bought, Queried DEF Days
<1>5. l \in Answered("A")' /\ l # s
  BY <1>4, AnswersGrow
<1>6. ~(r < l /\ l < s)
  BY <1>5 DEF Consecutive
<1> HIDE DEF l
<1>7. r = l
  BY <1>1, <1>2, <1>4, <1>5, <1>6
<1> QED BY <1>1, <1>3, <1>7 DEF l, Ask, IsNext, Days

LEMMA RepurchaseNext ==
  ASSUME Shape, BuysWithCause, RepurchaseHasEvidence, [Next]_vars
  PROVE  RepurchaseHasEvidence'
<1> SUFFICES ASSUME NEW r \in Answered("A")', NEW s \in Answered("A")',
                    Consecutive(Answered("A")', r, s)
             PROVE  Evidence(r, s)'
  BY DEF RepurchaseHasEvidence, Evidence
<1>1. CASE s \in Answered("A")
  <2>1. s \in Nat /\ s <= today /\ today \in Nat /\ r < s
    BY <1>1, Bought DEF Days, Consecutive, Shape
  <2>2. r \in Answered("A")
    BY <2>1, AnswersGrow
  <2>3. Consecutive(Answered("A"), r, s)
    BY AnswersGrow DEF Consecutive
  <2>4. Evidence(r, s)
    BY <1>1, <2>2, <2>3 DEF RepurchaseHasEvidence, Evidence
  <2>5. r \in Nat
    BY <2>2, Bought DEF Days
  <2> QED BY <2>1, <2>4, <2>5, EvidenceStays
<1>2. CASE s \notin Answered("A")
  <2>1. r \in Answered("A") /\ r = Latest("A") /\ r > 0 /\ s = today /\ "A" \in asking
    BY <1>2, AddedLast
  <2>2. Evidence(r, today)
    BY <2>1 DEF BuysWithCause
  <2>3. r \in Nat /\ today \in Nat
    BY <2>1, Bought DEF Shape, Days
  <2>4. PICK day \in Nat : day = today
    BY <2>3
  <2>5. Evidence(r, day)
    BY <2>2, <2>4 DEF Evidence
  <2>6. Evidence(r, day)'
    BY <2>3, <2>5, EvidenceStays
  <2> QED BY <2>1, <2>4, <2>6
<1> QED BY <1>1, <1>2

LEMMA BackOffNext ==
  ASSUME Shape, BuysWithCause, PurchasesBackOff, [Next]_vars
  PROVE  PurchasesBackOff'
<1> SUFFICES ASSUME NEW r \in Answered("A")', NEW s \in Answered("A")',
                    NEW t \in Answered("A")', Consecutive(Answered("A")', r, s),
                    Consecutive(Answered("A")', s, t), LeftAlone(r, t)'
             PROVE  t - s >= Delay(2)
  BY DEF PurchasesBackOff, LeftAlone
<1>1. t \in Nat /\ t <= today /\ today \in Nat
  <2>1. today \in Nat
    BY DEF Shape, Days
  <2>2. CASE t \in Answered("A")
    BY <2>1, <2>2, Bought DEF Days
  <2>3. CASE t \notin Answered("A")
    BY <2>1, <2>3, AnswersGrow
  <2> QED BY <2>1, <2>2, <2>3
<1>2. s \in Answered("A") /\ s \in Nat /\ s < t
  <2>1. s < t
    BY DEF Consecutive
  <2>2. s # today
    BY <1>1, <2>1
  <2>3. s \in Answered("A")
    BY <2>2, AnswersGrow
  <2> QED BY <2>1, <2>3, Bought DEF Days
<1>3. r \in Answered("A") /\ r \in Nat /\ r < s
  <2>1. r < s
    BY DEF Consecutive
  <2>2. r # today
    BY <1>1, <1>2, <2>1
  <2>3. r \in Answered("A")
    BY <2>2, AnswersGrow
  <2> QED BY <2>1, <2>3, Bought DEF Days
<1>4. Consecutive(Answered("A"), r, s) /\ Consecutive(Answered("A"), s, t)
  BY AnswersGrow DEF Consecutive
<1>5. LeftAlone(r, t)
  BY <1>1, <1>2, <1>3, LeftAloneBefore
<1>6. CASE t \in Answered("A")
  BY <1>2, <1>3, <1>4, <1>5, <1>6 DEF PurchasesBackOff, LeftAlone
<1>7. CASE t \notin Answered("A")
  <2>1. s = Latest("A") /\ s > 0 /\ t = today /\ "A" \in asking
    BY <1>7, AddedLast
  <2>2. LeftAlone(r, today)
    BY <1>5, <2>1
  <2> QED BY <1>3, <1>4, <2>1, <2>2 DEF BuysWithCause
<1> QED BY <1>6, <1>7

LEMMA ScrapeStarts == Init => ScrapeInv
<1> SUFFICES ASSUME Init PROVE ScrapeInv
  OBVIOUS
<1>1. today \in Days /\ board \in Boards /\ mirror \in Boards /\ today = 1
  BY BoundsAssumption DEF Init, Days
<1>2. \A q \in Queries, d \in Days : answers[q][d] = "none"
  BY DEF Init
<1>3. Shape
  <2>1. answers \in [Queries -> [Days -> Answers]]
    BY DEF Init, Answers
  <2> QED BY <1>1, <1>2, <2>1, Queried, RegisterAssumption DEF Shape, Init
<1>4. Snapshots = {} /\ Answered("A") = {}
  BY <1>2, <1>3, Read, Bought, Queried, RegisterAssumption
<1> QED BY <1>3, <1>4, Queried
        DEF ScrapeInv, BoardIsRead, ReadWithCause, Follows, BuysWithCause, Init,
            RepurchaseHasEvidence, PurchasesBackOff

LEMMA ScrapeGoesOn == ScrapeInv /\ [Next]_vars => ScrapeInv'
<1> SUFFICES ASSUME ScrapeInv, [Next]_vars PROVE ScrapeInv'
  OBVIOUS
<1>0. /\ Shape /\ BoardIsRead /\ ReadWithCause /\ Follows /\ BuysWithCause
      /\ RepurchaseHasEvidence /\ PurchasesBackOff
  BY DEF ScrapeInv
<1>1. Shape' /\ BoardIsRead' /\ ReadWithCause' /\ Follows'
  BY <1>0, ShapeNext, BoardIsReadNext, ReadWithCauseNext, FollowsNext
<1>2. BuysWithCause'
  BY <1>0, BuysWithCauseNext
<1>3. RepurchaseHasEvidence' /\ PurchasesBackOff'
  BY <1>0, RepurchaseNext, BackOffNext
<1> QED BY <1>1, <1>2, <1>3 DEF ScrapeInv

-----------------------------------------------------------------------------
(***************************************************************************)
(* Nothing is bought again on suspicion: between two purchases the register  *)
(* was written to and read, or a snapshot disagreed and the first delay of   *)
(* RETRY_BACKOFF_DAYS was waited (filter_paid_by_people_changes, Overdue).   *)
(***************************************************************************)
THEOREM RepurchasesHaveEvidence == Spec => []RepurchaseHasEvidence
<1>1. ScrapeInv => RepurchaseHasEvidence
  BY DEF ScrapeInv
<1> QED BY <1>1, ScrapeStarts, ScrapeGoesOn, PTL DEF Spec

(***************************************************************************)
(* While the register leaves alone what was read of it, the purchases are    *)
(* further and further apart (RETRY_BACKOFF_DAYS).                           *)
(***************************************************************************)
THEOREM RetriesBackOff == Spec => []PurchasesBackOff
<1>1. ScrapeInv => PurchasesBackOff
  BY DEF ScrapeInv
<1> QED BY <1>1, ScrapeStarts, ScrapeGoesOn, PTL DEF Spec

\* A snapshot taken later and left alone since is compared with the latest answer.
LEMMA ShownIsMissed == ScrapeInv => WrongIsNoticed
<1> SUFFICES ASSUME Shape, ReadWithCause, asking = {}, Past \subseteq bulletin,
                    Answered("A") # {},
                    NEW d \in Snapshots, ShownWrong(Latest("A"), d),
                    NoNearer(Latest("A"), d)
             PROVE  Latest("A") \in Misses(bulletin)
  BY DEF ScrapeInv, WrongIsNoticed, Past
<1> DEFINE r == Latest("A")
           F == Fine(bulletin)
           S == Short(bulletin)
<1>1. /\ r \in Answered("A") /\ r \in Days /\ r \in Nat
      /\ \A x \in Answered("A") : x <= r
  BY LatestIs, Bought, Queried DEF Days
<1>2. /\ d \in Nat /\ today \in Nat /\ r <= d /\ d < today
      /\ BoardOn(d) # answers["A"][r] /\ ~\E w \in written : r < w
      /\ \A e \in Snapshots : e \in Nat
  BY Read DEF ShownWrong, Shape, Days
\* The register was left alone: no snapshot was taken later than the answer but d.
<1>3. \A e \in Snapshots : e >= r => e = d
  <2> SUFFICES ASSUME NEW e \in Snapshots, e >= r, e # d PROVE FALSE
    OBVIOUS
  <2>1. \E w \in written : (d < w /\ w < e) \/ (e < w /\ w < d)
    BY <1>2 DEF ReadWithCause
  <2>2. \A w \in written : w \in Nat
    BY DEF Shape
  <2> HIDE DEF r
  <2> QED BY <1>1, <1>2, <2>1, <2>2
<1>4. \A e \in Snapshots \ {d} : Distance(d, r) < Distance(e, r)
  <2> TAKE e \in Snapshots \ {d}
  <2>1. e < r
    <3> HIDE DEF r
    <3> QED BY <1>1, <1>2, <1>3
  <2>2. d - r < r - e
    BY <2>1 DEF NoNearer
  <2> HIDE DEF r
  <2> QED BY <1>1, <1>2, <2>1, <2>2 DEF Distance
<1>5. Nearest(r) = d
  <2> HIDE DEF r
  <2> QED BY <1>1, <1>4, NearestIsOnly
<1>6. Conclusive(r, bulletin)
  <2> DEFINE span == {y \in Days : (Nearest(r) < y /\ y <= r) \/ (r < y /\ y <= Nearest(r))}
  <2>1. \A y \in span : y \in Nat /\ r < y /\ y <= d /\ y >= 1
    <3> HIDE DEF r
    <3> QED BY <1>1, <1>2, <1>5 DEF Days
  <2>2. span \subseteq Past
    <3> HIDE DEF r, span
    <3> QED BY <1>2, <2>1 DEF Past
  <2>3. span \cap written = {}
    <3> HIDE DEF r, span
    <3> QED BY <1>2, <2>1
  <2> HIDE DEF r
  <2> QED BY <2>2, <2>3 DEF Conclusive
<1>7. Disagrees(r)
  <2> HIDE DEF r
  <2> QED BY <1>2, <1>5 DEF Disagrees
<1>8. r \in Judged(bulletin) /\ r \in Compared
  BY <1>1, <1>6 DEF Judged, Compared
<1>9. r > LastOf(F)
  <2>1. F \subseteq Answered("A") /\ F \subseteq Days /\ r \notin F
    BY <1>7 DEF Fine, Judged, Compared, Answered
  <2>2. LastOf(F) \in Nat /\ (LastOf(F) > 0 => LastOf(F) \in F)
    <3> HIDE DEF F
    <3> QED BY <2>1, LastIs
  <2> HIDE DEF F, r
  <2>3. LastOf(F) > 0 => LastOf(F) <= r /\ LastOf(F) # r
    BY <1>1, <2>1, <2>2
  <2> QED BY <1>1, <2>2, <2>3 DEF Days
<1>10. r \in S
  BY <1>8, <1>9 DEF Short
<1>11. S # {} /\ Min(S) <= r
  <2> HIDE DEF r
  <2> QED BY <1>10, ShortIs
<1>12. Min(S) \in Nat
  <2>1. Min(S) \in Days
    BY <1>11, ShortIs
  <2> QED BY <2>1 DEF Days
<1>13. r >= Min(S)
  <2> HIDE DEF r, S
  <2> QED BY <1>1, <1>11, <1>12
<1> QED BY <1>8, <1>11, <1>13, MissesAre

(***************************************************************************)
(* What a snapshot shows to be wrong is among the misses, when no earlier    *)
(* snapshot is as near (RejestrIOCoverage).                                  *)
(***************************************************************************)
THEOREM WrongAnswersAreNoticed == Spec => []WrongIsNoticed
BY ShownIsMissed, ScrapeStarts, ScrapeGoesOn, PTL DEF Spec

-----------------------------------------------------------------------------
\* What differs from the latest snapshot was written since, and is asked for.
LEMMA RunReadsChange ==
  ASSUME ScrapeInv, asking = {}, Answered(Home) # {},
         board # answers[Home][Latest(Home)], Latest(Home) \notin written,
         written \subseteq bulletin', HasSettled(Max(written)), StartFree
  PROVE  Home \in asking'
<1>0. Shape /\ BoardIsRead
  BY DEF ScrapeInv
<1> DEFINE l == Latest(Home)
<1>1. l \in Snapshots /\ l \in Nat /\ l > 0 /\ BoardOn(l) = answers[Home][l]
      /\ answers[Home][l] \in Boards
  <2>1. l \in Answered(Home) /\ l \in Nat /\ l > 0
    BY LatestIs, Queried
  <2> HIDE DEF l
  <2> QED BY <1>0, <2>1, Read
<1>2. PICK w \in written : w >= l
  BY <1>1, <1>0 DEF BoardIsRead
<1>3. Home \notin Settled
  BY <1>1, RegisterAssumption DEF Settled
<1>4. written \cap bulletin' = written
  OBVIOUS
<1>5. written \subseteq Days /\ \A x \in written : x \in Nat
  BY <1>0, BoundsAssumption DEF Shape, Days
<1>6. Update(bulletin') = Max(written) /\ w <= Max(written) /\ Max(written) \in written
  <2>1. Max(written) \in written /\ \A x \in written : x <= Max(written)
    BY <1>2, <1>5, MaxIs
  <2>2. LastOf(written) = Max(written)
    BY <1>2 DEF LastOf
  <2> QED BY <1>2, <1>4, <2>1, <2>2 DEF Update
<1>7. Max(written) > l
  <2>1. w # l /\ w \in Nat /\ Max(written) \in Nat
    BY <1>2, <1>5, <1>6
  <2> HIDE DEF l
  <2> QED BY <1>1, <1>2, <1>6, <2>1
<1>8. WrittenSince(Home, bulletin')
  BY <1>1, <1>6, <1>7 DEF WrittenSince
<1>9. Home \in NeedsRefresh(bulletin')
  BY <1>8, Queried DEF NeedsRefresh
<1>10. Home \in ToAsk(bulletin')
  BY <1>3, <1>9 DEF ToAsk
<1> QED BY <1>10, Queried DEF StartFree

(***************************************************************************)
(* A change of the board is read by the run after it has settled (KRSNeeds-  *)
(* Refresh), unless it came on a day on which the register had been read.    *)
(***************************************************************************)
THEOREM EveryChangeIsRead == Spec => ChangesAreRead
<1>1. ScrapeInv /\ [Next]_vars =>
        [asking = {} /\ Answered(Home) # {}
           /\ board # answers[Home][Latest(Home)] /\ Latest(Home) \notin written
           /\ written \subseteq bulletin' /\ HasSettled(Max(written)) /\ StartFree
         => Home \in asking']_vars
  BY RunReadsChange
<1> QED BY <1>1, ScrapeStarts, ScrapeGoesOn, PTL DEF Spec, ChangesAreRead
=============================================================================
