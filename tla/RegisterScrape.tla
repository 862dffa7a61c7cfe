--------------------------- MODULE RegisterScrape ---------------------------
(***************************************************************************)
(* What the scraper asks of the company register and of rejestr.io about one *)
(* company (data/pipelines: scraper.py, scrapers/krs).  The register is free *)
(* and names nobody; rejestr.io names everybody, costs money and follows the *)
(* register with a lag.  A bulletin says on which days an entry was written   *)
(* to.  From the dates of what it has, the scraper decides day after day      *)
(* what to ask again; answers fail, get lost and come too early.             *)
(***************************************************************************)
EXTENDS Integers, Sequences, FiniteSets, FiniteSetsExt

CONSTANTS
  Boards,       \* who may sit on the company's board
  Home,         \* the register it is in, "P" or "S": the other answers 404
  NamedElsewhere, \* its name is known from other companies' answers
  Paid,         \* queries to rejestr.io: "A", current connections, and "H", past
  Weekend,      \* the days that are no working days
  SkipWorkDays, \* working days a change is left to settle
  Backoff,      \* RETRY_BACKOFF_DAYS
  LastDay,      \* bound: days
  MaxWritten,   \* bound: days on which the register writes to the entry
  MaxFaults     \* bound: answers and uploads that fail

ASSUME RegisterAssumption ==
  /\ Paid \subseteq {"A", "H"} /\ "A" \in Paid /\ Home \in {"P", "S"}
  /\ Boards # {} /\ NamedElsewhere \in BOOLEAN
  /\ Boards \cap {"none", "empty", "absent", "past"} = {}
ASSUME BoundsAssumption ==
  /\ LastDay \in Nat \ {0} /\ MaxWritten \in Nat /\ MaxFaults \in Nat
  /\ Weekend \subseteq 1..LastDay /\ SkipWorkDays \in Nat
  /\ Backoff \in Seq(Nat \ {0}) /\ Backoff # <<>>
  /\ \A i, j \in 1..Len(Backoff) : i <= j => Backoff[i] <= Backoff[j]

Days == 1..LastDay
Free == {"P", "S"}   \* api-krs, by register
Queries == Free \cup Paid

VARIABLES
  today,
  board,    \* who the register says sits on the board
  mirror,   \* who rejestr.io says does
  written,  \* days on which the register wrote to the entry
  bulletin, \* days whose bulletin is stored
  answers,  \* the answer stored for each query on each day
  asking,   \* the queries the run in progress has still to make
  faults

world == <<today, board, mirror, written>>
vars == <<world, bulletin, answers, asking, faults>>

Answers == Boards \cup {"none", "empty", "absent", "past"}

Init ==
  /\ today = 1 /\ board \in Boards /\ mirror = board
  /\ written = {} /\ bulletin = {} /\ faults = 0
  /\ answers = [q \in Queries |-> [d \in Days |-> "none"]]
  /\ asking = {}

(***************************************************************************)
(* What there is: KRSAlreadyScraped, KRSCensoredPeople, KRSUpdates.          *)
(***************************************************************************)
LastOf(S) == IF S = {} THEN 0 ELSE Max(S)

\* Objects of no size are crawls that failed.
Answered(q) == {d \in Days : answers[q][d] \notin {"none", "empty"}}
Latest(q) == LastOf(Answered(q))
Scraped == \E q \in Queries : Answered(q) # {}
Settled == {q \in Free : Latest(q) > 0 /\ answers[q][Latest(q)] = "absent"}

Snapshots == {d \in Days : \E q \in Free : answers[q][d] \in Boards}
BoardOn(d) == CHOOSE b \in Boards : \E q \in Free : answers[q][d] = b

\* When the people changed from one snapshot to the next; a single one counts.
ChangedOn ==
  IF Cardinality(Snapshots) = 1 THEN Max(Snapshots)
  ELSE LastOf({d \in Snapshots :
                 LET before == {e \in Snapshots : e < d}
                 IN  before # {} /\ BoardOn(Max(before)) # BoardOn(d)})

(***************************************************************************)
(* How the paid answers compare with the free ones: RejestrIOCoverage.       *)
(***************************************************************************)
Distance(d, e) == IF d < e THEN e - d ELSE d - e

Earlier(r) ==  \* mutant: no snapshot that was taken later
  IF \E d \in Snapshots : d <= r THEN Max({d \in Snapshots : d <= r})
                                ELSE Min(Snapshots)

\* Of two snapshots equally far from the answer the earlier one.
Nearest(r) ==
  CHOOSE d \in Snapshots : \A e \in Snapshots :
    \/ Distance(d, r) < Distance(e, r)
    \/ Distance(d, r) = Distance(e, r) /\ d <= e

Conclusive(r, published) ==
  LET span == {d \in Days : (Nearest(r) < d /\ d <= r) \/ (r < d /\ d <= Nearest(r))}
  IN  span \subseteq published /\ span \cap written = {}

Compared == IF Snapshots = {} THEN {} ELSE Answered("A")
Disagrees(r) == answers["A"][r] # BoardOn(Nearest(r))

\* The answers since it first disagreed, when the last that can be judged does.
Misses(published) ==
  LET judged == {r \in Compared : Conclusive(r, published)}
      fine == {r \in judged : ~Disagrees(r)}
      short == {r \in judged : r > LastOf(fine)}
  IN  IF short = {} THEN {} ELSE {r \in Compared : r >= Min(short)}

Delay(n) == Backoff[Min({n, Len(Backoff)})]

ClockFromShort(published) ==  \* mutant: not from the last attempt
  LET missed == Misses(published)
  IN  /\ missed # {}
      /\ Min(missed) + Delay(Cardinality(missed)) <= today
Overdue(published) ==
  LET missed == Misses(published)
  IN  /\ missed # {}
      /\ Max(missed) + Delay(Cardinality(missed)) <= today

(***************************************************************************)
(* What to ask: KRSNeedsRefresh and save_org_connections.                    *)
(***************************************************************************)
Update(published) == LastOf(written \cap published)

\* More than SkipWorkDays working days ago.
HasSettled(d) ==
  Cardinality({e \in d + 1..today - 1 : e \notin Weekend}) >= SkipWorkDays

WrittenSince(q, published) ==
  /\ Latest(q) > 0 /\ Update(published) > Latest(q)
  /\ HasSettled(Update(published))

BuysUnseen(q) == TRUE  \* mutant: bought whenever the register was written to
PeopleChangedSince(q) == ChangedOn > Latest(q)

HoldsAllBack(published) ==  \* mutant: also what would show the change
  {q \in Queries : WrittenSince(q, published) /\ PeopleChangedSince(q)}
    \cup {q \in Paid : Latest(q) > 0 /\ Overdue(published)}
NeedsRefresh(published) ==
  {q \in Free : WrittenSince(q, published)}
    \cup {q \in Paid : WrittenSince(q, published) /\ PeopleChangedSince(q)}
    \cup {q \in Paid : Latest(q) > 0 /\ Overdue(published)}

Lacking ==
  /\ \E q \in Paid : Latest(q) > 0
  /\ \/ \A q \in Free : Latest(q) = 0
     \/ ~NamedElsewhere /\ Snapshots = {}

ToAsk(published) ==
  LET again == NeedsRefresh(published)
      company == IF Scraped /\ again = {} THEN {}
                 ELSE {q \in Queries : Latest(q) = 0} \cup again
  IN  (company \cup (IF Lacking THEN Free ELSE {})) \ Settled

(***************************************************************************)
(* The two phases of a run.                                                  *)
(***************************************************************************)
Past == 1..today - 1

\* scrape_krs_free: the bulletins of the days past, of which some fail, then
\* what to ask the registers.
StartFree ==
  /\ asking = {}
  /\ LET missing == Past \ bulletin
     IN  \E failed \in SUBSET missing :
           /\ faults + Cardinality(failed) <= MaxFaults
           /\ faults' = faults + Cardinality(failed)
           /\ bulletin' = bulletin \cup (missing \ failed)
  /\ asking' = ToAsk(bulletin') \cap Free
  /\ UNCHANGED <<world, answers>>

StartPaid ==
  /\ asking = {}
  /\ asking' = ToAsk(bulletin) \cap Paid
  /\ UNCHANGED <<world, bulletin, answers, faults>>

\* Uploading does not touch what is there of the same day.
Stores(q, answer) ==
  answers' = IF answers[q][today] = "none"
             THEN [answers EXCEPT ![q][today] = answer] ELSE answers

Answer(q) ==
  CASE q = "A" -> mirror [] q = "H" -> "past" [] q = Home -> board
    [] OTHER -> "absent"

\* The queries of a company are made in this order.
IsNext(q) ==
  /\ q \in asking
  /\ q = "S" => "P" \notin asking
  /\ q = "H" => "A" \notin asking

Ask(q) ==
  /\ IsNext(q)
  /\ asking' = asking \ {q} /\ Stores(q, Answer(q))
  /\ UNCHANGED <<world, bulletin, faults>>

\* A free query that fails leaves an empty object; a paid one, or one that was
\* denied, or an upload that fails, leaves nothing.
Miss(q) ==
  /\ IsNext(q) /\ faults < MaxFaults
  /\ asking' = asking \ {q} /\ faults' = faults + 1
  /\ IF q \in Free THEN Stores(q, "empty") \/ UNCHANGED answers
                   ELSE UNCHANGED answers
  /\ UNCHANGED <<world, bulletin>>

\* Ended by an error or by hand.
Stop ==
  /\ asking # {} /\ asking' = {}
  /\ UNCHANGED <<world, bulletin, answers, faults>>

(***************************************************************************)
(* Meanwhile.                                                                *)
(***************************************************************************)
scraper == <<bulletin, answers, asking, faults>>

Write ==
  /\ Cardinality(written \cup {today}) <= MaxWritten
  /\ written' = written \cup {today}
  /\ board' \in Boards
  /\ UNCHANGED <<today, mirror, scraper>>

CatchUp ==
  /\ mirror' = board /\ UNCHANGED <<today, board, written, scraper>>

Tomorrow ==
  /\ today < LastDay /\ today' = today + 1
  /\ UNCHANGED <<board, mirror, written, scraper>>

Next ==
  \/ StartFree \/ StartPaid \/ Stop
  \/ \E q \in Queries : Ask(q) \/ Miss(q)
  \/ Write \/ CatchUp \/ Tomorrow

Spec == Init /\ [][Next]_vars

-----------------------------------------------------------------------------
Consecutive(S, r, s) == r < s /\ ~\E t \in S : r < t /\ t < s

(***************************************************************************)
(* Nothing is bought again on suspicion (filter_paid_by_people_changes):     *)
(* between two purchases the register wrote to the entry and a snapshot was  *)
(* taken after the first, or a snapshot disagrees with it or with an earlier *)
(* one (it is no proof of its own that it is right) and the time was waited.  *)
(***************************************************************************)
RepurchaseHasEvidence ==
  LET bought == Answered("A")
      snapshots == Snapshots
  IN  \A r, s \in bought : Consecutive(bought, r, s) =>
        \/ /\ \E d \in snapshots : r < d /\ d <= s
           /\ \E d \in written : r < d /\ d < s
        \/ /\ \E q \in bought, d \in snapshots :
                q <= r /\ d <= s /\ BoardOn(d) # answers["A"][q]
           /\ s - r >= Backoff[1]

(***************************************************************************)
(* While the register leaves the entry alone, since it was last read and     *)
(* longer, retries are further and further apart ("a company rejestr.io      *)
(* simply has no record of is not re-bought every night").  It takes that it *)
(* was read: a bulletin that comes late may show an answer to have been      *)
(* right and the count starts over.                                          *)
(***************************************************************************)
PurchasesBackOff ==
  LET bought == Answered("A")
  IN  \A r, s, t \in bought :
        Consecutive(bought, r, s) /\ Consecutive(bought, s, t)
            /\ (\E d \in Snapshots : d <= r /\ written \cap d..t = {})
          => t - s >= Delay(2)

(***************************************************************************)
(* A change of the board is read once it has settled, unless it came later   *)
(* on a day on which the register had been read already.                     *)
(***************************************************************************)
ChangesAreRead ==
  [][asking = {} /\ Answered(Home) # {}
       /\ board # answers[Home][Latest(Home)] /\ Latest(Home) \notin written
       /\ written \subseteq bulletin' /\ HasSettled(Max(written)) /\ StartFree
     => Home \in asking']_vars

(***************************************************************************)
(* A wrong answer does not stay unnoticed: when a later snapshot shows that  *)
(* it was wrong when it was bought, it is found short (RejestrIOCoverage:    *)
(* "This pipeline closes the hole"), if no earlier snapshot is as near.      *)
(***************************************************************************)
ShownWrong(r, d) ==
  /\ r <= d /\ d < today /\ BoardOn(d) # answers["A"][r]
  /\ ~\E w \in written : r < w
NoNearer(r, d) == \A e \in Snapshots : e < r => d - r < r - e
WrongIsNoticed ==
  asking = {} /\ 1..today - 1 \subseteq bulletin /\ Answered("A") # {} =>
    LET r == Latest("A")
    IN  (\E d \in Snapshots : ShownWrong(r, d) /\ NoNearer(r, d))
          => r \in Misses(bulletin)

(***************************************************************************)
(* Whatever the earlier snapshots are.  It does not hold: one that is nearer *)
(* and tells nothing, as the register was written to in between, is compared *)
(* in place of the one that shows it, and the answer stays ("The wrong       *)
(* answer is then permanent").                                               *)
(***************************************************************************)
HoleIsClosed ==
  asking = {} /\ 1..today - 1 \subseteq bulletin /\ Answered("A") # {} =>
    LET r == Latest("A")
    IN  (\E d \in Snapshots : ShownWrong(r, d)) => r \in Misses(bulletin)

(***************************************************************************)
(* A query that failed is asked again by the next run (scraper.scrape_krs_   *)
(* free records it as an empty object, KRSAlreadyScraped: Counting those as  *)
(* scraped left companies "looking done and never retried").                 *)
(***************************************************************************)
FailedIsRetried ==
  [][StartFree =>
       \A q \in Free : Answered(q) = {} /\ (\E d \in Days : answers[q][d] = "empty")
         => q \in asking']_vars
=============================================================================
