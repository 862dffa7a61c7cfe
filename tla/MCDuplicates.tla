---- MODULE MCDuplicates ----
EXTENDS Duplicates

CONSTANTS p1, p2, p3, x1, x2

MCPages == {p1, p2, p3, x1, x2}
MCKind == [n \in MCPages |-> IF n \in {p1, p2, p3} THEN "person" ELSE "place"]

Of(year, committee) == [year |-> year, committee |-> committee]
Fact(s, t, type, says) ==
  [source |-> s, target |-> t, type |-> type, says |-> says, deleted |-> FALSE]
Election(s, t, committee) == Fact(s, t, "election", Of("y24", committee))
Filed(facts) == [i \in {DocumentId(e, 0) : e \in facts} |->
                   CHOOSE e \in facts : DocumentId(e, 0) = i]

\* A seat both hold, a candidacy known twice, and a tie between the two.
MCStored == Filed({Fact(p1, x1, "employed", Of("y20", Blank)), Fact(p2, x1, "employed", Of("y20", Blank)),
                   Election(p1, x1, "k1"), Election(p2, x1, Blank),
                   Fact(p1, p2, "connection", Of(Blank, Blank))})

Row(committee) == [target |-> x1, type |-> "election", says |-> Of("y24", committee)]
Payload(rows, vouched, ps) == [rows |-> rows, vouched |-> vouched, parties |-> ps]
MCPayloads == {Payload(<<Row("k1"), Row("k1")>>, TRUE, {"l1"}),
               Payload(<<Row("k1"), Row("k2")>>, FALSE, {}),
               Payload(<<Row(Blank)>>, TRUE, {})}

MCCast == {<<p1, "u1">>, <<p2, "u1">>, <<p1, "u2">>}
MCKnows == [n \in MCPages |-> IF n = p2 THEN {"l1"} ELSE {}]

PageRank(n) == CASE n = p1 -> 1 [] n = p2 -> 2 [] n = p3 -> 3 [] n = x1 -> 4 [] OTHER -> 5
SaysRank(s) == CASE s.committee = Blank -> 0 [] s.committee = "k1" -> 1 [] OTHER -> 2
MCRank(i) ==
  LET ends == i[1][1]
  IN  1000 * PageRank(ends[1]) + 100 * PageRank(ends[2])
      + (IF ends[3] = "election" THEN 50 ELSE 0) + 10 * SaysRank(i[1][2]) + i[2]
====
