-------------------------- MODULE MCArticleAnswers --------------------------
(***************************************************************************)
(* An article of one request, one of two, and one with nothing to ask about. *)
(***************************************************************************)
EXTENDS ArticleAnswers

MCArticles == {"one", "two", "none"}
MCParts == [a \in MCArticles |-> CASE a = "one" -> 1 [] a = "two" -> 2 [] a = "none" -> 0]
=============================================================================
