--------------------------- MODULE MCArticleStore ---------------------------
(* Instances of ArticleStore for TLC: one feed, fetched by two.              *)
EXTENDS ArticleStore, TLC

CONSTANTS g1, g2

\* The first article has a date, the second has none.
Dates == g1 :> 1 @@ g2 :> 0

Interchangeable == Permutations(Ids) \cup Permutations(Fetchers)
=============================================================================
