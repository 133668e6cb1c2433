---------------------------- MODULE MCRecentNews -----------------------------
(* RecentNews for TLC: two tickers; the oldest headline names both, so     *)
(* that a pipeline and a live refresh can meet it in different orders.     *)
EXTENDS RecentNews

MCTickers == {1, 2}
MCArticles == 1..3
MCAbout == [a \in MCArticles |-> CASE a = 1 -> {1, 2} [] a = 2 -> {2} [] a = 3 -> {1, 2}]
=============================================================================
