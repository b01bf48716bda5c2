----------------------------- MODULE MCBidLadder -----------------------------
(****************************************************************************)
(* BidLadder for TLC: prices below the first rung, about every bend of the  *)
(* ladder and beyond the last one.                                          *)
(****************************************************************************)
EXTENDS BidLadder

MCPrices == {0, 1, 10, 19, 38, 40, 57, 96, 190, 200, 209, 400}

Feed(p20, p50, p80) ==
  [x \in {"P20", "P50", "P80"} |-> CASE x = "P20" -> p20 [] x = "P50" -> p50
                                     [] x = "P80" -> p80]

MCFeeds == {Feed(0, 0, 0), Feed(8, 20, 39), Feed(95, 181, 210)}
==============================================================================
