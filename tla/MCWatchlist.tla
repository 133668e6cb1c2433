----------------------------- MODULE MCWatchlist -----------------------------
(* A share of Tel Aviv, two holdings of which one is of Tel Aviv too, and a *)
(* stock of an index; the shares of Tel Aviv are listed for a short time.   *)
EXTENDS Watchlist

CONSTANTS fresh, held, kept, old

MCSorted == <<fresh, held, kept, old>>
==============================================================================
