-------------------------- MODULE MCInvestmentScore --------------------------
(* Four stocks to start from: one on all its averages, one with everything  *)
(* in its favour, one with everything against it, one nothing is known of.  *)
EXTENDS InvestmentScore

Day(close, volume) == [close |-> close, volume |-> volume]
Trade(by, kind, value, shares) == [by |-> by, kind |-> kind, value |-> value, shares |-> shares]

MCTrades ==
  {Trade("CEO or CFO", "Sale", 2, 1), Trade("CEO or CFO", "Buy", 2, 3),
   Trade("CEO or CFO", "Buy", NoData, 2), Trade("other", "Sale", 9, 9)}

MCDays == {Day(100, 0), Day(100, 4), Day(103, 4), Day(103, 1)}

MCZScores == {-20, 0, 7, 20}

Neutral ==
  [long |-> TRUE, price |-> 100, sma20 |-> 100, sma50 |-> 100, sma200 |-> 100,
   rsi |-> 50, rsiPrev |-> 50, short |-> 40, z |-> 0, trades |-> {},
   etf |-> <<Day(100, 2), Day(100, 2), Day(100, 2)>>, index |-> <<100, 100, 100>>]

Perfect ==
  [Neutral EXCEPT !.price = 110, !.sma50 = 103, !.rsi = 60, !.short = 0, !.z = -20,
                  !.etf = <<Day(100, 2), Day(100, 2), Day(103, 4)>>]

Hopeless ==
  [Neutral EXCEPT !.price = 93, !.sma20 = 100, !.sma50 = 97, !.sma200 = 103, !.rsi = 27,
                  !.rsiPrev = 44, !.short = 150, !.z = 20,
                  !.etf = <<Day(103, 2), Day(103, 2), Day(100, 4)>>,
                  !.trades = {Trade("CEO or CFO", "Sale", 2, 1)}]

Unknown ==
  [Neutral EXCEPT !.sma20 = NoData, !.sma50 = NoData, !.sma200 = NoData, !.rsi = NoData,
                  !.rsiPrev = NoData, !.short = NoData, !.z = NoData, !.etf = <<>>, !.index = <<>>]

MCBaselines == {Neutral, Perfect, Hopeless, Unknown}
==============================================================================
