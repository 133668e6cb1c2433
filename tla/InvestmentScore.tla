--------------------------- MODULE InvestmentScore ---------------------------
(***************************************************************************)
(* The Investment Score of a stock (src/marketpulse/scoring.py) and what   *)
(* turns market data into its inputs: money flow of the sector             *)
(* (sector_flow.py, db.get_sector_flows), net trading of the CEO and CFO   *)
(* (insider.py), the arguments db.build_score_kwargs assembles for both    *)
(* the page and the batch.  A step is a change of one kind of data between *)
(* two computations of the score.                                          *)
(*                                                                         *)
(* Points are counted in units of 1/600 point, rounded down.  Prices,      *)
(* averages, index levels and RSI are integers, short interest is in       *)
(* 1/1000 of the float and the ATR's z-score in tenths.                    *)
(***************************************************************************)
EXTENDS Integers, Sequences, FiniteSets, FiniteSetsExt, SequencesExt

CONSTANTS
  NoData,           \* None: nothing is known
  Prices,         \* closes a stock can have
  Averages,       \* values of its moving averages
  RSIs,           \* values of RSI-14
  Shorts,         \* short interest, 1/1000 of the float
  ZScores,        \* (ATR14 - ATR90Avg) / ATR90Std, in tenths
  Days,           \* days of the sector's ETF: [close, volume]
  Levels,         \* levels of the S&P 500
  Trades,         \* what CEO and CFO can trade: [kind, value, shares]
  Window,         \* AVG_VOLUME_WINDOW
  RelativeBars,   \* SECTOR_RELATIVE_BARS
  Baselines,      \* the stocks a run starts from
  Deviations      \* bound: inputs that differ from the stock at the start

VARIABLES
  stock,          \* the data the score is computed from
  first           \* that of the start

scoreVars == <<stock, first>>

(* long    : there are MIN_PRICES_FOR_SCORE closes                         *)
(* etf     : the days of the sector's ETF, <<>> for a stock without one    *)
(* index   : the levels of the S&P 500                                     *)
(* trades  : those of the last INSIDER_LOOKBACK_DAYS days                  *)
Averaged == {"sma20", "sma50", "sma200"}
Fields == Averaged \cup {"long", "price", "rsi", "rsiPrev", "etf", "index", "short", "z", "trades"}

Maybe(S) == S \cup {NoData}
Bars == [close : Nat \ {0}, volume : Nat]
Stocks ==
  [long : BOOLEAN, price : Nat, sma20 : Maybe(Nat), sma50 : Maybe(Nat), sma200 : Maybe(Nat),
   rsi : Maybe(0..100), rsiPrev : Maybe(0..100), short : Maybe(Nat), z : Maybe(Int),
   etf : Seq(Bars), index : Seq(Nat \ {0}), trades : {T \in SUBSET Trades : IsFiniteSet(T)}]

Deals == [by : {"CEO or CFO", "other"}, kind : {"Sale", "Buy", "Gift", "Other", NoData},
          value : Maybe(Nat), shares : Maybe(Nat)]

Flows == {"Accumulation", "Distribution", "Neutral"}

ASSUME ScoreAssumption ==
  /\ Prices \subseteq Nat /\ Averages \subseteq Nat /\ RSIs \subseteq 0..100
  /\ Shorts \subseteq Nat /\ ZScores \subseteq Int
  /\ Days \subseteq Bars /\ Levels \subseteq Nat \ {0} /\ Trades \subseteq Deals
  /\ Window \in Nat \ {0} /\ RelativeBars \in Nat \ {0}
  /\ Baselines \subseteq Stocks /\ NoData \notin Flows \cup Int \cup (Int \X Int)

Known(x) == x # NoData
Kept == (IF Window > RelativeBars THEN Window ELSE RelativeBars) + 1   \* days that count

------------------------------------------------------------------------------
(* sector_flow.py                                                          *)

(* The volumes of the Window days before the last one.                     *)
PriorWindow(days) == SubSeq(days, Len(days) - Window, Len(days) - 1)

Total(days) ==
  LET upTo[n \in 0..Len(days)] == IF n = 0 THEN 0 ELSE upTo[n - 1] + days[n].volume
  IN upTo[Len(days)]

(* classify_flow on the last day of compute_daily_flows;                   *)
(* VOLUME_RATIO_THRESHOLD is 3/2, and an average of 0 leaves no ratio.     *)
Flow(days) ==
  IF Len(days) <= Window THEN NoData
  ELSE LET total  == Total(PriorWindow(days))
           today  == Last(days)
           change == today.close - days[Len(days) - 1].close
       IN CASE total = 0 -> NoData
            [] total > 0 /\ 2 * Window * today.volume > 3 * total /\ change > 0 -> "Accumulation"
            [] total > 0 /\ 2 * Window * today.volume > 3 * total /\ change < 0 -> "Distribution"
            [] OTHER -> "Neutral"

(* The return over RelativeBars of the ETF minus that of the index, as a   *)
(* fraction <<difference, whole>>; db.get_sector_flows.                    *)
Relative(days, index) ==
  IF Len(days) <= RelativeBars \/ Len(index) <= RelativeBars THEN NoData
  ELSE LET c0 == days[Len(days) - RelativeBars].close
           c1 == Last(days).close
           s0 == index[Len(index) - RelativeBars]
           s1 == Last(index)
       IN <<c1 * s0 - s1 * c0, c0 * s0>>

------------------------------------------------------------------------------
(* insider.py                                                              *)

(* Only open-market sales and purchases of the CEO or CFO count.           *)
Sales(trades) == {t \in trades : t.by = "CEO or CFO" /\ t.kind = "Sale"}
Buys(trades) == {t \in trades : t.by = "CEO or CFO" /\ t.kind = "Buy"}

(* What was traded, by value or by number of shares; a missing one counts  *)
(* as 0.                                                                   *)
Traded(trades, what) ==
  MapThenSumSet(LAMBDA t : IF Known(t[what]) THEN t[what] ELSE 0, trades)

(* net_insider_activity: bought minus sold decides by value and, when the  *)
(* values are equal, by number of shares.                                  *)
Net(trades) ==
  LET value  == Traded(Buys(trades), "value") - Traded(Sales(trades), "value")
      shares == Traded(Buys(trades), "shares") - Traded(Sales(trades), "shares")
      net    == IF value # 0 THEN value ELSE shares
  IN CASE net < 0 -> "selling" [] net > 0 -> "buying" [] OTHER -> NoData

------------------------------------------------------------------------------
(* scoring.py                                                              *)

Pt == 600         \* one point

Clamp(x, low, high) == IF x < low THEN low ELSE IF x > high THEN high ELSE x

(* _ramp: half the points at x = 0, all at band, none at -band.            *)
Ramp(full, x, band) == Clamp((full * Pt * (band + x)) \div (2 * band), 0, full * Pt)

(* How far a is above b, judged by a band in percent; half without data.   *)
Versus(full, a, b, percent) ==
  IF ~Known(a) \/ ~Known(b) \/ b <= 0 THEN (full * Pt) \div 2
  ELSE Ramp(full, 100 * (a - b), percent * b)

TrendAlignmentReversed(d) ==                \* mutant: the two long averages swapped
  Versus(10, d.price, d.sma20, 3) + Versus(10, d.price, d.sma50, 5)
  + Versus(10, d.price, d.sma200, 10) + Versus(15, d.sma200, d.sma50, 5)

(* _trend_items                                                            *)
Trend(d) ==
  Versus(10, d.price, d.sma20, 3) + Versus(10, d.price, d.sma50, 5)
  + Versus(10, d.price, d.sma200, 10) + Versus(15, d.sma50, d.sma200, 5)

Nodes == <<<<0, 6>>, <<20, 8>>, <<30, 10>>, <<40, 10>>, <<45, 12>>, <<50, 15>>, <<55, 24>>,
           <<58, 30>>, <<65, 30>>, <<70, 20>>, <<75, 8>>, <<80, 2>>, <<100, 0>>>>

RSIPointsFlat(rsi) ==                       \* mutant: overbought keeps the healthy points
  LET i == CHOOSE n \in 1..Len(Nodes) - 1 : Nodes[n][1] <= rsi /\ rsi <= Nodes[n + 1][1]
      x == Nodes[i]
      y == Nodes[i + 1]
  IN IF rsi >= 65 THEN 30 * Pt
     ELSE x[2] * Pt + (Pt * (y[2] - x[2]) * (rsi - x[1])) \div (y[1] - x[1])

(* rsi_points: linear between the nodes; neighbours agree at a node.       *)
RSIPoints(rsi) ==
  LET i == CHOOSE n \in 1..Len(Nodes) - 1 : Nodes[n][1] <= rsi /\ rsi <= Nodes[n + 1][1]
      x == Nodes[i]
      y == Nodes[i + 1]
  IN x[2] * Pt + (Pt * (y[2] - x[2]) * (rsi - x[1])) \div (y[1] - x[1])

Recovering(d) == d.rsi < 45 /\ Known(d.rsiPrev) /\ d.rsi - d.rsiPrev >= 3
Overbought(d) == Known(d.rsi) /\ d.rsi > 70

MomentumBad(d) ==                           \* mutant: a missing RSI counts as bad
  LET points == RSIPoints(d.rsi) IN
    CASE ~Known(d.rsi) -> 0
      [] Known(d.rsi) /\ Recovering(d) /\ points < 22 * Pt -> Clamp(points + 8 * Pt, 0, 22 * Pt)
      [] OTHER -> points

(* _momentum_items                                                         *)
Momentum(d) ==
  LET points == RSIPoints(d.rsi) IN
    CASE ~Known(d.rsi) -> 15 * Pt
      [] Known(d.rsi) /\ Recovering(d) /\ points < 22 * Pt -> Clamp(points + 8 * Pt, 0, 22 * Pt)
      [] OTHER -> points

(* _sector_items                                                           *)
Sector(d) ==
  LET flow     == Flow(d.etf)
      relative == Relative(d.etf, d.index)
  IN (CASE flow = "Accumulation" -> 10 * Pt [] flow = "Distribution" -> 0 [] OTHER -> 5 * Pt)
     + (IF Known(relative) THEN Ramp(5, 100 * relative[1], 3 * relative[2]) ELSE (5 * Pt) \div 2)

HighShort(d) == Known(d.short) /\ d.short > 100
Squeeze(d) == HighShort(d) /\ Trend(d) >= 27 * Pt         \* 0.6 of the trend pillar

(* _risk_items: short interest, where a squeeze is worth 4.8 points, and   *)
(* volatility.                                                             *)
Risk(d) ==
  (CASE ~Known(d.short) -> 3 * Pt
     [] Squeeze(d) -> (48 * Pt) \div 10
     [] HighShort(d) /\ ~Squeeze(d) -> 0
     [] OTHER -> (6 * Pt * (100 - d.short)) \div 100)
  + (IF Known(d.z) THEN Ramp(4, -d.z, 15) ELSE 2 * Pt)

(* _insider_item                                                           *)
Insider(d) ==
  CASE Net(d.trades) = "selling" -> -5 * Pt [] Net(d.trades) = "buying" -> 5 * Pt [] OTHER -> 0

Raw(d) == Trend(d) + Momentum(d) + Sector(d) + Risk(d) + Insider(d)

(* compute_investment_score                                                *)
Score(d) == IF d.long THEN Clamp(Raw(d), 0, 100 * Pt) ELSE NoData

------------------------------------------------------------------------------
ScoreInit ==
  /\ first \in Baselines
  /\ stock = first

Becomes(d) ==
  /\ d # stock
  /\ Cardinality({f \in Fields : d[f] # first[f]}) <= Deviations
  /\ stock' = d
  /\ UNCHANGED first

(* One figure is computed anew, is missing, or the history reaches 200     *)
(* days.                                                                   *)
Figure ==
  \/ \E p \in Prices : Becomes([stock EXCEPT !.price = p])
  \/ \E f \in Averaged, a \in Averages \cup {NoData} : Becomes([stock EXCEPT ![f] = a])
  \/ \E f \in {"rsi", "rsiPrev"}, r \in RSIs \cup {NoData} : Becomes([stock EXCEPT ![f] = r])
  \/ \E z \in ZScores \cup {NoData} : Becomes([stock EXCEPT !.z = z])
  \/ \E s \in Shorts \cup {NoData} : Becomes([stock EXCEPT !.short = s])
  \/ \E l \in BOOLEAN : Becomes([stock EXCEPT !.long = l])

Recent(days) == SubSeq(days, Len(days) - Clamp(Len(days), 0, Kept) + 1, Len(days))

(* The ETF trades one more day, or its last day is refreshed, or its bars  *)
(* are missing.                                                            *)
SectorDay ==
  \/ \E day \in Days : Becomes([stock EXCEPT !.etf = Recent(Append(@, day))])
  \/ /\ stock.etf # <<>>
     /\ \E day \in Days : Becomes([stock EXCEPT !.etf = Append(Front(@), day)])
  \/ Becomes([stock EXCEPT !.etf = <<>>])

IndexDay ==
  \/ \E level \in Levels : Becomes([stock EXCEPT !.index = Recent(Append(@, level))])
  \/ Becomes([stock EXCEPT !.index = <<>>])

(* A trade is filed, or is older than INSIDER_LOOKBACK_DAYS.               *)
InsiderTrade ==
  \/ \E t \in Trades \ stock.trades : Becomes([stock EXCEPT !.trades = @ \cup {t}])
  \/ \E t \in stock.trades : Becomes([stock EXCEPT !.trades = @ \ {t}])

ScoreNext == Figure \/ SectorDay \/ IndexDay \/ InsiderTrade

ScoreSpec == ScoreInit /\ [][ScoreNext]_scoreVars

------------------------------------------------------------------------------
Same(fields) == \A f \in Fields \ fields : stock'[f] = stock[f]
Scored == stock.long /\ stock'.long

(* Both are numbers, and the second is at least, at most, the first.       *)
Up(f) == Known(stock[f]) /\ Known(stock'[f]) /\ stock[f] <= stock'[f]
Down(f) == Known(stock[f]) /\ Known(stock'[f]) /\ stock'[f] <= stock[f]

(* Judged by the raw data: the stock rises, or its 20-day or 200-day       *)
(* average falls, though not to 0, which would count as missing; it was    *)
(* weaker RSI_COMPARE_BARS ago; it is calmer; it is shorted less, unless   *)
(* that ends a high short interest; its sector's ETF closes the day higher *)
(* on the same volume; its CEO or CFO buys, or a sale of theirs is too old *)
(* to count.                                                               *)
Improves ==
  \/ Up("price") /\ Same({"price"})
  \/ \E f \in {"sma20", "sma200"} : Down(f) /\ stock'[f] > 0 /\ Same({f})
  \/ \E f \in {"rsiPrev", "z"} : Down(f) /\ Same({f})
  \/ Down("short") /\ (HighShort(stock') \/ ~HighShort(stock)) /\ Same({"short"})
  \/ /\ stock.etf # <<>> /\ Len(stock'.etf) = Len(stock.etf)
     /\ Front(stock'.etf) = Front(stock.etf)
     /\ Last(stock'.etf).volume = Last(stock.etf).volume
     /\ Last(stock'.etf).close >= Last(stock.etf).close
     /\ Same({"etf"})
  \/ /\ Same({"trades"})
     /\ stock'.trades \ stock.trades \subseteq Buys(Trades)
     /\ stock.trades \ stock'.trades \subseteq Sales(Trades)

(* What is better for the stock never costs it points, also where the      *)
(* pillars depend on each other: a stronger trend turns a high short       *)
(* interest from a bearish conviction into a squeeze setup.                *)
BetterNeverCosts == [][Scored /\ Improves => Score(stock') >= Score(stock)]_scoreVars

(* Half of the points that an input decides, in tenths of a point; losing  *)
(* a moving average can also change how a high short interest is read.     *)
HalfOf(f) ==
  CASE f = "sma20" -> 50 [] f \in {"sma50", "sma200"} -> 125 [] f = "rsi" -> 150
    [] f = "etf" -> 75 [] f = "index" -> 25 [] f = "short" -> 30 [] f = "z" -> 20
    [] f = "rsiPrev" -> 80 [] OTHER -> 0
SqueezeTenths(f) == IF f \in Averaged /\ HighShort(stock) THEN 48 ELSE 0

Lost(f) ==
  IF f \in {"etf", "index"} THEN stock[f] # <<>> /\ stock'[f] = <<>>
  ELSE Known(stock[f]) /\ ~Known(stock'[f])

(* Missing data is neutral: losing an input moves the score, either way,   *)
(* by at most half of the points the input decides (and by the recovery    *)
(* bonus when the earlier RSI is lost), to 1/100 point.                    *)
LostDataIsNeutral ==
  [][\A f \in Fields \ {"long", "price", "trades"} :
       Lost(f) /\ Scored /\ Same({f}) =>
         LET bound == ((HalfOf(f) + SqueezeTenths(f)) * Pt) \div 10 + 6 IN
           Score(stock') - Score(stock) \in -bound..bound]_scoreVars

(* An overbought stock is kept below the score its data would give it in   *)
(* healthy momentum, by more than 10 points before the result is clamped,  *)
(* and below 95 whatever else is perfect.                                  *)
OverboughtPenalised ==
  stock.long /\ Overbought(stock) =>
    /\ Raw(stock) + 10 * Pt < Raw([stock EXCEPT !.rsi = 65])
    /\ Score(stock) < 95 * Pt
==============================================================================
