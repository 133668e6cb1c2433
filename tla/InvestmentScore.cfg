CONSTANTS
  NoData = NoData
  Prices = {93, 100, 104, 110}
  Averages = {97, 100, 103}
  RSIs = {27, 44, 50, 60, 72, 85}
  Shorts = {0, 40, 100, 150}
  ZScores <- MCZScores
  Days <- MCDays
  Levels = {100, 103}
  Trades <- MCTrades
  Window = 2
  RelativeBars = 2
  Baselines <- MCBaselines
  Deviations = 2
SPECIFICATION ScoreSpec
INVARIANTS OverboughtPenalised
PROPERTIES BetterNeverCosts LostDataIsNeutral
CHECK_DEADLOCK FALSE
