CONSTANTS
  Markets = {m1}
  TwoStat = {}
  Provable = {m1}
  Crons = {k1}
  Posts = {}
  NoMarket = NoMarket
  UsesKv = TRUE
  RpcLags = FALSE
  KvLags = FALSE
  MaxStops = 0
  MaxForks = 1
SPECIFICATION FairSpec
PROPERTIES EveryDueMarketSettles
